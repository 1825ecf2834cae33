------------------------ MODULE BridgeSigning_proofs ------------------------
(***************************************************************************)
(* Proofs about BridgeSigning, for any number of requests, tokens, slots   *)
(* of PKCS#11 modules, certificates and PINs.                              *)
(***************************************************************************)
EXTENDS BridgeSigning, TLAPS

-----------------------------------------------------------------------------
(* What the writes of a request do to it *)

\* Only request q changes, and the requests keep their type.
Only(q) ==
  /\ reqs' \in [Reqs -> ReqRec]
  /\ \A r \in Reqs \ {q} : reqs'[r] = reqs[r]

\* Request q still is about the same certificate in the same slot, as it came.
Keeps(q) ==
  /\ Only(q) /\ reqs'[q].cert = reqs[q].cert /\ reqs'[q].typed = reqs[q].typed
  /\ reqs'[q].slot = reqs[q].slot

LEMMA GotoForm ==
  ASSUME TypeOK, NEW q \in Reqs, NEW pc \in PCs, Goto(q, pc)
  PROVE  /\ Keeps(q) /\ reqs'[q].pc = pc
         /\ reqs'[q].pin = reqs[q].pin /\ reqs'[q].live = reqs[q].live
         /\ reqs'[q].key = reqs[q].key
BY DEF TypeOK, ReqRec, Goto, Keeps, Only

LEMMA FailForm ==
  ASSUME TypeOK, NEW q \in Reqs, NEW code \in Codes, FailWith(q, code)
  PROVE  /\ Keeps(q) /\ reqs'[q].pc = "failing" /\ reqs'[q].code = code
         /\ reqs'[q].pin = reqs[q].pin /\ reqs'[q].live = FALSE /\ reqs'[q].key = reqs[q].key
<1>1. "failing" \in PCs
  BY DEF PCs
<1> QED BY <1>1 DEF TypeOK, ReqRec, FailWith, Keeps, Only

LEMMA RespondForm ==
  ASSUME TypeOK, NEW q \in Reqs, NEW code \in Codes, Respond(q, code)
  PROVE  /\ Only(q) /\ reqs'[q].pc = "done" /\ reqs'[q].code = code /\ reqs'[q].live = FALSE
         /\ reqs'[q].key = reqs[q].key
<1>1. "done" \in PCs
  BY DEF PCs
<1> QED BY <1>1 DEF TypeOK, ReqRec, Respond, Only

LEMMA ReceiveForm ==
  ASSUME TypeOK, NEW q \in Reqs, NEW k \in Certs, NEW p \in Pins \cup {NoPin}, Receive(q, k, p)
  PROVE  /\ Only(q) /\ reqs'[q].pc = "received" /\ reqs'[q].cert = k
         /\ reqs'[q].pin = p /\ reqs'[q].typed = (p # NoPin)
         /\ reqs'[q].live = reqs[q].live /\ reqs'[q].key = reqs[q].key
<1>1. "received" \in PCs
  BY DEF PCs
<1> QED BY <1>1 DEF TypeOK, ReqRec, Receive, Only

LEMMA FindForm ==
  ASSUME TypeOK, NEW q \in Reqs, FindCert(q)
  PROVE  /\ Only(q) /\ reqs'[q].pc = "found" /\ reqs'[q].cert = reqs[q].cert
         /\ reqs'[q].slot \in Slots /\ CardOf[reqs'[q].slot] = Tok(q)
         /\ reqs'[q].pin = reqs[q].pin /\ reqs'[q].typed = reqs[q].typed
         /\ reqs'[q].live = reqs[q].live /\ reqs'[q].key = reqs[q].key
<1>1. "found" \in PCs
  BY DEF PCs
<1>2. PICK s \in Slots : /\ CardOf[s] = Tok(q)
                        /\ reqs' = [reqs EXCEPT ![q] = [@ EXCEPT !.pc = "found", !.slot = s]]
  BY DEF FindCert, SlotsOf
<1>3. reqs'[q].slot = s
  BY <1>2 DEF TypeOK, ReqRec
<1> QED BY <1>1, <1>2, <1>3 DEF TypeOK, ReqRec, Only

LEMMA ResolvePinForm ==
  ASSUME TypeOK, NEW q \in Reqs, reqs[q].cert \in Certs, ResolvePin(q)
  PROVE  /\ Keeps(q) /\ reqs'[q].pc = "resolved" /\ reqs'[q].live = reqs[q].live
         /\ reqs'[q].pin = IF reqs[q].typed THEN reqs[q].pin ELSE cache[reqs[q].cert]
         /\ reqs'[q].key = reqs[q].key
<1>1. "resolved" \in PCs
  BY DEF PCs
<1> DEFINE pin == IF reqs[q].typed THEN reqs[q].pin ELSE cache[reqs[q].cert]
<1>2. pin \in Pins \cup {NoPin}
  BY DEF TypeOK, ReqRec
<1>3. reqs' = [reqs EXCEPT ![q] = [@ EXCEPT !.pc = "resolved", !.pin = pin]]
  BY DEF ResolvePin
<1> HIDE DEF pin
<1>4. /\ Keeps(q) /\ reqs'[q].pc = "resolved" /\ reqs'[q].live = reqs[q].live
      /\ reqs'[q].pin = pin /\ reqs'[q].key = reqs[q].key
  BY <1>1, <1>2, <1>3 DEF TypeOK, ReqRec, Keeps, Only
<1> QED BY <1>4 DEF pin

LEMMA OpenedForm ==
  ASSUME TypeOK, NEW q \in Reqs,
         reqs' = [reqs EXCEPT ![q] = [@ EXCEPT !.pc = "opened", !.live = TRUE]]
  PROVE  /\ Keeps(q) /\ reqs'[q].pc = "opened" /\ reqs'[q].live = TRUE
         /\ reqs'[q].pin = reqs[q].pin /\ reqs'[q].key = reqs[q].key
<1>1. "opened" \in PCs
  BY DEF PCs
<1> QED BY <1>1 DEF TypeOK, ReqRec, Keeps, Only

LEMMA SignForm ==
  ASSUME TypeOK, NEW q \in Reqs, reqs[q].slot \in Slots, Sign(q) \/ SignError(q)
  PROVE  Keeps(q) /\ reqs'[q].pc = "leaving" /\ reqs'[q].live = reqs[q].live
           /\ reqs'[q].pin = reqs[q].pin
           /\ IF Sign(q) THEN reqs'[q].key \in Certs ELSE reqs'[q].key = reqs[q].key
<1>1. "leaving" \in PCs /\ "INTERNAL_ERROR" \in Codes /\ "TOKEN_NOT_FOUND" \in Codes
  BY DEF PCs, Codes
<1>2. CASE Sign(q)
  <2>1. FirstKey[reqs[q].slot] \in Certs
    BY TokenAssumption
  <2> QED BY <1>1, <1>2, <2>1 DEF TypeOK, ReqRec, Keeps, Only, Sign
<1>3. CASE SignError(q) /\ ~Sign(q)
  <2> DEFINE code == IF reqs[q].live THEN "INTERNAL_ERROR" ELSE "TOKEN_NOT_FOUND"
  <2>1. code \in Codes
    BY <1>1
  <2>2. reqs' = [reqs EXCEPT ![q] = [@ EXCEPT !.pc = "leaving", !.code = code]]
    BY <1>3 DEF SignError
  <2> HIDE DEF code
  <2>3. /\ Keeps(q) /\ reqs'[q].pc = "leaving" /\ reqs'[q].live = reqs[q].live
        /\ reqs'[q].pin = reqs[q].pin /\ reqs'[q].key = reqs[q].key
    BY <1>1, <2>1, <2>2 DEF TypeOK, ReqRec, Keeps, Only
  <2> QED BY <1>3, <2>3
<1> QED BY <1>2, <1>3

LEMMA LogoutForm ==
  ASSUME TypeOK, NEW q \in Reqs, Logout(q)
  PROVE  /\ Keeps(q) /\ reqs'[q].live = FALSE /\ reqs'[q].pin = reqs[q].pin
         /\ reqs'[q].key = reqs[q].key
         /\ reqs'[q].pc = IF reqs[q].key # NoCert THEN "returned" ELSE "failing"
<1> DEFINE pc == IF reqs[q].key # NoCert THEN "returned" ELSE "failing"
<1>1. pc \in PCs /\ pc \in {"returned", "failing"}
  BY DEF PCs
<1>2. reqs' = [reqs EXCEPT ![q] = [@ EXCEPT !.pc = pc, !.live = FALSE]]
  BY DEF Logout
<1> HIDE DEF pc
<1>3. /\ Keeps(q) /\ reqs'[q].live = FALSE /\ reqs'[q].pin = reqs[q].pin
      /\ reqs'[q].key = reqs[q].key /\ reqs'[q].pc = pc
  BY <1>1, <1>2 DEF TypeOK, ReqRec, Keeps, Only
<1> QED BY <1>3 DEF pc

-----------------------------------------------------------------------------
(* The inductive invariant: who owns a login, and which PINs are cached, is *)
(* known only together with what each running request knows.               *)

BInv == TypeOK /\ RequestsConsistent /\ LoginHasOneOwner /\ CachedPinsWereAccepted

\* Tokens stay plugged in and accepted PINs stay accepted.
TokensKept ==
  \A t \in Tokens : token'[t].plugged = token[t].plugged /\ accepted[t] \subseteq accepted'[t]

\* The requests that do not move stay consistent.
LEMMA OthersConsistent ==
  ASSUME BInv, NEW q \in Reqs, Only(q), TokensKept, RequestConsistent(q)'
  PROVE  RequestsConsistent'
<1>1. ASSUME NEW r \in Reqs \ {q} PROVE RequestConsistent(r)'
  <2>1. reqs'[r] = reqs[r] /\ RequestConsistent(r)
    BY DEF Only, BInv, RequestsConsistent
  <2>2. reqs[r].pc \notin {"idle", "done"} => Tok(r) \in Tokens
    BY <2>1, TokenAssumption DEF RequestConsistent, Tok
  <2>3. Tok(r)' = Tok(r)
    BY <2>1 DEF Tok
  <2> QED BY <2>1, <2>2, <2>3 DEF RequestConsistent, TokensKept
<1> QED BY <1>1 DEF RequestsConsistent

\* A step of q that changes no login, and not whether q holds one.
LEMMA SameLogins ==
  ASSUME BInv, NEW q \in Reqs, Only(q), UNCHANGED login,
         \A x \in Slots : Holds(q, x)' <=> Holds(q, x)
  PROVE  LoginHasOneOwner'
<1>1. \A r \in Reqs, x \in Slots : Holds(r, x)' <=> Holds(r, x)
  BY DEF Only, Holds
<1> QED BY <1>1 DEF BInv, LoginHasOneOwner

\* A step that leaves the cache alone.
LEMMA SameCache ==
  ASSUME BInv, UNCHANGED cache, TokensKept
  PROVE  CachedPinsWereAccepted'
BY TokenAssumption DEF BInv, CachedPinsWereAccepted, TokensKept

\* A step of q that leaves cache, tokens and history alone.
LEMMA QuietStep ==
  ASSUME BInv, NEW q \in Reqs, Only(q), UNCHANGED <<cache, token, login, accepted>>,
         RequestConsistent(q)', \A x \in Slots : Holds(q, x)' <=> Holds(q, x)
  PROVE  BInv'
<1>1. TokensKept
  BY DEF TokensKept
<1>2. TypeOK'
  BY DEF BInv, TypeOK, Only
<1> QED BY <1>1, <1>2, OthersConsistent, SameLogins, SameCache DEF BInv

-----------------------------------------------------------------------------
(* One step keeps the invariant *)

\* Tok(q) is a token as long as q runs; once it was found, it is in q's slot.
LEMMA RunningToken ==
  ASSUME BInv, NEW q \in Reqs, reqs[q].pc \notin {"idle", "done"}
  PROVE  /\ reqs[q].cert \in Certs /\ Tok(q) \in Tokens /\ RequestConsistent(q)
         /\ reqs[q].pc # "received" => reqs[q].slot \in Slots
BY TokenAssumption DEF BInv, RequestsConsistent, RequestConsistent, Tok

\* The answers that change nothing but the request.
LEMMA RespondStep ==
  ASSUME BInv, NEW q \in Reqs, NEW code \in Codes, Respond(q, code),
         reqs[q].pc \in {"received", "found"}, UNCHANGED <<cache, token, login, accepted>>
  PROVE  BInv'
<1>1. Only(q) /\ reqs'[q].pc = "done" /\ reqs'[q].live = FALSE
  BY RespondForm DEF BInv
<1> QED BY <1>1, QuietStep DEF RequestConsistent, Holds

LEMMA ReceiveStep ==
  ASSUME BInv, NEW q \in Reqs, NEW k \in Certs, NEW p \in Pins \cup {NoPin}, Receive(q, k, p)
  PROVE  BInv'
<1>1. /\ Only(q) /\ reqs'[q].pc = "received" /\ reqs'[q].cert = k
      /\ reqs'[q].pin = p /\ reqs'[q].typed = (p # NoPin) /\ reqs'[q].live = reqs[q].live
  BY ReceiveForm DEF BInv
<1>2. reqs[q].pc = "idle" /\ UNCHANGED <<cache, token, login, accepted>>
  BY DEF Receive
<1>3. ~reqs[q].live
  BY <1>2 DEF BInv, RequestsConsistent, RequestConsistent
<1> QED BY <1>1, <1>2, <1>3, QuietStep DEF RequestConsistent, Holds

LEMMA EarlySteps ==
  ASSUME BInv, NEW q \in Reqs,
         Refuse(q) \/ FindCert(q) \/ FindCertFails(q) \/ ResolvePin(q) \/ PinRequired(q)
  PROVE  BInv'
<1>1. CASE Refuse(q)
  BY <1>1, RespondStep DEF Refuse, Codes
<1>2. CASE FindCert(q)
  <2>1. /\ Only(q) /\ reqs'[q].pc = "found" /\ reqs'[q].cert = reqs[q].cert
        /\ reqs'[q].slot \in Slots /\ CardOf[reqs'[q].slot] = Tok(q)
        /\ reqs'[q].pin = reqs[q].pin /\ reqs'[q].typed = reqs[q].typed
        /\ reqs'[q].live = reqs[q].live
    BY <1>2, FindForm DEF BInv
  <2>2. reqs[q].pc = "received" /\ UNCHANGED <<cache, token, login, accepted>>
    BY <1>2 DEF FindCert
  <2>3. ~reqs[q].live /\ Tok(q)' = Tok(q)
    BY <2>1, <2>2, RunningToken DEF RequestConsistent, Tok
  <2>4. RequestConsistent(q)'
    BY <2>1, <2>2, <2>3, RunningToken DEF RequestConsistent
  <2> QED BY <2>1, <2>2, <2>3, <2>4, QuietStep DEF Holds
<1>3. CASE FindCertFails(q)
  BY <1>3, RespondStep DEF FindCertFails, Codes
<1>4. CASE ResolvePin(q)
  <2>1. reqs[q].pc = "found" /\ UNCHANGED <<cache, token, login, accepted>>
    BY <1>4 DEF ResolvePin
  <2>2. /\ Keeps(q) /\ reqs'[q].pc = "resolved" /\ reqs'[q].live = reqs[q].live
        /\ reqs'[q].pin = IF reqs[q].typed THEN reqs[q].pin ELSE cache[reqs[q].cert]
    BY <1>4, <2>1, RunningToken, ResolvePinForm DEF BInv
  <2>3. reqs'[q].pin # NoPin
    BY <1>4, <2>2 DEF ResolvePin
  <2>4. reqs[q].typed \/ reqs'[q].pin \in accepted[Tok(q)]
    BY <2>1, <2>2, <2>3, RunningToken DEF BInv, CachedPinsWereAccepted, Tok
  <2>5. Tok(q)' = Tok(q) /\ reqs'[q].typed = reqs[q].typed
    BY <2>2 DEF Keeps, Tok
  <2>6. RequestConsistent(q)'
    BY <2>1, <2>2, <2>3, <2>4, <2>5, RunningToken DEF RequestConsistent, Keeps
  <2> QED BY <2>1, <2>2, <2>6, QuietStep DEF Keeps, Holds
<1>5. CASE PinRequired(q)
  BY <1>5, RespondStep DEF PinRequired, Codes
<1> QED BY <1>1, <1>2, <1>3, <1>4, <1>5

\* SignHash fails before it holds a login.
LEMMA FailStep ==
  ASSUME BInv, NEW q \in Reqs, NEW code \in Codes, FailWith(q, code),
         reqs[q].pc \in {"resolved", "opened"}
  PROVE  /\ Only(q) /\ reqs'[q].pc = "failing" /\ (\A x \in Slots : Holds(q, x)' <=> Holds(q, x))
         /\ RequestConsistent(q)'
<1>1. /\ Keeps(q) /\ reqs'[q].pc = "failing" /\ reqs'[q].live = FALSE /\ reqs'[q].pin = reqs[q].pin
  BY FailForm DEF BInv
<1>2. Tok(q)' = Tok(q)
  BY <1>1 DEF Keeps, Tok
<1>3. RequestConsistent(q)'
  BY <1>1, <1>2, RunningToken DEF RequestConsistent, Keeps
<1> QED BY <1>1, <1>3 DEF Keeps, Holds

LEMMA OpenStep == ASSUME BInv, NEW q \in Reqs, OpenSession(q) PROVE BInv'
<1>1. reqs[q].pc = "resolved" /\ UNCHANGED <<cache, token, login, accepted>>
  BY DEF OpenSession
<1>2. CASE token[Tok(q)].plugged
  <2>1. Keeps(q) /\ reqs'[q].pc = "opened" /\ reqs'[q].live = TRUE /\ reqs'[q].pin = reqs[q].pin
    BY <1>2, OpenedForm DEF OpenSession, BInv
  <2>2. Tok(q)' = Tok(q)
    BY <2>1 DEF Keeps, Tok
  <2>3. RequestConsistent(q)'
    BY <1>1, <1>2, <2>1, <2>2, RunningToken DEF RequestConsistent, Keeps
  <2> QED BY <1>1, <2>1, <2>3, QuietStep DEF Keeps, Holds
<1>3. CASE ~token[Tok(q)].plugged
  <2>1. FailWith(q, "TOKEN_NOT_FOUND") /\ "TOKEN_NOT_FOUND" \in Codes
    BY <1>3 DEF OpenSession, Codes
  <2> QED BY <1>1, <2>1, FailStep, QuietStep
<1> QED BY <1>2, <1>3

LEMMA LoginErrorStep == ASSUME BInv, NEW q \in Reqs, LoginError(q) PROVE BInv'
<1>1. PICK code \in Codes : FailWith(q, code)
  BY DEF LoginError, Codes
<1>2. reqs[q].pc = "opened" /\ UNCHANGED <<cache, token, login, accepted>>
  BY DEF LoginError
<1> QED BY <1>1, <1>2, FailStep, QuietStep

LEMMA SignSteps == ASSUME BInv, NEW q \in Reqs, Sign(q) \/ SignError(q) PROVE BInv'
<1>1. reqs[q].pc = "loggedin" /\ UNCHANGED <<cache, token, login, accepted>>
  BY DEF Sign, SignError
<1>2. /\ Keeps(q) /\ reqs'[q].pc = "leaving" /\ reqs'[q].live = reqs[q].live
      /\ reqs'[q].pin = reqs[q].pin
  BY <1>1, RunningToken, SignForm DEF BInv
<1>3. Tok(q)' = Tok(q)
  BY <1>2 DEF Keeps, Tok
<1>4. RequestConsistent(q)'
  BY <1>1, <1>2, <1>3, RunningToken DEF RequestConsistent, Keeps
<1> QED BY <1>1, <1>2, <1>3, <1>4, QuietStep DEF Keeps, Holds

\* The login: nobody held the slot, now q does.
LEMMA LoginStep == ASSUME BInv, NEW q \in Reqs, Login(q) PROVE BInv'
<1> DEFINE t == Tok(q)
           s == reqs[q].slot
<1>1. /\ reqs[q].pc = "opened" /\ reqs[q].live /\ ~login[s] /\ reqs[q].pin = token[t].pin
      /\ login' = [login EXCEPT ![s] = TRUE] /\ token' = [token EXCEPT ![t].tries = MaxTries]
      /\ accepted' = [accepted EXCEPT ![t] = @ \cup {reqs[q].pin}]
      /\ Goto(q, "loggedin") /\ UNCHANGED cache
  BY DEF Login
<1>2. t \in Tokens /\ s \in Slots /\ RequestConsistent(q) /\ reqs[q].cert \in Certs
  BY <1>1, RunningToken
<1>3. "loggedin" \in PCs
  BY DEF PCs
<1>4. /\ Keeps(q) /\ reqs'[q].pc = "loggedin" /\ reqs'[q].pin = reqs[q].pin
      /\ reqs'[q].live = reqs[q].live
  BY <1>1, <1>3, GotoForm DEF BInv
<1>5. Tok(q)' = t /\ reqs'[q].slot = s
  BY <1>4 DEF Keeps, Tok
<1>6. MaxTries \in 0..MaxTries
  BY TriesAssumption
<1>7. token' \in [Tokens -> TokenRec] /\ \A x \in Tokens : token'[x].plugged = token[x].plugged
  BY <1>1, <1>2, <1>6 DEF BInv, TypeOK, TokenRec
<1>8. login' \in [Slots -> BOOLEAN] /\ login'[s] /\ \A x \in Slots \ {s} : login'[x] = login[x]
  BY <1>1, <1>2 DEF BInv, TypeOK
<1>9. reqs[q].pin \in Pins
  BY <1>1, <1>2 DEF BInv, TypeOK, TokenRec
<1>10. accepted' \in [Tokens -> SUBSET Pins] /\ reqs[q].pin \in accepted'[t]
       /\ (\A x \in Tokens : accepted[x] \subseteq accepted'[x])
  BY <1>1, <1>2, <1>9 DEF BInv, TypeOK
<1>11. TypeOK' /\ TokensKept
  BY <1>1, <1>4, <1>7, <1>8, <1>10 DEF BInv, TypeOK, Keeps, Only, TokensKept
<1>12. RequestConsistent(q)'
  BY <1>1, <1>2, <1>4, <1>5, <1>7, <1>10 DEF RequestConsistent, Keeps
<1>13. LoginHasOneOwner'
  <2>1. \A r \in Reqs : ~Holds(r, s)
    BY <1>1, <1>2 DEF BInv, LoginHasOneOwner
  <2>2. \A r \in Reqs \ {q}, x \in Slots : Holds(r, x)' <=> Holds(r, x)
    BY <1>4 DEF Keeps, Only, Holds
  <2>3. \A x \in Slots : ~Holds(q, x)
    BY <1>1 DEF Holds
  <2>4. \A x \in Slots : Holds(q, x)' <=> x = s
    BY <1>1, <1>4, <1>5 DEF Holds
  <2> HIDE DEF t, s
  <2> QED BY <1>2, <1>8, <2>1, <2>2, <2>3, <2>4 DEF BInv, LoginHasOneOwner
<1>14. CachedPinsWereAccepted'
  BY <1>1, <1>11, SameCache
<1> QED BY <1>4, <1>11, <1>12, <1>13, <1>14, OthersConsistent DEF BInv, Keeps

LEMMA WrongPinStep == ASSUME BInv, NEW q \in Reqs, LoginWrongPin(q) PROVE BInv'
<1> DEFINE t == Tok(q)
<1>1. /\ reqs[q].pc = "opened" /\ token[t].tries > 0
      /\ token' = [token EXCEPT ![t].tries = @ - 1]
      /\ FailWith(q, "PIN_INCORRECT") /\ UNCHANGED <<cache, login, accepted>>
  BY DEF LoginWrongPin
<1>2. t \in Tokens
  BY <1>1, RunningToken
<1>3. "PIN_INCORRECT" \in Codes
  BY DEF Codes
<1>4. Only(q) /\ RequestConsistent(q)' /\ (\A x \in Slots : Holds(q, x)' <=> Holds(q, x))
  BY <1>1, <1>3, FailStep
<1>5. token[t].tries - 1 \in 0..MaxTries
  BY <1>1, <1>2, TriesAssumption DEF BInv, TypeOK, TokenRec
<1>6. token' \in [Tokens -> TokenRec] /\ \A x \in Tokens : token'[x].plugged = token[x].plugged
  BY <1>1, <1>2, <1>5 DEF BInv, TypeOK, TokenRec
<1>7. TypeOK' /\ TokensKept
  BY <1>1, <1>4, <1>6 DEF BInv, TypeOK, Only, TokensKept
<1> QED BY <1>1, <1>4, <1>6, <1>7, OthersConsistent, SameLogins, SameCache DEF BInv

\* The logout: if the session is good q held the slot, and nobody does now.
LEMMA LogoutStep == ASSUME BInv, NEW q \in Reqs, Logout(q) PROVE BInv'
<1> DEFINE s == reqs[q].slot
<1>1. /\ reqs[q].pc = "leaving" /\ UNCHANGED <<cache, token, accepted>>
      /\ login' = IF reqs[q].live THEN [login EXCEPT ![s] = FALSE] ELSE login
  BY DEF Logout
<1>2. s \in Slots /\ RequestConsistent(q) /\ reqs[q].cert \in Certs
  BY <1>1, RunningToken
<1>3. /\ Keeps(q) /\ reqs'[q].pc \in {"returned", "failing"} /\ reqs'[q].live = FALSE
      /\ reqs'[q].pin = reqs[q].pin
  BY LogoutForm DEF BInv
<1>4. Tok(q)' = Tok(q) /\ reqs'[q].slot = s
  BY <1>3 DEF Keeps, Tok
<1>5. /\ login' \in [Slots -> BOOLEAN]
      /\ \A x \in Slots \ {s} : login'[x] = login[x]
      /\ reqs[q].live => ~login'[s]
      /\ ~reqs[q].live => login' = login
  BY <1>1, <1>2 DEF BInv, TypeOK
<1>6. TypeOK' /\ TokensKept
  BY <1>1, <1>3, <1>5 DEF BInv, TypeOK, Keeps, Only, TokensKept
<1>7. RequestConsistent(q)'
  BY <1>1, <1>2, <1>3, <1>4 DEF RequestConsistent, Keeps
<1>8. LoginHasOneOwner'
  <2>1. \A r \in Reqs \ {q}, x \in Slots : Holds(r, x)' <=> Holds(r, x)
    BY <1>3 DEF Keeps, Only, Holds
  <2>2. \A x \in Slots : ~Holds(q, x)'
    BY <1>3 DEF Holds
  <2>3. \A x \in Slots : Holds(q, x) <=> (reqs[q].live /\ x = s)
    BY <1>1 DEF Holds
  <2> HIDE DEF s
  <2>4. CASE reqs[q].live
    <3>1. \A r \in Reqs \ {q} : ~Holds(r, s)
      BY <1>2, <2>3, <2>4 DEF BInv, LoginHasOneOwner
    <3> QED BY <1>2, <1>5, <2>1, <2>2, <2>3, <2>4, <3>1 DEF BInv, LoginHasOneOwner
  <2>5. CASE ~reqs[q].live
    BY <1>5, <2>1, <2>2, <2>3, <2>5 DEF BInv, LoginHasOneOwner
  <2> QED BY <2>4, <2>5
<1> QED BY <1>1, <1>3, <1>6, <1>7, <1>8, OthersConsistent, SameCache DEF BInv, Keeps

\* The two steps that write the cache.
LEMMA AnswerSteps == ASSUME BInv, NEW q \in Reqs, Remember(q) \/ AnswerError(q) PROVE BInv'
<1>1. reqs[q].pc \in {"returned", "failing"} /\ UNCHANGED <<token, login, accepted>>
  BY DEF Remember, AnswerError
<1>2. reqs[q].cert \in Certs /\ RequestConsistent(q)
  BY <1>1, RunningToken
<1>3. PICK code \in Codes : Respond(q, code)
  BY DEF Remember, AnswerError, BInv, TypeOK, ReqRec, Codes
<1>4. Only(q) /\ reqs'[q].pc = "done" /\ reqs'[q].live = FALSE
  BY <1>3, RespondForm DEF BInv
<1>5. \/ UNCHANGED cache
      \/ cache' = [cache EXCEPT ![reqs[q].cert] = NoPin]
      \/ /\ cache' = [cache EXCEPT ![reqs[q].cert] = reqs[q].pin]
         /\ reqs[q].pin \in accepted[Tok(q)]
  BY <1>2 DEF Remember, AnswerError, RequestConsistent
<1>6. cache' \in [Certs -> Pins \cup {NoPin}] /\ CachedPinsWereAccepted'
  BY <1>1, <1>2, <1>5 DEF BInv, TypeOK, ReqRec, CachedPinsWereAccepted, Tok
<1>7. TypeOK' /\ TokensKept
  BY <1>1, <1>4, <1>6 DEF BInv, TypeOK, Only, TokensKept
<1>8. RequestConsistent(q)'
  BY <1>4 DEF RequestConsistent
<1>9. \A x \in Slots : Holds(q, x)' <=> Holds(q, x)
  BY <1>1, <1>4 DEF Holds
<1> QED BY <1>1, <1>4, <1>6, <1>7, <1>8, <1>9, OthersConsistent, SameLogins DEF BInv

-----------------------------------------------------------------------------
(* The process and the signer *)

LEMMA RestartStep == ASSUME BInv, Restart PROVE BInv'
<1>1. cache' \in [Certs -> Pins \cup {NoPin}] /\ CachedPinsWereAccepted'
  BY DEF Restart, CachedPinsWereAccepted
<1>2. login' \in [Slots -> BOOLEAN] /\ \A s \in Slots : ~login'[s]
  BY DEF Restart
<1>3. "done" \in PCs /\ "dropped" \in Codes
  BY DEF PCs, Codes
<1>4. ASSUME NEW q \in Reqs
      PROVE  /\ reqs'[q] \in ReqRec
             /\ reqs'[q].pc \in {"idle", "done"} /\ ~reqs'[q].live
  <2>1. CASE reqs[q].pc \in {"idle", "done"}
    BY <2>1 DEF Restart, BInv, TypeOK, RequestsConsistent, RequestConsistent
  <2>2. CASE reqs[q].pc \notin {"idle", "done"}
    <3>1. reqs'[q] = [reqs[q] EXCEPT !.pc = "done", !.code = "dropped", !.slot = NoSlot,
                                    !.pin = NoPin, !.typed = FALSE, !.live = FALSE]
      BY <2>2 DEF Restart
    <3>2. ASSUME NEW y \in ReqRec
          PROVE  LET z == [y EXCEPT !.pc = "done", !.code = "dropped", !.slot = NoSlot,
                                    !.pin = NoPin, !.typed = FALSE, !.live = FALSE]
                 IN  z \in ReqRec /\ z.pc = "done" /\ ~z.live
      BY <1>3, <3>2 DEF ReqRec
    <3>3. reqs[q] \in ReqRec
      BY DEF BInv, TypeOK
    <3> QED BY <3>1, <3>2, <3>3
  <2> QED BY <2>1, <2>2
<1>5. reqs' \in [Reqs -> ReqRec]
  BY <1>4 DEF Restart
<1>6. RequestsConsistent'
  BY <1>4 DEF RequestsConsistent, RequestConsistent
<1>7. LoginHasOneOwner'
  BY <1>2, <1>4 DEF LoginHasOneOwner, Holds
<1>8. TypeOK'
  BY <1>1, <1>2, <1>5 DEF Restart, BInv, TypeOK
<1> QED BY <1>1, <1>6, <1>7, <1>8 DEF BInv

\* The handles on the token die with its login.
LEMMA UnplugStep == ASSUME BInv, NEW t \in Tokens, Unplug(t) PROVE BInv'
<1>1. /\ token' \in [Tokens -> TokenRec] /\ \A x \in Tokens \ {t} : token'[x] = token[x]
      /\ login' \in [Slots -> BOOLEAN] /\ \A s \in Slots : login'[s] <=> login[s] /\ CardOf[s] # t
  BY DEF Unplug, BInv, TypeOK, TokenRec
<1>2. ASSUME NEW q \in Reqs
      PROVE  /\ reqs'[q] \in ReqRec
             /\ reqs'[q].pc = reqs[q].pc /\ reqs'[q].cert = reqs[q].cert
             /\ reqs'[q].slot = reqs[q].slot
             /\ reqs'[q].pin = reqs[q].pin /\ reqs'[q].typed = reqs[q].typed
             /\ reqs'[q].live <=> reqs[q].live /\ Tok(q) # t
  <2>1. CASE reqs[q].live /\ Tok(q) = t
    <3>1. reqs'[q] = [reqs[q] EXCEPT !.live = FALSE]
      BY <2>1 DEF Unplug
    <3> QED BY <2>1, <3>1 DEF BInv, TypeOK, ReqRec
  <2>2. CASE ~(reqs[q].live /\ Tok(q) = t)
    <3>1. reqs'[q] = reqs[q]
      BY <2>2 DEF Unplug
    <3> QED BY <2>2, <3>1 DEF BInv, TypeOK
  <2> QED BY <2>1, <2>2
<1>3. TypeOK'
  BY <1>1, <1>2 DEF Unplug, BInv, TypeOK
<1>4. \A q \in Reqs : Tok(q)' = Tok(q)
  BY <1>2 DEF Tok
<1>5. RequestsConsistent'
  <2>1. ASSUME NEW q \in Reqs PROVE RequestConsistent(q)'
    <3>1. RequestConsistent(q) /\ UNCHANGED accepted
      BY DEF BInv, RequestsConsistent, Unplug
    <3>2. reqs'[q].live => reqs'[q].pc \in {"opened", "loggedin", "leaving"} /\ token'[Tok(q)'].plugged
      BY <1>1, <1>2, <1>4, <3>1, RunningToken DEF RequestConsistent
    <3> QED BY <1>2, <1>4, <3>1, <3>2 DEF RequestConsistent
  <2> QED BY <2>1 DEF RequestsConsistent
<1>6. LoginHasOneOwner'
  <2>1. \A q \in Reqs, x \in Slots : Holds(q, x) => CardOf[x] = Tok(q)
    BY DEF BInv, RequestsConsistent, RequestConsistent, Holds
  <2>2. \A q \in Reqs, x \in Slots : Holds(q, x)' <=> Holds(q, x) /\ CardOf[x] # t
    BY <1>2, <2>1 DEF Holds
  <2> QED BY <1>1, <2>2 DEF BInv, LoginHasOneOwner
<1>7. CachedPinsWereAccepted'
  BY DEF Unplug, BInv, CachedPinsWereAccepted
<1> QED BY <1>3, <1>5, <1>6, <1>7 DEF BInv

\* What plugging in and a new PIN leave alone.
LEMMA TokenSteps ==
  ASSUME BInv, NEW t \in Tokens, PlugIn(t) \/ \E p \in Pins : ChangePin(t, p)
  PROVE  BInv'
<1>1. UNCHANGED <<cache, login, accepted, reqs>>
  BY DEF PlugIn, ChangePin
<1>2. /\ token' \in [Tokens -> TokenRec]
      /\ \A x \in Tokens : token[x].plugged => token'[x].plugged
  <2>1. CASE PlugIn(t)
    BY <2>1 DEF PlugIn, BInv, TypeOK, TokenRec
  <2>2. ASSUME NEW p \in Pins, ChangePin(t, p)
        PROVE  /\ token' \in [Tokens -> TokenRec]
               /\ \A x \in Tokens : token[x].plugged => token'[x].plugged
    <3>1. MaxTries \in 0..MaxTries
      BY TriesAssumption
    <3> QED BY <2>2, <3>1 DEF ChangePin, BInv, TypeOK, TokenRec
  <2> QED BY <2>1, <2>2
<1>3. TypeOK'
  BY <1>1, <1>2 DEF BInv, TypeOK
<1>4. \A q \in Reqs : Tok(q)' = Tok(q)
  BY <1>1 DEF Tok
<1>5. RequestsConsistent'
  <2>1. ASSUME NEW q \in Reqs PROVE RequestConsistent(q)'
    <3>1. RequestConsistent(q)
      BY DEF BInv, RequestsConsistent
    <3>2. reqs[q].live => token'[Tok(q)'].plugged
      BY <1>2, <1>4, <3>1, RunningToken DEF RequestConsistent
    <3> QED BY <1>1, <1>4, <3>1, <3>2 DEF RequestConsistent
  <2> QED BY <2>1 DEF RequestsConsistent
<1>6. LoginHasOneOwner' /\ CachedPinsWereAccepted'
  BY <1>1 DEF BInv, LoginHasOneOwner, Holds, CachedPinsWereAccepted
<1> QED BY <1>3, <1>5, <1>6 DEF BInv

-----------------------------------------------------------------------------
(* The theorems *)

LEMMA InitBInv == Init => BInv
<1> SUFFICES ASSUME Init PROVE BInv
  OBVIOUS
<1>1. token \in [Tokens -> TokenRec]
  <2>1. token \in [Tokens -> [plugged : BOOLEAN, pin : Pins, tries : {MaxTries}]]
    BY DEF Init
  <2>2. MaxTries \in 0..MaxTries
    BY TriesAssumption
  <2>3. ASSUME NEW y \in [plugged : BOOLEAN, pin : Pins, tries : {MaxTries}]
        PROVE  y \in TokenRec
    BY <2>2, <2>3 DEF TokenRec
  <2>4. \A t \in Tokens : token[t] \in TokenRec
    BY <2>1, <2>3
  <2> QED BY <2>1, <2>4
<1>2. TypeOK
  BY <1>1 DEF Init, TypeOK, ReqRec, PCs, Codes
<1>3. RequestsConsistent /\ LoginHasOneOwner /\ CachedPinsWereAccepted
  BY <1>1 DEF Init, RequestsConsistent, RequestConsistent, LoginHasOneOwner, Holds,
     CachedPinsWereAccepted
<1> QED BY <1>2, <1>3 DEF BInv

LEMMA NextBInv == BInv /\ [Next]_vars => BInv'
<1> SUFFICES ASSUME BInv, [Next]_vars PROVE BInv'
  OBVIOUS
<1>1. CASE Next
  BY <1>1, ReceiveStep, EarlySteps, OpenStep, LoginErrorStep, SignSteps, LoginStep, WrongPinStep,
     LogoutStep, AnswerSteps, RestartStep, UnplugStep, TokenSteps
  DEF Next, Step
<1>2. CASE UNCHANGED vars
  BY <1>2 DEF vars, BInv, TypeOK, RequestsConsistent, RequestConsistent, LoginHasOneOwner, Holds,
     Tok, CachedPinsWereAccepted
<1> QED BY <1>1, <1>2

\* However requests, unplugged tokens and restarts interleave, a login through
\* a module has exactly one owner, which will log it out: within one module SignHash
\* needs no lock.
THEOREM LoginHasOneOwnerAlways == Spec => []LoginHasOneOwner
BY InitBInv, NextBInv, PTL DEF Spec, BInv

\* Cache, tokens and requests of the bridge keep their types.
THEOREM TypeCorrect == Spec => []TypeOK
BY InitBInv, NextBInv, PTL DEF Spec, BInv

\* What HandleSign and SignHash hold at each step (a good session, a PIN that was
\* typed or accepted) agrees with the token, whatever the other requests do.
THEOREM RequestsAlwaysConsistent == Spec => []RequestsConsistent
BY InitBInv, NextBInv, PTL DEF Spec, BInv

\* A PIN in the cache of HandleSign was accepted by the token it is used for.
THEOREM CachedPinsWereAcceptedAlways == Spec => []CachedPinsWereAccepted
BY InitBInv, NextBInv, PTL DEF Spec, BInv

\* A token loses a try only to a PIN that was typed, or to one it accepted before.
THEOREM CachedPinsCostNothingAlways == Spec => CachedPinsCostNothing
<1> DEFINE Cost == \A t \in Tokens : token'[t].tries < token[t].tries =>
       \E q \in Reqs : /\ reqs[q].pc = "opened" /\ Tok(q) = t
                       /\ reqs[q].typed \/ reqs[q].pin \in accepted[t]
<1>1. BInv /\ [Next]_vars => [Cost]_vars
  <2> SUFFICES ASSUME BInv, Next, NEW t \in Tokens, token'[t].tries < token[t].tries
               PROVE  \E q \in Reqs : /\ reqs[q].pc = "opened" /\ Tok(q) = t
                                      /\ reqs[q].typed \/ reqs[q].pin \in accepted[t]
    OBVIOUS
  <2>1. token \in [Tokens -> TokenRec] /\ token[t].tries \in 0..MaxTries
    BY DEF BInv, TypeOK, TokenRec
  <2>2. PICK q \in Reqs : LoginWrongPin(q) /\ Tok(q) = t
    <3>1. ASSUME UNCHANGED token PROVE FALSE
      BY <2>1, <3>1
    <3>2. ASSUME NEW q \in Reqs, Login(q) PROVE FALSE
      <4>1. Tok(q) \in Tokens
        BY <3>2, RunningToken DEF Login
      <4>2. token' = [token EXCEPT ![Tok(q)].tries = MaxTries]
        BY <3>2 DEF Login
      <4>3. token'[t].tries = token[t].tries \/ token'[t].tries = MaxTries
        BY <2>1, <4>1, <4>2 DEF TokenRec
      <4> QED BY <2>1, <4>3, TriesAssumption
    <3>3. ASSUME NEW q \in Reqs, LoginWrongPin(q), Tok(q) # t PROVE FALSE
      BY <2>1, <3>3 DEF LoginWrongPin
    <3>4. ASSUME NEW x \in Tokens, Unplug(x) \/ PlugIn(x) PROVE FALSE
      <4>1. \E up \in BOOLEAN : token' = [token EXCEPT ![x] = [@ EXCEPT !.plugged = up]]
        BY <3>4 DEF Unplug, PlugIn
      <4>2. ASSUME NEW y \in TokenRec, NEW up \in BOOLEAN
            PROVE  [y EXCEPT !.plugged = up].tries = y.tries
        BY <4>2 DEF TokenRec
      <4>3. token'[t].tries = token[t].tries
        BY <2>1, <4>1, <4>2
      <4> QED BY <2>1, <4>3
    <3>5. ASSUME NEW x \in Tokens, NEW p \in Pins, ChangePin(x, p) PROVE FALSE
      BY <2>1, <3>5, TriesAssumption DEF ChangePin, TokenRec
    <3> QED
      BY <3>1, <3>2, <3>3, <3>4, <3>5
      DEF Next, Step, Receive, Refuse, FindCert, FindCertFails, ResolvePin, PinRequired,
          OpenSession, LoginError, Sign, SignError, Logout, Remember, AnswerError, Restart
  <2>3. reqs[q].pc = "opened"
    BY <2>2 DEF LoginWrongPin
  <2>4. reqs[q].typed \/ reqs[q].pin \in accepted[t]
    BY <2>2, <2>3, RunningToken DEF RequestConsistent
  <2> QED BY <2>2, <2>3, <2>4
<1>2. Spec => [][Cost]_vars
  BY <1>1, InitBInv, NextBInv, PTL DEF Spec
<1> QED BY <1>2 DEF CachedPinsCostNothing

-----------------------------------------------------------------------------
(* Logins work as a lock *)

\* A request has a signature only once it has signed.
SignedLate ==
  \A q \in Reqs : reqs[q].key # NoCert => reqs[q].pc \in {"leaving", "returned", "done"}

\* Nothing changes hands.
LockQuiet == UNCHANGED <<Holders, HaveSigned>>

LEMMA SameHolders ==
  ASSUME NEW q \in Reqs, Only(q), reqs'[q].key = reqs[q].key,
         \A x \in Slots : Holds(q, x)' <=> Holds(q, x)
  PROVE  LockQuiet
<1>1. \A r \in Reqs, t \in Slots : Holds(r, t)' <=> Holds(r, t)
  BY DEF Only, Holds
<1>2. \A r \in Reqs : reqs'[r].key = reqs[r].key
  BY DEF Only
<1> QED BY <1>1, <1>2 DEF LockQuiet, Holders, HaveSigned

LEMMA LateOf ==
  ASSUME SignedLate, NEW q \in Reqs, Only(q),
         reqs'[q].key # NoCert => reqs'[q].pc \in {"leaving", "returned", "done"}
  PROVE  SignedLate'
BY DEF SignedLate, Only

\* A step before the login or after the logout.
LEMMA OutsideLogin ==
  ASSUME SignedLate, NEW q \in Reqs, Only(q), reqs'[q].key = reqs[q].key,
         reqs[q].pc \notin {"loggedin", "leaving"}, reqs'[q].pc \notin {"loggedin", "leaving"},
         reqs[q].pc = "returned" => reqs'[q].pc = "done", reqs[q].pc # "done"
  PROVE  SignedLate' /\ LockQuiet
<1>1. \A t \in Slots : ~Holds(q, t) /\ ~Holds(q, t)'
  BY DEF Holds
<1>2. reqs'[q].key # NoCert => reqs'[q].pc \in {"leaving", "returned", "done"}
  BY DEF SignedLate
<1> QED BY <1>1, <1>2, SameHolders, LateOf

LEMMA QuietSteps ==
  ASSUME BInv, SignedLate, NEW q \in Reqs,
         \/ \E k \in Certs, p \in Pins \cup {NoPin} : Receive(q, k, p)
         \/ Refuse(q) \/ FindCert(q) \/ FindCertFails(q) \/ ResolvePin(q) \/ PinRequired(q)
         \/ OpenSession(q) \/ LoginWrongPin(q) \/ LoginError(q) \/ Remember(q) \/ AnswerError(q)
  PROVE  SignedLate' /\ LockQuiet
<1>0. TypeOK
  BY DEF BInv
<1>1. ASSUME NEW k \in Certs, NEW p \in Pins \cup {NoPin}, Receive(q, k, p)
      PROVE  SignedLate' /\ LockQuiet
  <2>1. Only(q) /\ reqs'[q].pc = "received" /\ reqs'[q].key = reqs[q].key
    BY <1>0, <1>1, ReceiveForm
  <2>2. reqs[q].pc = "idle"
    BY <1>1 DEF Receive
  <2> QED BY <2>1, <2>2, OutsideLogin
<1>2. ASSUME NEW code \in Codes, Respond(q, code), reqs[q].pc \in {"received", "found", "returned", "failing"}
      PROVE  SignedLate' /\ LockQuiet
  <2>1. Only(q) /\ reqs'[q].pc = "done" /\ reqs'[q].key = reqs[q].key
    BY <1>0, <1>2, RespondForm
  <2> QED BY <1>2, <2>1, OutsideLogin
<1>3. ASSUME NEW code \in Codes, FailWith(q, code), reqs[q].pc \in {"resolved", "opened"}
      PROVE  SignedLate' /\ LockQuiet
  <2>1. Only(q) /\ reqs'[q].pc = "failing" /\ reqs'[q].key = reqs[q].key
    BY <1>0, <1>3, FailForm DEF Keeps
  <2> QED BY <1>3, <2>1, OutsideLogin
<1>4. CASE FindCert(q)
  <2>1. reqs[q].pc = "received"
    BY <1>4 DEF FindCert
  <2>2. Only(q) /\ reqs'[q].pc = "found" /\ reqs'[q].key = reqs[q].key
    BY <1>0, <1>4, FindForm
  <2> QED BY <2>1, <2>2, OutsideLogin
<1>5. CASE ResolvePin(q)
  <2>1. reqs[q].pc = "found"
    BY <1>5 DEF ResolvePin
  <2>2. Only(q) /\ reqs'[q].pc = "resolved" /\ reqs'[q].key = reqs[q].key
    BY <1>0, <1>5, <2>1, RunningToken, ResolvePinForm DEF Keeps
  <2> QED BY <2>1, <2>2, OutsideLogin
<1>6. CASE OpenSession(q)
  <2>1. reqs[q].pc = "resolved" /\ "TOKEN_NOT_FOUND" \in Codes
    BY <1>6 DEF OpenSession, Codes
  <2>2. CASE reqs' = [reqs EXCEPT ![q] = [@ EXCEPT !.pc = "opened", !.live = TRUE]]
    <3>1. Only(q) /\ reqs'[q].pc = "opened" /\ reqs'[q].key = reqs[q].key
      BY <1>0, <2>2, OpenedForm DEF Keeps
    <3> QED BY <2>1, <3>1, OutsideLogin
  <2> QED BY <1>3, <1>6, <2>1, <2>2 DEF OpenSession
<1>7. CASE Refuse(q) \/ FindCertFails(q) \/ PinRequired(q) \/ Remember(q) \/ AnswerError(q)
  <2>1. PICK code \in Codes : Respond(q, code)
    BY <1>7 DEF Refuse, FindCertFails, PinRequired, Remember, AnswerError, Codes, BInv, TypeOK, ReqRec
  <2>2. reqs[q].pc \in {"received", "found", "returned", "failing"}
    BY <1>7 DEF Refuse, FindCertFails, PinRequired, Remember, AnswerError
  <2> QED BY <1>2, <2>1, <2>2
<1>8. CASE LoginWrongPin(q) \/ LoginError(q)
  <2>1. PICK code \in Codes : FailWith(q, code)
    BY <1>8 DEF LoginWrongPin, LoginError, Codes
  <2>2. reqs[q].pc = "opened"
    BY <1>8 DEF LoginWrongPin, LoginError
  <2> QED BY <1>3, <2>1, <2>2
<1> QED BY <1>1, <1>4, <1>5, <1>6, <1>7, <1>8

\* A login takes the lock.
LEMMA LoginAcquires ==
  ASSUME BInv, SignedLate, NEW q \in Reqs, Login(q)
  PROVE  SignedLate' /\ \E s \in Slots : Lock!Acquire(q, s)
<1> DEFINE s == reqs[q].slot
<1>1. reqs[q].pc = "opened" /\ reqs[q].live /\ ~login[s] /\ Goto(q, "loggedin")
  BY DEF Login
<1>2. s \in Slots /\ "loggedin" \in PCs
  BY <1>1, RunningToken DEF PCs
<1>3. /\ Keeps(q) /\ reqs'[q].pc = "loggedin" /\ reqs'[q].live /\ reqs'[q].key = reqs[q].key
  BY <1>1, <1>2, GotoForm DEF BInv
<1>4. reqs[q].key = NoCert /\ \A x \in Slots : ~Holds(q, x)
  BY <1>1 DEF SignedLate, Holds
<1>5. \A r \in Reqs : ~Holds(r, s)
  BY <1>1, <1>2 DEF BInv, LoginHasOneOwner
<1>6. \A x \in Slots : Holds(q, x)' <=> x = s
  BY <1>3 DEF Holds, Keeps
<1>7. \A r \in Reqs \ {q}, x \in Slots : Holds(r, x)' <=> Holds(r, x)
  BY <1>3 DEF Keeps, Only, Holds
<1> HIDE DEF s
<1>8. Holders' = [Holders EXCEPT ![s] = {q}]
  BY <1>2, <1>4, <1>5, <1>6, <1>7 DEF Holders
<1>9. HaveSigned' = HaveSigned
  BY <1>3 DEF HaveSigned, Keeps, Only
<1>10. q \notin HaveSigned /\ Holders[s] = {} /\ \A x \in Slots : q \notin Holders[x]
  BY <1>2, <1>4, <1>5 DEF HaveSigned, Holders
<1>11. Lock!Acquire(q, s)
  BY <1>8, <1>9, <1>10 DEF Lock!Acquire
<1>12. SignedLate'
  BY <1>3, <1>4, LateOf DEF Keeps
<1> QED BY <1>2, <1>11, <1>12

\* Signing needs the lock.
LEMMA SignsUnderLock ==
  ASSUME BInv, SignedLate, NEW q \in Reqs, Sign(q)
  PROVE  SignedLate' /\ \E s \in Slots : Lock!SignUnder(q, s)
<1> DEFINE s == reqs[q].slot
<1>1. reqs[q].pc = "loggedin" /\ reqs[q].live
  BY DEF Sign
<1>2. s \in Slots
  BY <1>1, RunningToken
<1>3. Keeps(q) /\ reqs'[q].pc = "leaving" /\ reqs'[q].live = reqs[q].live /\ reqs'[q].key \in Certs
  BY <1>2, SignForm DEF BInv
<1>4. reqs[q].key = NoCert /\ reqs'[q].key # NoCert
  BY <1>1, <1>3, NoneAssumption DEF SignedLate
<1>5. Holds(q, s)
  BY <1>1 DEF Holds
<1>6. \A r \in Reqs, x \in Slots : Holds(r, x)' <=> Holds(r, x)
  BY <1>1, <1>3 DEF Keeps, Only, Holds
<1> HIDE DEF s
<1>7. Holders' = Holders /\ q \in Holders[s] /\ q \notin HaveSigned
  BY <1>2, <1>4, <1>5, <1>6 DEF Holders, HaveSigned
<1>8. HaveSigned' = HaveSigned \cup {q}
  BY <1>3, <1>4 DEF HaveSigned, Keeps, Only
<1>9. Lock!SignUnder(q, s)
  BY <1>7, <1>8 DEF Lock!SignUnder
<1>10. SignedLate'
  BY <1>3, LateOf DEF Keeps
<1> QED BY <1>2, <1>9, <1>10

LEMMA SignErrorQuiet ==
  ASSUME BInv, SignedLate, NEW q \in Reqs, SignError(q), ~Sign(q)
  PROVE  SignedLate' /\ LockQuiet
<1>1. reqs[q].pc = "loggedin"
  BY DEF SignError
<1>2. Keeps(q) /\ reqs'[q].pc = "leaving" /\ reqs'[q].live = reqs[q].live /\ reqs'[q].key = reqs[q].key
  BY <1>1, RunningToken, SignForm DEF BInv
<1>3. \A x \in Slots : Holds(q, x)' <=> Holds(q, x)
  BY <1>1, <1>2 DEF Holds, Keeps
<1> QED BY <1>2, <1>3, SameHolders, LateOf DEF Keeps

\* The logout, the unplugged token and the restart give the lock back.
LEMMA LogoutReleases ==
  ASSUME BInv, SignedLate, NEW q \in Reqs, Logout(q)
  PROVE  SignedLate' /\ (LockQuiet \/ \E gone \in SUBSET Slots : Lock!Release(gone))
<1> DEFINE s == reqs[q].slot
<1>1. reqs[q].pc = "leaving"
  BY DEF Logout
<1>2. s \in Slots
  BY <1>1, RunningToken
<1>3. /\ Keeps(q) /\ reqs'[q].live = FALSE /\ reqs'[q].key = reqs[q].key
      /\ reqs'[q].pc = IF reqs[q].key # NoCert THEN "returned" ELSE "failing"
  BY LogoutForm DEF BInv
<1>4. SignedLate'
  BY <1>3, LateOf DEF Keeps
<1>5. \A x \in Slots : ~Holds(q, x)'
  BY <1>3 DEF Holds
<1>6. CASE ~reqs[q].live
  <2>1. \A x \in Slots : ~Holds(q, x)
    BY <1>6 DEF Holds
  <2> QED BY <1>3, <1>4, <1>5, <2>1, SameHolders DEF Keeps
<1>7. CASE reqs[q].live
  <2>1. \A x \in Slots : Holds(q, x) <=> x = s
    BY <1>1, <1>7 DEF Holds
  <2>2. \A r \in Reqs \ {q} : ~Holds(r, s)
    BY <1>2, <2>1 DEF BInv, LoginHasOneOwner
  <2>3. \A r \in Reqs \ {q}, x \in Slots : Holds(r, x)' <=> Holds(r, x)
    BY <1>3 DEF Keeps, Only, Holds
  <2>4. HaveSigned' = HaveSigned
    BY <1>3 DEF HaveSigned, Keeps, Only
  <2> HIDE DEF s
  <2>5. Holders' = [x \in Slots |-> IF x \in {s} THEN {} ELSE Holders[x]]
    BY <1>2, <1>5, <2>1, <2>2, <2>3 DEF Holders
  <2>6. Lock!Release({s})
    BY <2>4, <2>5 DEF Lock!Release
  <2> QED BY <1>2, <1>4, <2>6
<1> QED BY <1>6, <1>7

LEMMA UnplugReleases ==
  ASSUME BInv, SignedLate, NEW t \in Tokens, Unplug(t)
  PROVE  SignedLate' /\ \E gone \in SUBSET Slots : Lock!Release(gone)
<1> DEFINE gone == {s \in Slots : CardOf[s] = t}
<1>1. ASSUME NEW q \in Reqs
      PROVE  /\ reqs'[q].pc = reqs[q].pc /\ reqs'[q].slot = reqs[q].slot
             /\ reqs'[q].key = reqs[q].key
             /\ reqs'[q].live <=> reqs[q].live /\ Tok(q) # t
  <2>1. CASE reqs[q].live /\ Tok(q) = t
    <3>1. reqs'[q] = [reqs[q] EXCEPT !.live = FALSE]
      BY <2>1 DEF Unplug
    <3> QED BY <2>1, <3>1 DEF BInv, TypeOK, ReqRec
  <2>2. CASE ~(reqs[q].live /\ Tok(q) = t)
    <3>1. reqs'[q] = reqs[q]
      BY <2>2 DEF Unplug
    <3> QED BY <2>2, <3>1 DEF BInv, TypeOK
  <2> QED BY <2>1, <2>2
<1>2. \A q \in Reqs, s \in Slots : Holds(q, s) => CardOf[s] = Tok(q)
  BY DEF BInv, RequestsConsistent, RequestConsistent, Holds
<1>3. \A q \in Reqs, s \in Slots : Holds(q, s)' <=> Holds(q, s) /\ s \notin gone
  BY <1>1, <1>2 DEF Holds
<1>4. Holders' = [s \in Slots |-> IF s \in gone THEN {} ELSE Holders[s]]
  BY <1>3 DEF Holders
<1>5. HaveSigned' = HaveSigned /\ SignedLate'
  BY <1>1 DEF HaveSigned, SignedLate
<1> QED BY <1>4, <1>5 DEF Lock!Release

LEMMA RestartReleases ==
  ASSUME BInv, SignedLate, Restart
  PROVE  SignedLate' /\ Lock!Release(Slots)
<1>1. ASSUME NEW q \in Reqs
      PROVE  reqs'[q].pc \in {"idle", "done"} /\ reqs'[q].key = reqs[q].key
             /\ (reqs'[q].pc = "idle" => reqs[q].pc = "idle")
  <2>1. CASE reqs[q].pc \in {"idle", "done"}
    BY <2>1 DEF Restart
  <2>2. CASE reqs[q].pc \notin {"idle", "done"}
    <3>1. reqs'[q] = [reqs[q] EXCEPT !.pc = "done", !.code = "dropped", !.slot = NoSlot,
                                    !.pin = NoPin, !.typed = FALSE, !.live = FALSE]
      BY <2>2 DEF Restart
    <3> QED BY <3>1 DEF BInv, TypeOK, ReqRec
  <2> QED BY <2>1, <2>2
<1>2. \A q \in Reqs, s \in Slots : ~Holds(q, s)'
  BY <1>1 DEF Holds
<1>3. Holders' = [s \in Slots |-> IF s \in Slots THEN {} ELSE Holders[s]]
  BY <1>2 DEF Holders
<1>4. HaveSigned' = HaveSigned /\ SignedLate'
  BY <1>1 DEF HaveSigned, SignedLate
<1> QED BY <1>3, <1>4 DEF Lock!Release

\* The bridge implements TokenLock: PKCS#11 logins are a lock on the slot of a
\* module, and every signature of SignHash is made under it (pkcs11_handler.go 250-313).
THEOREM RefinesLockAlways == Spec => RefinesLock
<1>1. ASSUME Init PROVE Lock!Init /\ SignedLate
  <2>1. \A q \in Reqs : reqs[q].pc = "idle" /\ reqs[q].key = NoCert
    BY <1>1 DEF Init
  <2>2. Holders = [s \in Slots |-> {}] /\ HaveSigned = {}
    BY <2>1 DEF Holders, HaveSigned, Holds
  <2> QED BY <2>1, <2>2 DEF Lock!Init, SignedLate
<1>2. ASSUME BInv, SignedLate, [Next]_vars
      PROVE  SignedLate' /\ [Lock!Next]_(Lock!lock)
  <2>1. ASSUME SignedLate' /\ LockQuiet PROVE SignedLate' /\ [Lock!Next]_(Lock!lock)
    BY <2>1 DEF LockQuiet, Lock!lock
  <2>2. ASSUME NEW q \in Reqs, Step(q) PROVE SignedLate' /\ [Lock!Next]_(Lock!lock)
    <3>1. CASE Login(q)
      BY <1>2, <3>1, LoginAcquires DEF Lock!Next
    <3>2. CASE Sign(q)
      BY <1>2, <3>2, SignsUnderLock DEF Lock!Next
    <3>3. CASE SignError(q) /\ ~Sign(q)
      BY <1>2, <2>1, <3>3, SignErrorQuiet
    <3>4. CASE Logout(q)
      BY <1>2, <2>1, <3>4, LogoutReleases DEF Lock!Next
    <3>5. CASE \/ Refuse(q) \/ FindCert(q) \/ FindCertFails(q) \/ ResolvePin(q) \/ PinRequired(q)
               \/ OpenSession(q) \/ LoginWrongPin(q) \/ LoginError(q) \/ Remember(q) \/ AnswerError(q)
      BY <1>2, <2>1, <3>5, QuietSteps
    <3> QED BY <2>2, <3>1, <3>2, <3>3, <3>4, <3>5 DEF Step
  <2>3. ASSUME NEW q \in Reqs, NEW k \in Certs, NEW p \in Pins \cup {NoPin}, Receive(q, k, p)
        PROVE  SignedLate' /\ [Lock!Next]_(Lock!lock)
    BY <1>2, <2>1, <2>3, QuietSteps
  <2>4. CASE Restart
    BY <1>2, <2>4, RestartReleases DEF Lock!Next
  <2>5. ASSUME NEW t \in Tokens, Unplug(t) PROVE SignedLate' /\ [Lock!Next]_(Lock!lock)
    BY <1>2, <2>5, UnplugReleases DEF Lock!Next
  <2>6. CASE UNCHANGED reqs
    BY <1>2, <2>1, <2>6 DEF SignedLate, LockQuiet, Holders, HaveSigned, Holds
  <2> QED BY <1>2, <2>2, <2>3, <2>4, <2>5, <2>6 DEF Next, vars, PlugIn, ChangePin
<1> QED BY <1>1, <1>2, InitBInv, NextBInv, PTL DEF Spec, RefinesLock, Lock!Spec
=============================================================================
