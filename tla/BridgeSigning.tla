--------------------------- MODULE BridgeSigning ---------------------------
(***************************************************************************)
(* The signing side of dsc-bridge: POST /v1/sign (handlers.go), the PIN    *)
(* cache (pincache.go) and SignHash (pkcs11_handler.go) on tokens that can *)
(* be unplugged and whose PIN can be changed by other programs.            *)
(*                                                                         *)
(* Every request runs on a goroutine of its own.  The PIN cache has a      *)
(* mutex and the searches for certificates have another, so each use of    *)
(* one is one action; SignHash takes neither.                              *)
(*                                                                         *)
(* The bridge loads every PKCS#11 module it finds, so one token may sit in *)
(* a slot of several modules (the vendor's and OpenSC's).  A slot here is  *)
(* such a slot of one module.  A login belongs to the module and the whole *)
(* process, not to the session that logged in, and the modules know        *)
(* nothing of each other.  A session handle is dead once its token was     *)
(* unplugged.                                                              *)
(***************************************************************************)
EXTENDS Integers

CONSTANTS
  Reqs,      \* the /v1/sign requests
  Tokens,    \* USB tokens
  Slots,     \* the slots of the modules that are loaded
  CardOf,    \* the token a slot is for
  Certs,     \* certificates on the tokens
  TokenOf,   \* the token a certificate is on
  FirstKey,  \* the certificate whose private key a slot lists first
  Pins,      \* PINs people type
  NoPin, NoCert, NoSlot,
  MaxTries   \* wrong PINs in a row that lock a token

ASSUME TokenAssumption ==
  /\ TokenOf \in [Certs -> Tokens]
  /\ CardOf \in [Slots -> Tokens]
  /\ FirstKey \in [Slots -> Certs]
ASSUME NoneAssumption == NoPin \notin Pins /\ NoCert \notin Certs /\ NoSlot \notin Slots
ASSUME TriesAssumption == MaxTries \in Nat \ {0}

VARIABLES
  cache,     \* PINCache.pins
  token,     \* each token
  login,     \* whether the process is logged in to a slot
  accepted,  \* history: the PINs each token has accepted
  reqs       \* each request and its goroutine

vars == <<cache, token, login, accepted, reqs>>

\* tries: what the retry counter of the token still allows; 0 is locked.
TokenRec == [plugged : BOOLEAN, pin : Pins, tries : 0..MaxTries]

Codes == {"none", "OK", "TOKEN_NOT_FOUND", "CERT_NOT_FOUND", "PIN_REQUIRED", "PIN_INCORRECT",
          "PIN_LOCKED", "UNAUTHORIZED", "INTERNAL_ERROR", "dropped"}

\* pc: idle, received (past decoding), found (the certificate), resolved (the
\* PIN), opened (a PKCS#11 session), loggedin, leaving (signed or not, before the
\* deferred logout), returned (SignHash gave a signature), failing (it gave an
\* error), done.  live: the session handle is good.  key: what signed.
PCs == {"idle", "received", "found", "resolved", "opened", "loggedin", "leaving",
        "returned", "failing", "done"}

ReqRec == [pc : PCs,
           cert : Certs \cup {NoCert}, slot : Slots \cup {NoSlot}, pin : Pins \cup {NoPin}, typed : BOOLEAN,
           live : BOOLEAN, key : Certs \cup {NoCert}, code : Codes]

TypeOK ==
  /\ cache \in [Certs -> Pins \cup {NoPin}]
  /\ token \in [Tokens -> TokenRec]
  /\ login \in [Slots -> BOOLEAN]
  /\ accepted \in [Tokens -> SUBSET Pins]
  /\ reqs \in [Reqs -> ReqRec]

-----------------------------------------------------------------------------
(* HandleSign up to SignHash *)

\* The token a request is about.
Tok(q) == TokenOf[reqs[q].cert]

Goto(q, pc) == reqs' = [reqs EXCEPT ![q].pc = pc]

\* SignHash or a step before it gave an error; its session, if any, is closed.
FailWith(q, code) ==
  reqs' = [reqs EXCEPT ![q] = [@ EXCEPT !.pc = "failing", !.code = code, !.live = FALSE]]

\* The answer is sent and the goroutine ends.
Respond(q, code) ==
  reqs' = [reqs EXCEPT ![q] =
             [@ EXCEPT !.pc = "done", !.code = code, !.slot = NoSlot, !.pin = NoPin,
                       !.typed = FALSE, !.live = FALSE]]

\* A request for certificate k; the browser may leave out the PIN.
Receive(q, k, p) ==
  /\ reqs[q].pc = "idle"
  /\ reqs' = [reqs EXCEPT ![q] =
                [@ EXCEPT !.pc = "received", !.cert = k, !.pin = p, !.typed = (p # NoPin)]]
  /\ UNCHANGED <<cache, token, login, accepted>>

\* The HMAC of the request does not verify, or its time is out of the window.
Refuse(q) ==
  /\ reqs[q].pc = "received"
  /\ Respond(q, "UNAUTHORIZED")
  /\ UNCHANGED <<cache, token, login, accepted>>

\* The slots FindCertByFingerprint finds a certificate of token t in.
SlotsOf(t) == {s \in Slots : CardOf[s] = t /\ token[t].plugged}

\* FindCertByFingerprint: the modules are tried in the order of a Go map, which is
\* another one each time.
FindCert(q) ==
  /\ reqs[q].pc = "received"
  /\ \E s \in SlotsOf(Tok(q)) :
       reqs' = [reqs EXCEPT ![q] = [@ EXCEPT !.pc = "found", !.slot = s]]
  /\ UNCHANGED <<cache, token, login, accepted>>

FindCertFails(q) ==
  /\ reqs[q].pc = "received" /\ SlotsOf(Tok(q)) = {}
  /\ Respond(q, IF \E t \in Tokens : SlotsOf(t) # {} THEN "CERT_NOT_FOUND" ELSE "TOKEN_NOT_FOUND")
  /\ UNCHANGED <<cache, token, login, accepted>>

\* Mutant: the PIN is cached as soon as it is known.
ResolvePinEager(q) ==
  LET pin == IF reqs[q].typed THEN reqs[q].pin ELSE cache[reqs[q].cert] IN
  /\ reqs[q].pc = "found" /\ pin # NoPin
  /\ reqs' = [reqs EXCEPT ![q] = [@ EXCEPT !.pc = "resolved", !.pin = pin]]
  /\ cache' = [cache EXCEPT ![reqs[q].cert] = pin]
  /\ UNCHANGED <<token, login, accepted>>

\* Mutant: an empty PIN goes through.
ResolvePinUnchecked(q) ==
  /\ reqs[q].pc = "found"
  /\ reqs' = [reqs EXCEPT ![q] =
       [@ EXCEPT !.pc = "resolved",
                 !.pin = IF reqs[q].typed THEN reqs[q].pin ELSE cache[reqs[q].cert]]]
  /\ UNCHANGED <<cache, token, login, accepted>>

\* The PIN of the request, or the one cached for the certificate.
ResolvePin(q) ==
  LET pin == IF reqs[q].typed THEN reqs[q].pin ELSE cache[reqs[q].cert] IN
  /\ reqs[q].pc = "found" /\ pin # NoPin
  /\ reqs' = [reqs EXCEPT ![q] = [@ EXCEPT !.pc = "resolved", !.pin = pin]]
  /\ UNCHANGED <<cache, token, login, accepted>>

PinRequired(q) ==
  /\ reqs[q].pc = "found" /\ ~reqs[q].typed /\ cache[reqs[q].cert] = NoPin
  /\ Respond(q, "PIN_REQUIRED")
  /\ UNCHANGED <<cache, token, login, accepted>>

-----------------------------------------------------------------------------
(* SignHash *)

\* Mutant: the PKCS#11 error is passed on as it is.
OpenSessionRaw(q) ==
  /\ reqs[q].pc = "resolved"
  /\ IF token[Tok(q)].plugged
     THEN reqs' = [reqs EXCEPT ![q] = [@ EXCEPT !.pc = "opened", !.live = TRUE]]
     ELSE FailWith(q, "CKR_TOKEN_NOT_PRESENT")
  /\ UNCHANGED <<cache, token, login, accepted>>

OpenSession(q) ==
  /\ reqs[q].pc = "resolved"
  /\ IF token[Tok(q)].plugged
     THEN reqs' = [reqs EXCEPT ![q] = [@ EXCEPT !.pc = "opened", !.live = TRUE]]
     ELSE FailWith(q, "TOKEN_NOT_FOUND")
  /\ UNCHANGED <<cache, token, login, accepted>>

\* Mutant: a login that is there already is taken for one's own.
LoginSharing(q) ==
  LET t == Tok(q)  s == reqs[q].slot IN
  /\ reqs[q].pc = "opened" /\ reqs[q].live /\ token[t].tries > 0
  /\ login[s] \/ reqs[q].pin = token[t].pin
  /\ login' = [login EXCEPT ![s] = TRUE]
  /\ token' = [token EXCEPT ![t].tries = MaxTries]
  /\ accepted' = IF login[s] THEN accepted
                 ELSE [accepted EXCEPT ![t] = @ \cup {reqs[q].pin}]
  /\ Goto(q, "loggedin")
  /\ UNCHANGED cache

\* C_Login with the right PIN.  The module refuses it when it is logged in itself;
\* of a login through another module it does not know.
Login(q) ==
  LET t == Tok(q)  s == reqs[q].slot IN
  /\ reqs[q].pc = "opened" /\ reqs[q].live /\ ~login[s] /\ token[t].tries > 0
  /\ reqs[q].pin = token[t].pin
  /\ login' = [login EXCEPT ![s] = TRUE]
  /\ token' = [token EXCEPT ![t].tries = MaxTries]
  /\ accepted' = [accepted EXCEPT ![t] = @ \cup {reqs[q].pin}]
  /\ Goto(q, "loggedin")
  /\ UNCHANGED cache

\* C_Login with a wrong PIN, which costs a try.
LoginWrongPin(q) ==
  LET t == Tok(q) IN
  /\ reqs[q].pc = "opened" /\ reqs[q].live /\ ~login[reqs[q].slot] /\ token[t].tries > 0
  /\ reqs[q].pin # token[t].pin
  /\ token' = [token EXCEPT ![t].tries = @ - 1]
  /\ FailWith(q, "PIN_INCORRECT")
  /\ UNCHANGED <<cache, login, accepted>>

\* The token has gone, is locked, or the module is logged in to it already
\* (CKR_USER_ALREADY_LOGGED_IN, which mapPKCS11Error has no case for).
LoginError(q) ==
  LET t == Tok(q)  s == reqs[q].slot IN
  /\ reqs[q].pc = "opened"
  /\ \/ ~reqs[q].live /\ FailWith(q, "TOKEN_NOT_FOUND")
     \/ reqs[q].live /\ login[s] /\ FailWith(q, "INTERNAL_ERROR")
     \/ reqs[q].live /\ ~login[s] /\ token[t].tries = 0 /\ FailWith(q, "PIN_LOCKED")
  /\ UNCHANGED <<cache, token, login, accepted>>

\* Mutant: the session is not looked at again after the login.
SignDead(q) ==
  /\ reqs[q].pc = "loggedin"
  /\ reqs' = [reqs EXCEPT ![q] = [@ EXCEPT !.pc = "leaving", !.key = FirstKey[reqs[q].slot]]]
  /\ UNCHANGED <<cache, token, login, accepted>>

\* The first private key on the slot signs.
Sign(q) ==
  /\ reqs[q].pc = "loggedin" /\ reqs[q].live
  /\ reqs' = [reqs EXCEPT ![q] = [@ EXCEPT !.pc = "leaving", !.key = FirstKey[reqs[q].slot]]]
  /\ UNCHANGED <<cache, token, login, accepted>>

\* No key, an unsupported key type, a failing device, a dead session.
SignError(q) ==
  /\ reqs[q].pc = "loggedin"
  /\ reqs' = [reqs EXCEPT ![q] = [@ EXCEPT !.pc = "leaving",
                   !.code = IF reqs[q].live THEN "INTERNAL_ERROR" ELSE "TOKEN_NOT_FOUND"]]
  /\ UNCHANGED <<cache, token, login, accepted>>

\* Mutant: an error path returns without the logout.
LogoutUnlessError(q) ==
  /\ reqs[q].pc = "leaving"
  /\ login' = IF reqs[q].live /\ reqs[q].key # NoCert
              THEN [login EXCEPT ![reqs[q].slot] = FALSE] ELSE login
  /\ reqs' = [reqs EXCEPT ![q] =
                [@ EXCEPT !.pc = IF reqs[q].key # NoCert THEN "returned" ELSE "failing",
                          !.live = FALSE]]
  /\ UNCHANGED <<cache, token, accepted>>

\* The deferred C_Logout and C_CloseSession.
Logout(q) ==
  /\ reqs[q].pc = "leaving"
  /\ login' = IF reqs[q].live THEN [login EXCEPT ![reqs[q].slot] = FALSE] ELSE login
  /\ reqs' = [reqs EXCEPT ![q] =
                [@ EXCEPT !.pc = IF reqs[q].key # NoCert THEN "returned" ELSE "failing",
                          !.live = FALSE]]
  /\ UNCHANGED <<cache, token, accepted>>

-----------------------------------------------------------------------------
(* HandleSign after SignHash *)

\* pins.Set, then the chain, the OCSP response and the answer.
Remember(q) ==
  /\ reqs[q].pc = "returned"
  /\ cache' = [cache EXCEPT ![reqs[q].cert] = reqs[q].pin]
  /\ Respond(q, "OK")
  /\ UNCHANGED <<token, login, accepted>>

\* The error is mapped; a wrong or locked PIN is forgotten.
AnswerError(q) ==
  /\ reqs[q].pc = "failing"
  /\ cache' = IF reqs[q].code \in {"PIN_INCORRECT", "PIN_LOCKED"}
              THEN [cache EXCEPT ![reqs[q].cert] = NoPin] ELSE cache
  /\ Respond(q, reqs[q].code)
  /\ UNCHANGED <<token, login, accepted>>

-----------------------------------------------------------------------------
(* The process and the signer *)

\* Quit in the tray, or the end of the login session, and the next start: the
\* cache is empty, no goroutine and no PKCS#11 state is left.
Restart ==
  /\ cache' = [k \in Certs |-> NoPin]
  /\ login' = [s \in Slots |-> FALSE]
  /\ reqs' = [q \in Reqs |->
       IF reqs[q].pc \in {"idle", "done"} THEN reqs[q]
       ELSE [reqs[q] EXCEPT !.pc = "done", !.code = "dropped", !.slot = NoSlot, !.pin = NoPin,
                            !.typed = FALSE, !.live = FALSE]]
  /\ UNCHANGED <<token, accepted>>

Unplug(t) ==
  /\ token[t].plugged
  /\ token' = [token EXCEPT ![t].plugged = FALSE]
  /\ login' = [s \in Slots |-> login[s] /\ CardOf[s] # t]
  /\ reqs' = [q \in Reqs |->
       IF reqs[q].live /\ Tok(q) = t THEN [reqs[q] EXCEPT !.live = FALSE] ELSE reqs[q]]
  /\ UNCHANGED <<cache, accepted>>

PlugIn(t) ==
  /\ ~token[t].plugged
  /\ token' = [token EXCEPT ![t].plugged = TRUE]
  /\ UNCHANGED <<cache, login, accepted, reqs>>

\* The vendor's tool sets another PIN, and unlocks the token.
ChangePin(t, p) ==
  /\ token[t].plugged
  /\ token' = [token EXCEPT ![t] = [@ EXCEPT !.pin = p, !.tries = MaxTries]]
  /\ UNCHANGED <<cache, login, accepted, reqs>>

-----------------------------------------------------------------------------
(* Specification *)

Init ==
  /\ cache = [k \in Certs |-> NoPin]
  /\ token \in [Tokens -> [plugged : BOOLEAN, pin : Pins, tries : {MaxTries}]]
  /\ login = [s \in Slots |-> FALSE]
  /\ accepted = [t \in Tokens |-> {}]
  /\ reqs = [q \in Reqs |-> [pc |-> "idle", cert |-> NoCert, slot |-> NoSlot, pin |-> NoPin,
                             typed |-> FALSE, live |-> FALSE, key |-> NoCert, code |-> "none"]]

\* What the goroutine of a request does.
Step(q) ==
  \/ Refuse(q) \/ FindCert(q) \/ FindCertFails(q) \/ ResolvePin(q) \/ PinRequired(q)
  \/ OpenSession(q) \/ Login(q) \/ LoginWrongPin(q) \/ LoginError(q)
  \/ Sign(q) \/ SignError(q) \/ Logout(q) \/ Remember(q) \/ AnswerError(q)

Next ==
  \/ \E q \in Reqs, k \in Certs, p \in Pins \cup {NoPin} : Receive(q, k, p)
  \/ \E q \in Reqs : Step(q)
  \/ Restart
  \/ \E t \in Tokens : Unplug(t) \/ PlugIn(t)
  \/ \E t \in Tokens, p \in Pins : ChangePin(t, p)

Spec == Init /\ [][Next]_vars

\* The Go scheduler runs every goroutine, and the token answers.
FairSpec == Spec /\ \A q \in Reqs : WF_vars(Step(q))

-----------------------------------------------------------------------------
(* Properties *)

\* q is between its login in slot s and its logout, on a session that is still good.
Holds(q, s) == reqs[q].pc \in {"loggedin", "leaving"} /\ reqs[q].live /\ reqs[q].slot = s

\* A login belongs to exactly one request, and a request that is about to sign has
\* it: although SignHash takes no lock, no other request's logout ends it, and no
\* error, unplugged token or late logout leaves a slot logged in with nobody to log
\* it out (pkcs11_handler.go 250-261).  It is one login per slot of a module: two
\* requests may be logged in to one token at a time, through two modules.
LoginHasOneOwner ==
  \A s \in Slots :
    /\ login[s] => \E q \in Reqs : Holds(q, s)
    /\ \A q \in Reqs : Holds(q, s) => login[s]
    /\ \A q, r \in Reqs : Holds(q, s) /\ Holds(r, s) => q = r

\* The cache holds only PINs that the token of the certificate has accepted, even
\* when a request with a wrong PIN runs next to one that is logged in
\* (handlers.go 330-344).
CachedPinsWereAccepted ==
  \A k \in Certs : cache[k] # NoPin => cache[k] \in accepted[TokenOf[k]]

\* A PIN taken from the cache costs the token a try only if the token accepted it
\* before, so only if somebody changed the PIN meanwhile (handlers.go 333-334:
\* a wrong PIN reused "can lock the token").
CachedPinsCostNothing ==
  [][\A t \in Tokens : token'[t].tries < token[t].tries =>
       \E q \in Reqs : /\ reqs[q].pc = "opened" /\ Tok(q) = t
                       /\ reqs[q].typed \/ reqs[q].pin \in accepted[t]]_vars

\* The part that makes the invariants above inductive: what a running request
\* knows.  It has a certificate and, once that was found, a slot its token is in; its
\* session handle is good only while its token stays plugged in; a PIN it has not
\* been given was accepted before, and so was one it has logged in with; C_Login
\* never gets an empty PIN, which crashes some modules (handlers.go 314-328, pkcs11_handler.go 250-261).
RequestConsistent(q) ==
  /\ reqs[q].pc \notin {"idle", "done"} => reqs[q].cert \in Certs
  /\ reqs[q].pc \notin {"idle", "received", "done"} =>
       reqs[q].slot \in Slots /\ CardOf[reqs[q].slot] = Tok(q)
  /\ reqs[q].live => reqs[q].pc \in {"opened", "loggedin", "leaving"} /\ token[Tok(q)].plugged
  /\ reqs[q].typed /\ reqs[q].pc \notin {"idle", "done"} => reqs[q].pin # NoPin
  /\ reqs[q].pc \in {"resolved", "opened"} =>
       reqs[q].pin # NoPin /\ (reqs[q].typed \/ reqs[q].pin \in accepted[Tok(q)])
  /\ reqs[q].pc \in {"loggedin", "leaving", "returned"} => reqs[q].pin \in accepted[Tok(q)]

RequestsConsistent == \A q \in Reqs : RequestConsistent(q)

\* The logins and signatures of the requests, as TokenLock sees them.
Holders == [s \in Slots |-> {q \in Reqs : Holds(q, s)}]
HaveSigned == {q \in Reqs : reqs[q].key # NoCert}

Lock == INSTANCE TokenLock WITH Owners <- Reqs, holders <- Holders, signed <- HaveSigned

\* Within one PKCS#11 module logins do the work of the mutex that SignHash does not
\* have: no login passes from one request to another without a logout, and every
\* signature is made by the request that is logged in, although logins, logouts, errors,
\* restarts and unplugged tokens interleave (pkcs11_handler.go 250-313).
RefinesLock == Lock!Spec

\* A slot does not stay logged in: whatever happens to the request that logged
\* in, its process logs it out (pkcs11_handler.go 255, 261: the deferred calls).
TokenReleased == \A s \in Slots : login[s] ~> ~login[s]
=============================================================================
