-------------------------- MODULE SigningPipeline ---------------------------
(***************************************************************************)
(* One signature through all three programs: forms in a browser (e_sign.js)*)
(* run the pipeline on one signing request of the server, with the bridge  *)
(* of the signer's machine.  The atoms are the awaits of the pipeline; a   *)
(* call of the server or the bridge is one step here, their insides are    *)
(* the subject of SigningRequest, Pairing and BridgeSigning.               *)
(*                                                                         *)
(* Whatever goes wrong is a "trouble": a lost answer, a wrong or cancelled *)
(* PIN, a closed page, an unplugged token, a call that raises.  Troubles   *)
(* come at any moment, but only finitely many.                             *)
(***************************************************************************)
EXTENDS Naturals

CONSTANTS
  Flows,        \* forms of the document that are open, each runs one flow at a time
  MaxTroubles   \* how many troubles there are (a bound)

ASSUME TroubleAssumption == MaxTroubles \in Nat

VARIABLES
  status,    \* status of the request
  stale,     \* its `modified` is older than the timeouts
  secret,    \* number of the site's HMAC secret, see Pairing
  bridge,    \* the bridge: its process, token and keystore; torn: the file of the
             \* paired sites cannot be read
  form,      \* the buttons a form shows
  pc,        \* the await a flow is at
  session,   \* what a flow's last initiate left in Redis
  made,      \* the secret that initiate made its HMAC with
  troubles   \* how many troubles may still come

vars == <<status, stale, secret, bridge, form, pc, session, made, troubles>>

server == <<status, stale, session, made>>

-----------------------------------------------------------------------------
(* Types *)

\* A secret is a number, 0 is none.
Secrets == 0 .. MaxTroubles + 1

Awaits == {"idle", "ping", "check", "pair", "locate", "certs", "initiate", "pin", "sign",
           "finalize", "abort", "done"}

TypeOK ==
  /\ status \in {"Pending", "In Progress", "Signed", "Failed"}
  /\ stale \in BOOLEAN
  /\ secret \in Secrets
  /\ bridge \in [running : BOOLEAN, token : BOOLEAN, paired : BOOLEAN, torn : BOOLEAN,
                 secret : Secrets]
  /\ form \in [Flows -> [sign : BOOLEAN, retry : BOOLEAN]]
  /\ pc \in [Flows -> Awaits]
  /\ session \in [Flows -> {"none", "live", "gone"}]
  /\ made \in [Flows -> Secrets]
  /\ troubles \in 0 .. MaxTroubles

\* The bridge is new, or paired, perhaps by a version without secrets.
Init ==
  /\ status = "Pending" /\ stale = FALSE /\ secret = 1
  /\ \E paired \in BOOLEAN, s \in {0, 1} :
       /\ ~paired => s = 0
       /\ bridge = [running |-> TRUE, token |-> TRUE, paired |-> paired, torn |-> FALSE, secret |-> s]
  /\ form = [f \in Flows |-> [sign |-> FALSE, retry |-> FALSE]]
  /\ pc = [f \in Flows |-> "idle"]
  /\ session = [f \in Flows |-> "none"]
  /\ made = [f \in Flows |-> 0]
  /\ troubles = MaxTroubles

Trouble == troubles > 0 /\ troubles' = troubles - 1
Fine    == UNCHANGED troubles

Goto(f, a) == pc' = [pc EXCEPT ![f] = a]

-----------------------------------------------------------------------------
(* The form *)

Buttons(s) == [sign |-> s = "Pending", retry |-> s = "Failed"]

Show(f) == form' = [form EXCEPT ![f] = Buttons(status')]

\* Mutant: what seems abandoned is left alone.
PolledWithoutReset == status

\* The status after get_signing_status: an abandoned attempt is reset.
Polled == IF status = "In Progress" /\ stale THEN "Pending" ELSE status

\* form-refresh: the form asks get_form_actions what to show.  A running flow
\* does not notice.
Refresh(f) ==
  /\ status' = Polled /\ Show(f)
  /\ Fine /\ UNCHANGED <<stale, secret, bridge, pc, session, made>>

\* "Sign with DSC", or the flow that starts by itself after a submit.
Click(f) ==
  /\ pc[f] = "idle" /\ form[f].sign
  /\ Goto(f, "ping")
  /\ Fine /\ UNCHANGED <<server, secret, bridge, form>>

\* "Retry Last Failed"; retry raises unless the request has failed.
ClickRetry(f) ==
  /\ form[f].retry /\ status = "Failed"
  /\ status' = "Pending" /\ stale' = FALSE /\ Show(f)
  /\ Fine /\ UNCHANGED <<secret, bridge, pc, session, made>>

\* The page is closed or left; opening it again is Refresh.
ClosePage(f) ==
  /\ pc[f] # "idle" /\ Trouble
  /\ Goto(f, "idle")
  /\ form' = [form EXCEPT ![f] = [sign |-> FALSE, retry |-> FALSE]]
  /\ UNCHANGED <<server, secret, bridge>>

-----------------------------------------------------------------------------
(* The pipeline up to initiate: an exception ends it *)

Local == UNCHANGED <<server, secret, bridge, form>>

\* Gate 1 of startSigningFlow: without a bridge the install dialog is shown.
Ping(f) ==
  /\ pc[f] = "ping" /\ Goto(f, IF bridge.running THEN "check" ELSE "idle")
  /\ Fine /\ Local

\* The second ping: a token, and is this site among the paired ones?
Check(f) ==
  /\ pc[f] = "check"
  /\ Goto(f, IF ~bridge.running \/ ~bridge.token THEN "idle"
             ELSE IF bridge.paired THEN "locate" ELSE "pair")
  /\ Fine /\ Local

\* What /v1/pair leaves behind: the secret in the keychain, the site in the file.
Paired == bridge' = [bridge EXCEPT !.paired = TRUE, !.secret = secret]

\* The bridge dies while it writes the file (power loss, a kill): half of it is
\* there.
PairingTorn ==
  bridge' = [bridge EXCEPT !.running = FALSE, !.torn = TRUE, !.paired = TRUE, !.secret = secret]

\* Mutant: the secret is stored, the site is not put on the list.
PairUnlisted(f) ==
  /\ pc[f] = "pair" /\ bridge.running
  /\ bridge' = [bridge EXCEPT !.secret = secret]
  /\ Goto(f, "locate")
  /\ Fine /\ UNCHANGED <<server, secret, form>>

\* autoPairBridge: code from the server, /v1/pair on the bridge.
Pair(f) ==
  /\ pc[f] = "pair" /\ bridge.running /\ Paired
  /\ Goto(f, "locate")
  /\ Fine /\ UNCHANGED <<server, secret, form>>

PairTorn(f) ==
  /\ pc[f] = "pair" /\ bridge.running /\ PairingTorn
  /\ Goto(f, "idle")
  /\ Trouble /\ UNCHANGED <<server, secret, form>>

\* Declined, or one of the two calls failed.
PairFails(f) ==
  /\ pc[f] = "pair" /\ Goto(f, "idle") /\ Local
  /\ IF bridge.running THEN Trouble ELSE Fine

Locate(f) == pc[f] = "locate" /\ Goto(f, "certs") /\ Fine /\ Local

LocationDenied(f) == pc[f] = "locate" /\ Goto(f, "idle") /\ Trouble /\ Local

\* fetchSignerCertDer.
FetchCerts(f) ==
  /\ pc[f] = "certs"
  /\ Goto(f, IF bridge.running /\ bridge.token THEN "initiate" ELSE "idle")
  /\ Fine /\ Local

\* What initiate does on the server.
Initiated(f) ==
  /\ status = "Pending" /\ status' = "In Progress" /\ stale' = FALSE
  /\ session' = [session EXCEPT ![f] = "live"]
  /\ made' = [made EXCEPT ![f] = secret]
  /\ UNCHANGED <<secret, bridge, form>>

Initiate(f) == pc[f] = "initiate" /\ Initiated(f) /\ Goto(f, "pin") /\ Fine

\* The answer is lost: the browser does not know the request, and will not abort it.
InitiateLost(f) == pc[f] = "initiate" /\ Initiated(f) /\ Goto(f, "idle") /\ Trouble

\* No pending request, or initiate raised.
InitiateRefused(f) ==
  /\ pc[f] = "initiate" /\ Goto(f, "idle") /\ Local
  /\ IF status = "Pending" THEN Trouble ELSE Fine

-----------------------------------------------------------------------------
(* From the PIN on: an exception calls abort_in_progress *)

EnterPin(f) == pc[f] = "pin" /\ Goto(f, "sign") /\ Fine /\ Local

CancelPin(f) == pc[f] = "pin" /\ Goto(f, "abort") /\ Trouble /\ Local

\* The dialog is closed with neither of its buttons: the promise is never
\* resolved and the flow is forgotten.
DismissPin(f) == pc[f] = "pin" /\ Goto(f, "idle") /\ Trouble /\ Local

\* HandleSign's conditions: the token is there, the HMAC is the site's.
BridgeAccepts(f) == bridge.running /\ bridge.token /\ bridge.secret \in {0, made[f]}

Sign(f) == pc[f] = "sign" /\ BridgeAccepts(f) /\ Goto(f, "finalize") /\ Fine /\ Local

\* Refused, a wrong PIN, an HMAC older than a minute, or the answer is lost.
SignFails(f) ==
  /\ pc[f] = "sign" /\ Goto(f, "abort") /\ Local
  /\ IF BridgeAccepts(f) THEN Trouble ELSE Fine

\* finalize takes the session and writes its outcome, whatever the status is.
Finalized(f, outcome) ==
  /\ pc[f] = "finalize" /\ session[f] = "live"
  /\ session' = [session EXCEPT ![f] = "gone"]
  /\ status' = outcome /\ stale' = FALSE
  /\ UNCHANGED <<secret, bridge, form, made>>

Finalize(f) == Finalized(f, "Signed") /\ Goto(f, "done") /\ Fine

FinalizeLost(f) == Finalized(f, "Signed") /\ Goto(f, "abort") /\ Trouble

FinalizeFails(f) == Finalized(f, "Failed") /\ Goto(f, "abort") /\ Trouble

\* "Signing session expired or not found."
FinalizeExpired(f) ==
  /\ pc[f] = "finalize" /\ session[f] = "gone"
  /\ Goto(f, "abort") /\ Fine /\ Local

\* The catch handler.  abort_in_progress answers, and the form is reloaded,
\* unless the request is In Progress: then its save raises, for the transition
\* table has no In Progress -> Pending, and the form keeps its buttons.
Abort(f) ==
  /\ pc[f] = "abort" /\ Goto(f, "idle")
  /\ status' = status
  /\ IF status = "In Progress" THEN UNCHANGED form ELSE Show(f)
  /\ Fine /\ UNCHANGED <<stale, secret, bridge, session, made>>

\* "Document signed successfully", then the form is reloaded.
Done(f) ==
  /\ pc[f] = "done" /\ Goto(f, "idle")
  /\ status' = Polled /\ Show(f)
  /\ Fine /\ UNCHANGED <<stale, secret, bridge, session, made>>

-----------------------------------------------------------------------------
(* The surroundings *)

Around == UNCHANGED <<form, pc, made>>

GrowStale ==
  /\ status = "In Progress" /\ ~stale /\ stale' = TRUE
  /\ Fine /\ Around /\ UNCHANGED <<status, secret, bridge, session>>

\* Mutant: the hourly job writes a status of its own.
ExpireStaleExpired ==
  /\ status = "In Progress" /\ stale
  /\ status' = "Expired" /\ stale' = FALSE
  /\ Fine /\ Around /\ UNCHANGED <<secret, bridge, session>>

\* The hourly job.
ExpireStale ==
  /\ status = "In Progress" /\ stale
  /\ status' = "Failed" /\ stale' = FALSE
  /\ Fine /\ Around /\ UNCHANGED <<secret, bridge, session>>

SessionExpires(f) ==
  /\ session[f] = "live" /\ Trouble
  /\ session' = [session EXCEPT ![f] = "gone"]
  /\ Around /\ UNCHANGED <<status, stale, secret, bridge>>

BridgeStops ==
  /\ bridge.running /\ Trouble
  /\ bridge' = [bridge EXCEPT !.running = FALSE]
  /\ Around /\ UNCHANGED <<status, stale, secret, session>>

\* Mutant: the bridge comes up without its keystore.
BridgeStartsAnew ==
  /\ ~bridge.running /\ ~bridge.torn /\ Fine
  /\ bridge' = [bridge EXCEPT !.running = TRUE, !.paired = FALSE, !.secret = 0]
  /\ Around /\ UNCHANGED <<status, stale, secret, session>>

\* The keystore is read again: the bridge knows what it knew.  If NewKeystore
\* cannot read it, main ends in log.Fatalf.
BridgeStarts ==
  /\ ~bridge.running /\ ~bridge.torn /\ Fine
  /\ bridge' = [bridge EXCEPT !.running = TRUE]
  /\ Around /\ UNCHANGED <<status, stale, secret, session>>

Unplug ==
  /\ bridge.token /\ Trouble
  /\ bridge' = [bridge EXCEPT !.token = FALSE]
  /\ Around /\ UNCHANGED <<status, stale, secret, session>>

Plug ==
  /\ ~bridge.token /\ Fine
  /\ bridge' = [bridge EXCEPT !.token = TRUE]
  /\ Around /\ UNCHANGED <<status, stale, secret, session>>

\* An administrator clears the secret; the next call makes a new one.
Rotate ==
  /\ Trouble /\ secret' = secret + 1
  /\ Around /\ UNCHANGED <<status, stale, bridge, session>>

\* "Pair This Computer" on a DSC Agent Registration, or its code posted by hand;
\* neither asks whether the site is paired.
PairThisComputer ==
  /\ bridge.running
  /\ (Paired /\ Fine) \/ (PairingTorn /\ Trouble)
  /\ Around /\ UNCHANGED <<status, stale, secret, session>>

-----------------------------------------------------------------------------

\* What a flow does when nothing goes wrong with it in this step.
Proceed(f) ==
  \/ Click(f) \/ Ping(f) \/ Check(f) \/ Pair(f) \/ Locate(f) \/ FetchCerts(f) \/ Initiate(f)
  \/ EnterPin(f) \/ Sign(f) \/ Finalize(f) \/ FinalizeExpired(f) \/ Abort(f) \/ Done(f)

\* What else may end it: a refusal, or a trouble.
Stop(f) ==
  \/ PairFails(f) \/ PairTorn(f) \/ LocationDenied(f) \/ InitiateLost(f) \/ InitiateRefused(f)
  \/ CancelPin(f) \/ DismissPin(f) \/ SignFails(f) \/ FinalizeLost(f) \/ FinalizeFails(f)

Surroundings ==
  \/ GrowStale \/ ExpireStale \/ BridgeStops \/ BridgeStarts \/ Unplug \/ Plug
  \/ Rotate \/ PairThisComputer

Next ==
  \/ \E f \in Flows :
       Proceed(f) \/ Stop(f) \/ Refresh(f) \/ ClickRetry(f) \/ ClosePage(f) \/ SessionExpires(f)
  \/ Surroundings

\* The signer goes on: refreshes the form, uses the button it shows, types the
\* PIN, starts the bridge and plugs in the token.  Time passes.
SignerGoesOn ==
  /\ \A f \in Flows :
       WF_vars(Proceed(f) \/ Stop(f)) /\ WF_vars(Refresh(f)) /\ WF_vars(ClickRetry(f))
  /\ WF_vars(GrowStale) /\ WF_vars(BridgeStarts) /\ WF_vars(Plug)

Spec == Init /\ [][Next]_vars /\ SignerGoesOn

-----------------------------------------------------------------------------
(* Properties *)

\* The site's secret is not the one the bridge was paired with: every signature
\* is refused, and since the site is on the bridge's list no flow pairs again.
Mismatched == bridge.secret \notin {0, secret}

\* Whatever goes wrong, at any await of any open form, a signer who goes on gets
\* the document signed in the end, and it stays signed; nothing leaves the
\* request where no button leads any further (e_sign.js 129-358, signing.py
\* 536-578: "instead of the document being frozen").  There are two exceptions: a
\* secret made anew, and a bridge that died while it wrote down a pairing, which
\* never starts again (keystore.go 48-68, main.go 66-69).
GetsSigned == <>[](status = "Signed" \/ Mismatched \/ bridge.torn)

\* And that exception is for good as far as the flows go: once the secrets differ
\* and no flow has already decided to pair, no sequence of retries, restarts,
\* new tokens and further rotations brings a flow to pair or the secrets
\* together; only somebody who pairs by hand does (e_sign.js 274-287).
MismatchOutlivesFlows ==
  [][Mismatched /\ (\A f \in Flows : pc[f] # "pair") /\ ~PairThisComputer =>
       Mismatched' /\ (\A f \in Flows : pc'[f] # "pair")]_vars

\* The part that makes these inductive: each rotation costs a trouble, the
\* bridge's secret is one the site had, and a bridge with a secret is paired.
SecretsConsistent ==
  /\ secret \in 1 .. MaxTroubles + 1 - troubles
  /\ bridge.secret <= secret
  /\ bridge.secret # 0 => bridge.paired

=============================================================================
