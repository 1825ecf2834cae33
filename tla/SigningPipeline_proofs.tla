---------------------- MODULE SigningPipeline_proofs ------------------------
(***************************************************************************)
(* The safety properties of the pipeline, for any number of forms and of   *)
(* troubles.  Every action writes some of: the request (status, stale),    *)
(* the forms, a flow's place and session, the bridge, the secret; the      *)
(* lemmas take them one by one.                                            *)
(***************************************************************************)
EXTENDS SigningPipeline, TLAPS

PInv == TypeOK /\ SecretsConsistent

Statuses == {"Pending", "In Progress", "Signed", "Failed"}

BridgeRec ==
  [running : BOOLEAN, token : BOOLEAN, paired : BOOLEAN, torn : BOOLEAN, secret : Secrets]

\* What a step of a flow, or of its surroundings, does to the request.
RequestKept ==
  /\ status' \in Statuses /\ stale' \in BOOLEAN
  /\ form' \in [Flows -> [sign : BOOLEAN, retry : BOOLEAN]]
  /\ session' \in [Flows -> {"none", "live", "gone"}]

\* Where flow f goes; what its last initiate made its HMAC with.
FlowKept == pc' \in [Flows -> Awaits] /\ made' \in [Flows -> Secrets]

\* A trouble is spent or none; only Rotate changes the secret.
TroublesKept == troubles' \in 0 .. MaxTroubles /\ troubles' <= troubles /\ secret' = secret

-----------------------------------------------------------------------------
(* The bridge's secrets *)

\* The bridge is as it was, or has just been paired.
BridgeKept ==
  /\ bridge' \in BridgeRec
  /\ \/ bridge'.secret = bridge.secret /\ bridge'.paired = bridge.paired
     \/ bridge'.secret = secret /\ bridge'.paired = TRUE

LEMMA Ranges ==
  ASSUME PInv
  PROVE  /\ secret \in Nat /\ secret \in Secrets /\ secret >= 1 /\ troubles \in Nat
         /\ troubles <= MaxTroubles /\ secret + troubles <= MaxTroubles + 1
         /\ bridge \in BridgeRec /\ bridge.secret \in Nat /\ bridge.secret <= secret
         /\ MaxTroubles \in Nat
<1>1. MaxTroubles \in Nat /\ troubles \in 0 .. MaxTroubles
  BY TroubleAssumption DEF PInv, TypeOK
<1>2. bridge \in BridgeRec /\ bridge.secret \in Secrets
  BY DEF PInv, TypeOK, BridgeRec
<1>3. bridge.secret \in Nat
  BY <1>1, <1>2 DEF Secrets
<1>4. secret \in 1 .. MaxTroubles + 1 - troubles
  BY DEF PInv, SecretsConsistent
<1> QED BY <1>1, <1>2, <1>3, <1>4 DEF PInv, SecretsConsistent, Secrets

LEMMA KeepsPInv ==
  ASSUME PInv, RequestKept, FlowKept, TroublesKept, BridgeKept
  PROVE  PInv'
<1>1. TypeOK'
  BY Ranges DEF TypeOK, RequestKept, FlowKept, TroublesKept, BridgeKept, Statuses, BridgeRec
<1>2. troubles' \in Nat /\ secret' = secret
  BY Ranges DEF TroublesKept
<1>3. secret' \in 1 .. MaxTroubles + 1 - troubles'
  BY <1>2, Ranges DEF TroublesKept
<1>4. bridge'.secret <= secret' /\ (bridge'.secret # 0 => bridge'.paired)
  BY <1>2, Ranges DEF BridgeKept, PInv, SecretsConsistent
<1> QED BY <1>1, <1>3, <1>4 DEF PInv, SecretsConsistent

LEMMA TroubleKept ==
  ASSUME PInv, Trouble \/ Fine, UNCHANGED secret
  PROVE  TroublesKept
BY Ranges DEF Trouble, Fine, TroublesKept

LEMMA GotoKept ==
  ASSUME PInv, NEW f \in Flows, NEW a \in Awaits, Goto(f, a)
  PROVE  pc' \in [Flows -> Awaits]
BY DEF PInv, TypeOK, Goto

LEMMA ShowKept ==
  ASSUME PInv, NEW f \in Flows, Show(f)
  PROVE  form' \in [Flows -> [sign : BOOLEAN, retry : BOOLEAN]]
<1>1. Buttons(status') \in [sign : BOOLEAN, retry : BOOLEAN]
  BY DEF Buttons
<1> QED BY <1>1 DEF PInv, TypeOK, Show

LEMMA PolledKept == PInv => Polled \in Statuses
BY DEF PInv, TypeOK, Polled, Statuses

LEMMA SameBridge == ASSUME PInv, UNCHANGED bridge PROVE BridgeKept
BY Ranges DEF BridgeKept

\* A step that leaves the server, the bridge and the forms alone.
LEMMA LocalStep ==
  ASSUME PInv, Local, Trouble \/ Fine, NEW f \in Flows, NEW a \in Awaits, Goto(f, a)
  PROVE  PInv'
<1>1. UNCHANGED <<status, stale, session, made, secret, bridge, form>>
  BY DEF Local, server
<1>2. RequestKept /\ made' \in [Flows -> Secrets]
  BY <1>1 DEF PInv, TypeOK, RequestKept, Statuses
<1>3. FlowKept
  BY <1>2, GotoKept DEF FlowKept
<1> QED BY <1>1, <1>2, <1>3, TroubleKept, SameBridge, KeepsPInv

-----------------------------------------------------------------------------
(* The steps of a flow *)

LEMMA LocalSteps ==
  ASSUME PInv, NEW f \in Flows,
         \/ Ping(f) \/ Check(f) \/ PairFails(f) \/ Locate(f) \/ LocationDenied(f) \/ FetchCerts(f)
         \/ InitiateRefused(f) \/ EnterPin(f) \/ CancelPin(f) \/ DismissPin(f) \/ Sign(f)
         \/ SignFails(f) \/ FinalizeExpired(f)
  PROVE  PInv'
<1>1. Local /\ (Trouble \/ Fine)
  BY DEF Ping, Check, PairFails, Locate, LocationDenied, FetchCerts, InitiateRefused, EnterPin,
         CancelPin, DismissPin, Sign, SignFails, FinalizeExpired
<1>2. \E a \in Awaits : Goto(f, a)
  BY DEF Ping, Check, PairFails, Locate, LocationDenied, FetchCerts, InitiateRefused, EnterPin,
         CancelPin, DismissPin, Sign, SignFails, FinalizeExpired, Awaits
<1> QED BY <1>1, <1>2, LocalStep

LEMMA FormSteps ==
  ASSUME PInv, NEW f \in Flows,
         Refresh(f) \/ ClickRetry(f) \/ Done(f) \/ Abort(f) \/ Click(f) \/ ClosePage(f)
  PROVE  PInv'
<1>1. UNCHANGED <<secret, bridge, session, made>> /\ (Trouble \/ Fine)
  BY DEF Refresh, ClickRetry, Done, Abort, Click, ClosePage, server
<1>2. status' \in Statuses /\ stale' \in BOOLEAN
  BY PolledKept DEF Refresh, ClickRetry, Done, Abort, Click, ClosePage, server, PInv, TypeOK, Statuses
<1>3. form' \in [Flows -> [sign : BOOLEAN, retry : BOOLEAN]]
  <2>1. \/ UNCHANGED form \/ Show(f)
        \/ form' = [form EXCEPT ![f] = [sign |-> FALSE, retry |-> FALSE]]
    BY DEF Refresh, ClickRetry, Done, Abort, Click, ClosePage
  <2>2. form \in [Flows -> [sign : BOOLEAN, retry : BOOLEAN]]
    BY DEF PInv, TypeOK
  <2>3. [sign |-> FALSE, retry |-> FALSE] \in [sign : BOOLEAN, retry : BOOLEAN]
    OBVIOUS
  <2>4. CASE form' = [form EXCEPT ![f] = [sign |-> FALSE, retry |-> FALSE]]
    BY <2>2, <2>3, <2>4
  <2> QED BY <2>1, <2>2, <2>4, ShowKept
<1>4. pc' \in [Flows -> Awaits]
  <2>1. UNCHANGED pc \/ Goto(f, "idle") \/ Goto(f, "ping")
    BY DEF Refresh, ClickRetry, Done, Abort, Click, ClosePage
  <2>2. "idle" \in Awaits /\ "ping" \in Awaits
    BY DEF Awaits
  <2> QED BY <2>1, <2>2, GotoKept DEF PInv, TypeOK
<1>5. RequestKept /\ FlowKept
  BY <1>1, <1>2, <1>3, <1>4 DEF RequestKept, FlowKept, PInv, TypeOK
<1> QED BY <1>1, <1>5, TroubleKept, SameBridge, KeepsPInv

LEMMA InitiateSteps ==
  ASSUME PInv, NEW f \in Flows, Initiate(f) \/ InitiateLost(f)
  PROVE  PInv'
<1>1. Initiated(f) /\ (Trouble \/ Fine) /\ (Goto(f, "pin") \/ Goto(f, "idle"))
  BY DEF Initiate, InitiateLost
<1>2. RequestKept
  BY <1>1 DEF Initiated, RequestKept, PInv, TypeOK, Statuses
<1>3. made' \in [Flows -> Secrets] /\ UNCHANGED <<secret, bridge>>
  BY <1>1 DEF Initiated, PInv, TypeOK
<1>4. "pin" \in Awaits /\ "idle" \in Awaits
  BY DEF Awaits
<1>5. FlowKept
  BY <1>1, <1>3, <1>4, GotoKept DEF FlowKept
<1> QED BY <1>1, <1>2, <1>3, <1>5, TroubleKept, SameBridge, KeepsPInv

LEMMA FinalizeSteps ==
  ASSUME PInv, NEW f \in Flows, Finalize(f) \/ FinalizeLost(f) \/ FinalizeFails(f)
  PROVE  PInv'
<1>1. /\ Finalized(f, "Signed") \/ Finalized(f, "Failed")
      /\ (Trouble \/ Fine) /\ (Goto(f, "done") \/ Goto(f, "abort"))
  BY DEF Finalize, FinalizeLost, FinalizeFails
<1>2. RequestKept /\ UNCHANGED <<secret, bridge, made>>
  BY <1>1 DEF Finalized, RequestKept, PInv, TypeOK, Statuses
<1>3. "done" \in Awaits /\ "abort" \in Awaits
  BY DEF Awaits
<1>4. FlowKept
  BY <1>1, <1>2, <1>3, GotoKept DEF FlowKept, PInv, TypeOK
<1> QED BY <1>1, <1>2, <1>4, TroubleKept, SameBridge, KeepsPInv

\* Pairing writes the site's secret to the bridge, in a flow or by hand, and the
\* file too or half of it.
LEMMA PairSteps ==
  ASSUME PInv, PairThisComputer \/ \E f \in Flows : Pair(f) \/ PairTorn(f)
  PROVE  PInv'
<1>1. /\ Paired \/ PairingTorn
      /\ (Trouble \/ Fine) /\ UNCHANGED <<status, stale, session, made, secret, form>>
      /\ UNCHANGED pc \/ \E f \in Flows : Goto(f, "locate") \/ Goto(f, "idle")
  BY DEF PairThisComputer, Pair, PairTorn, Around, server
<1>2. bridge' \in BridgeRec /\ bridge'.secret = secret /\ bridge'.paired = TRUE
  BY <1>1, Ranges DEF BridgeRec, Paired, PairingTorn
<1>3. RequestKept
  BY <1>1 DEF RequestKept, PInv, TypeOK, Statuses
<1>4. "locate" \in Awaits /\ "idle" \in Awaits
  BY DEF Awaits
<1>5. FlowKept
  BY <1>1, <1>4, GotoKept DEF FlowKept, PInv, TypeOK
<1> QED BY <1>1, <1>2, <1>3, <1>5, TroubleKept, KeepsPInv DEF BridgeKept

-----------------------------------------------------------------------------
(* The surroundings *)

LEMMA BridgeSteps ==
  ASSUME PInv, BridgeStops \/ BridgeStarts \/ Unplug \/ Plug
  PROVE  PInv'
<1>1. /\ UNCHANGED <<form, pc, made, status, stale, secret, session>> /\ (Trouble \/ Fine)
      /\ \E b \in BOOLEAN : bridge' = [bridge EXCEPT !.running = b] \/ bridge' = [bridge EXCEPT !.token = b]
  BY DEF BridgeStops, BridgeStarts, Unplug, Plug, Around
<1>2. BridgeKept
  BY <1>1, Ranges DEF BridgeKept, BridgeRec
<1>3. RequestKept /\ FlowKept
  BY <1>1 DEF RequestKept, FlowKept, PInv, TypeOK, Statuses
<1> QED BY <1>1, <1>2, <1>3, TroubleKept, KeepsPInv

LEMMA RequestSteps ==
  ASSUME PInv, GrowStale \/ ExpireStale \/ \E f \in Flows : SessionExpires(f)
  PROVE  PInv'
<1>1. UNCHANGED <<form, pc, made, secret, bridge>> /\ (Trouble \/ Fine)
  BY DEF GrowStale, ExpireStale, SessionExpires, Around
<1>2. status' \in Statuses /\ stale' \in BOOLEAN
  BY DEF GrowStale, ExpireStale, SessionExpires, PInv, TypeOK, Statuses
<1>3. session' \in [Flows -> {"none", "live", "gone"}]
  BY DEF GrowStale, ExpireStale, SessionExpires, PInv, TypeOK
<1>4. RequestKept /\ FlowKept
  BY <1>1, <1>2, <1>3 DEF RequestKept, FlowKept, PInv, TypeOK
<1> QED BY <1>1, <1>4, TroubleKept, SameBridge, KeepsPInv

LEMMA RotateStep == ASSUME PInv, Rotate PROVE PInv'
<1>1. /\ troubles > 0 /\ troubles' = troubles - 1 /\ secret' = secret + 1
      /\ UNCHANGED <<form, pc, made, status, stale, bridge, session>>
  BY DEF Rotate, Trouble, Around
<1>2. troubles' \in 0 .. MaxTroubles /\ secret' \in 1 .. MaxTroubles + 1 - troubles'
  BY <1>1, Ranges
<1>3. secret' \in Secrets /\ bridge'.secret <= secret'
  BY <1>1, <1>2, Ranges DEF Secrets
<1> QED BY <1>1, <1>2, <1>3 DEF PInv, TypeOK, SecretsConsistent

-----------------------------------------------------------------------------
(* Theorems *)

LEMMA InitPInv == Init => PInv
<1> SUFFICES ASSUME Init PROVE PInv
  OBVIOUS
<1>1. PICK paired \in BOOLEAN, s \in {0, 1} :
        /\ ~paired => s = 0
        /\ bridge = [running |-> TRUE, token |-> TRUE, paired |-> paired, torn |-> FALSE, secret |-> s]
  BY DEF Init
<1>2. {0, 1} \subseteq Secrets /\ secret = 1 /\ troubles = MaxTroubles /\ MaxTroubles \in Nat
  BY TroubleAssumption DEF Init, Secrets
<1>3. bridge \in [running : BOOLEAN, token : BOOLEAN, paired : BOOLEAN, torn : BOOLEAN,
                  secret : Secrets]
  BY <1>1, <1>2
<1>4. TypeOK
  <2>1. /\ status \in {"Pending", "In Progress", "Signed", "Failed"} /\ stale \in BOOLEAN
        /\ form \in [Flows -> [sign : BOOLEAN, retry : BOOLEAN]]
        /\ pc \in [Flows -> Awaits] /\ session \in [Flows -> {"none", "live", "gone"}]
    BY DEF Init, Awaits
  <2>2. made \in [Flows -> Secrets] /\ secret \in Secrets /\ troubles \in 0 .. MaxTroubles
    BY <1>2 DEF Init
  <2> QED BY <1>3, <2>1, <2>2 DEF TypeOK
<1>5. SecretsConsistent
  BY <1>1, <1>2 DEF SecretsConsistent
<1> QED BY <1>4, <1>5 DEF PInv

LEMMA NextPInv == PInv /\ [Next]_vars => PInv'
<1> SUFFICES ASSUME PInv, [Next]_vars PROVE PInv'
  OBVIOUS
<1>1. CASE Surroundings
  BY <1>1, RequestSteps, BridgeSteps, RotateStep, PairSteps DEF Surroundings
<1>2. ASSUME NEW f \in Flows, Proceed(f) PROVE PInv'
  BY <1>2, LocalSteps, FormSteps, PairSteps, InitiateSteps, FinalizeSteps DEF Proceed
<1>3. ASSUME NEW f \in Flows, Stop(f) PROVE PInv'
  BY <1>3, LocalSteps, PairSteps, InitiateSteps, FinalizeSteps DEF Stop
<1>4. ASSUME NEW f \in Flows, Refresh(f) \/ ClickRetry(f) \/ ClosePage(f) \/ SessionExpires(f)
      PROVE  PInv'
  BY <1>4, FormSteps, RequestSteps
<1>5. CASE UNCHANGED vars
  BY <1>5 DEF vars, PInv, TypeOK, SecretsConsistent
<1> QED BY <1>1, <1>2, <1>3, <1>4, <1>5 DEF Next

LEMMA PInvAlways == Spec => []PInv
  BY InitPInv, NextPInv, PTL DEF Spec

\* The pipeline keeps its types: in particular there are no more secrets than
\* rotations.
THEOREM TypeCorrect == Spec => []TypeOK
  BY PInvAlways, PTL DEF PInv

\* The bridge never has a secret the site did not have, nor a secret without
\* being paired (handlers.go 138-166, e_sign.js 388-411).
THEOREM SecretsAlwaysConsistent == Spec => []SecretsConsistent
  BY PInvAlways, PTL DEF PInv

\* No flow ends a mismatch of the secrets (e_sign.js 274-287).
THEOREM MismatchAlwaysOutlivesFlows == Spec => MismatchOutlivesFlows
<1>1. ASSUME PInv, [Next]_vars
      PROVE  [Mismatched /\ (\A f \in Flows : pc[f] # "pair") /\ ~PairThisComputer =>
                Mismatched' /\ (\A f \in Flows : pc'[f] # "pair")]_vars
  <2> SUFFICES ASSUME Mismatched, \A f \in Flows : pc[f] # "pair", ~PairThisComputer, Next
               PROVE  Mismatched' /\ (\A f \in Flows : pc'[f] # "pair")
    BY <1>1
  <2>1. bridge.paired /\ bridge.secret # 0 /\ bridge.secret # secret /\ bridge.secret <= secret
    BY <1>1 DEF Mismatched, PInv, SecretsConsistent
  <2>2. pc \in [Flows -> Awaits]
    BY <1>1 DEF PInv, TypeOK
  <2>3. Mismatched'
    <3>1. bridge'.secret = bridge.secret
      <4>1. UNCHANGED bridge \/ BridgeStops \/ BridgeStarts \/ Unplug \/ Plug
        BY DEF Next, Surroundings, Proceed, Stop, Refresh, Click, ClickRetry, ClosePage, Ping, Check,
               Pair, PairTorn, PairFails, Locate, LocationDenied, FetchCerts, Initiate, InitiateLost, Initiated,
               InitiateRefused, EnterPin, CancelPin, DismissPin, Sign, SignFails, Finalize,
               FinalizeLost, FinalizeFails, Finalized, FinalizeExpired, Abort, Done, GrowStale,
               ExpireStale, SessionExpires, Rotate, Local
      <4>2. bridge \in BridgeRec
        BY <1>1, Ranges
      <4> QED BY <4>1, <4>2 DEF BridgeStops, BridgeStarts, Unplug, Plug, BridgeRec
    <3>2. secret' = secret \/ secret' = secret + 1
      BY DEF Next, Surroundings, Proceed, Stop, Refresh, Click, ClickRetry, ClosePage, Ping, Check,
             Pair, PairTorn, PairFails, Locate, LocationDenied, FetchCerts, Initiate, InitiateLost, Initiated,
             InitiateRefused, EnterPin, CancelPin, DismissPin, Sign, SignFails, Finalize,
             FinalizeLost, FinalizeFails, Finalized, FinalizeExpired, Abort, Done, GrowStale,
             ExpireStale, SessionExpires, BridgeStops, BridgeStarts, Unplug, Plug, Rotate, Local
    <3> QED BY <1>1, <2>1, <3>1, <3>2, Ranges DEF Mismatched
  <2>4. ASSUME NEW g \in Flows PROVE pc'[g] # "pair"
    <3>1. UNCHANGED pc \/ \E f \in Flows : Check(f) \/ \E a \in Awaits \ {"pair"} : Goto(f, a)
      BY DEF Next, Surroundings, Proceed, Stop, Refresh, Click, ClickRetry, ClosePage, Ping,
             Pair, PairTorn, PairFails, Locate, LocationDenied, FetchCerts, Initiate, InitiateLost,
             InitiateRefused, EnterPin, CancelPin, DismissPin, Sign, SignFails, Finalize,
             FinalizeLost, FinalizeFails, FinalizeExpired, Abort, Done, GrowStale,
             ExpireStale, SessionExpires, BridgeStops, BridgeStarts, Unplug, Plug, Rotate, Around, Awaits
    <3>2. ASSUME NEW f \in Flows, Check(f) PROVE \E a \in Awaits \ {"pair"} : Goto(f, a)
      BY <2>1, <3>2 DEF Check, Awaits
    <3> QED BY <2>2, <3>1, <3>2 DEF Goto
  <2> QED BY <2>3, <2>4
<1> QED BY <1>1, PInvAlways, PTL DEF Spec, MismatchOutlivesFlows
=============================================================================
