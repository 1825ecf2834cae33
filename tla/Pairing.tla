------------------------------ MODULE Pairing ------------------------------
(***************************************************************************)
(* Pairing a bridge with sites, and the secret they share afterwards:      *)
(* api/agent.py and dsc_settings.py on the servers of the sites,           *)
(* HandlePair and the HMAC check of HandleSign (handlers.go) and the       *)
(* keystore (keystore.go) on the bridge.                                   *)
(*                                                                         *)
(* A pair request is a goroutine of the bridge that calls                  *)
(* validate_pairing_code and then stores what it got: the site token and   *)
(* the HMAC secret in the keychain of the operating system, or, while      *)
(* that is out of order, in a file that is read, changed and rewritten.    *)
(* Redis, the database and the keychain have no common transaction, and    *)
(* the mutex of the keystore covers AddSite but not SetHMACSecret.         *)
(***************************************************************************)
EXTENDS Integers

CONSTANTS
  Sites,     \* Frappe sites
  Codes,     \* one-time pairing codes
  SiteOf,    \* the site that makes a code; the browser posts it with its origin
  Pairs,     \* /v1/pair requests; a request also stands for the token it is given
  Signs,     \* signing attempts: an initiate call and its /v1/sign request
  NoPair, NoCode, NoSite,
  MaxEras    \* bound: HMAC secrets a site makes

ASSUME CodeAssumption == SiteOf \in [Codes -> Sites]
ASSUME NoneAssumption == NoPair \notin Pairs /\ NoCode \notin Codes /\ NoSite \notin Sites
ASSUME EraAssumption == MaxEras \in Nat \ {0}

VARIABLES
  codes,     \* the pairing codes in Redis
  regs,      \* pair requests with a committed DSC Agent Registration
  secret,    \* hmac_secret in DSC Settings; 0 is unset
  era,       \* how many secrets a site has stored so far; the n-th is the number n
  running,   \* the bridge process
  mu,        \* who holds Keystore.mu
  sites,     \* Keystore.sites
  disk,      \* paired_sites.json; "torn" while and after a write was cut short
  keychain, keychainUp,
  file,      \* paired_sites.json.tokens
  pair, sign

server == <<codes, regs, secret, era>>
store  == <<mu, sites, disk, keychain, file>>
vars   == <<server, running, store, keychainUp, pair, sign>>

Secrets == 0..MaxEras
Store   == [token : [Sites -> Pairs \cup {NoPair}], hmac : [Sites -> Secrets]]
Empty   == [token |-> [s \in Sites |-> NoPair], hmac |-> [s \in Sites |-> 0]]

\* pc: asked (the dialog), then on the server validating, taken (the code was
\* read), cleared (and deleted), registered, creating (no secret was there),
\* answered; on the bridge received, putting, loaded, truncated (the token or the secret on
\* its way to the keychain or the file), adding and saving (the metadata), done.
PairPCs == {"idle", "asked", "validating", "taken", "cleared", "registered", "creating",
            "answered", "received", "putting", "loaded", "truncated", "adding", "saving", "done"}
OnServer == {"validating", "taken", "cleared", "registered", "creating", "answered"}
Results == {"none", "OK", "UNAUTHORIZED", "INVALID_PAIRING_CODE", "INTERNAL_ERROR", "dropped"}

\* what: the key on its way; loaded: the token file as it was read; the local
\* variables of a goroutine that has ended are reset.
PairRec == [pc : PairPCs, code : Codes \cup {NoCode}, secret : Secrets,
            what : {"token", "hmac"}, loaded : Store, result : Results]

Verdicts == {"none", "passed", "refused", "mismatch"}
SignRec  == [pc : {"idle", "initiated", "creating", "issued", "done"},
             site : Sites \cup {NoSite}, mac : Secrets, verdict : Verdicts]

TypeOK ==
  /\ codes \in [Codes -> {"unmade", "stored", "gone"}]
  /\ regs \in SUBSET Pairs
  /\ secret \in [Sites -> Secrets] /\ era \in [Sites -> Secrets]
  /\ running \in BOOLEAN /\ keychainUp \in BOOLEAN
  /\ mu \in Pairs \cup {NoPair}
  /\ sites \in SUBSET Sites
  /\ disk \in [torn : BOOLEAN, sites : SUBSET Sites]
  /\ keychain \in Store /\ file \in Store
  /\ pair \in [Pairs -> PairRec]
  /\ sign \in [Signs -> SignRec]

Site(p) == SiteOf[pair[p].code]

Goto(p, pc) == pair' = [pair EXCEPT ![p].pc = pc]

\* The goroutine ends with an answer, unless it has answered before (SiteLost).
Answer(p, result) ==
  pair' = [pair EXCEPT ![p] =
    [@ EXCEPT !.pc = "done", !.secret = 0, !.what = "token", !.loaded = Empty,
              !.result = IF pair[p].result = "none" THEN result ELSE pair[p].result]]

-----------------------------------------------------------------------------
(* The server: pairing codes and the secret *)

GeneratePairingCode(c) ==
  /\ codes[c] = "unmade"
  /\ codes' = [codes EXCEPT ![c] = "stored"]
  /\ UNCHANGED <<regs, secret, era, running, store, keychainUp, pair, sign>>

\* _PAIRING_TTL_SECONDS are over.
CodeExpires(c) ==
  /\ codes[c] = "stored"
  /\ codes' = [codes EXCEPT ![c] = "gone"]
  /\ UNCHANGED <<regs, secret, era, running, store, keychainUp, pair, sign>>

\* An administrator clears the field in DSC Settings.
ClearSecret(s) ==
  /\ secret[s] # 0 /\ era[s] < MaxEras
  /\ secret' = [secret EXCEPT ![s] = 0]
  /\ UNCHANGED <<codes, regs, era, running, store, keychainUp, pair, sign>>

\* get_or_create_hmac_secret after it found no secret: doc.save() and the commit.
\* doc.save() refuses a record that was saved since it was read; that it would also
\* refuse one where a secret was made and cleared again meanwhile is left out.
CreateSecret(s) ==
  /\ secret[s] = 0 /\ era[s] < MaxEras
  /\ era' = [era EXCEPT ![s] = @ + 1]
  /\ secret' = [secret EXCEPT ![s] = era[s] + 1]

-----------------------------------------------------------------------------
(* validate_pairing_code, called by a pair request *)

CodeFound(p) ==
  /\ pair[p].pc = "validating" /\ codes[pair[p].code] = "stored"
  /\ Goto(p, "taken")
  /\ UNCHANGED <<server, running, store, keychainUp, sign>>

\* Mutant: the bridge passes the status of the site on.
CodeMissingRaw(p) ==
  /\ pair[p].pc = "validating" /\ codes[pair[p].code] # "stored"
  /\ Answer(p, "site returned status 417")
  /\ UNCHANGED <<server, running, store, keychainUp, sign>>

CodeMissing(p) ==
  /\ pair[p].pc = "validating" /\ codes[pair[p].code] # "stored"
  /\ Answer(p, "INVALID_PAIRING_CODE")
  /\ UNCHANGED <<server, running, store, keychainUp, sign>>

DeleteCode(p) ==
  /\ pair[p].pc = "taken"
  /\ codes' = [codes EXCEPT ![pair[p].code] = "gone"]
  /\ Goto(p, "cleared")
  /\ UNCHANGED <<regs, secret, era, running, store, keychainUp, sign>>

\* Mutant: the registration is left to the commit at the end of the request,
\* which a failing get_or_create_hmac_secret or a lost worker rolls back.
RegisterUncommitted(p) ==
  /\ pair[p].pc = "cleared"
  /\ Goto(p, "registered")
  /\ UNCHANGED <<server, running, store, keychainUp, sign>>

\* agent_reg.insert() and the commit.
Register(p) ==
  /\ pair[p].pc = "cleared"
  /\ regs' = regs \cup {p}
  /\ Goto(p, "registered")
  /\ UNCHANGED <<codes, secret, era, running, store, keychainUp, sign>>

\* get_or_create_hmac_secret finds a secret, or not.
ReadSecret(p) ==
  /\ pair[p].pc = "registered"
  /\ pair' = [pair EXCEPT ![p] =
                [@ EXCEPT !.pc = IF secret[Site(p)] # 0 THEN "answered" ELSE "creating",
                          !.secret = secret[Site(p)]]]
  /\ UNCHANGED <<server, running, store, keychainUp, sign>>

\* Mutant: the answer has a secret of its own, stored by nobody if another call
\* was faster.
SaveSecretAnyway(p) ==
  /\ pair[p].pc = "creating" /\ era[Site(p)] < MaxEras
  /\ pair' = [pair EXCEPT ![p] = [@ EXCEPT !.pc = "answered", !.secret = era[Site(p)] + 1]]
  /\ IF secret[Site(p)] = 0 THEN CreateSecret(Site(p)) ELSE UNCHANGED <<secret, era>>
  /\ UNCHANGED <<codes, regs, running, store, keychainUp, sign>>

SaveSecret(p) ==
  /\ pair[p].pc = "creating"
  /\ CreateSecret(Site(p))
  /\ pair' = [pair EXCEPT ![p] = [@ EXCEPT !.pc = "answered", !.secret = era[Site(p)] + 1]]
  /\ UNCHANGED <<codes, regs, running, store, keychainUp, sign>>

\* DSC Settings was saved by someone else since it was read: doc.save() throws,
\* the registration stays, the code is spent.
SaveSecretRefused(p) ==
  /\ pair[p].pc = "creating"
  /\ Answer(p, "INVALID_PAIRING_CODE")
  /\ UNCHANGED <<server, running, store, keychainUp, sign>>

-----------------------------------------------------------------------------
(* HandlePair *)

Post(p, c) ==
  /\ running
  /\ pair[p].pc = "idle" /\ codes[c] # "unmade"
  /\ pair' = [pair EXCEPT ![p] = [@ EXCEPT !.pc = "asked", !.code = c]]
  /\ UNCHANGED <<server, running, store, keychainUp, sign>>

Confirm(p) ==
  /\ pair[p].pc = "asked"
  /\ Goto(p, "validating") \/ Answer(p, "UNAUTHORIZED")
  /\ UNCHANGED <<server, running, store, keychainUp, sign>>

\* The connection to the site breaks; the call goes on there.
SiteLost(p) ==
  /\ pair[p].pc \in OnServer /\ pair[p].result = "none"
  /\ pair' = [pair EXCEPT ![p].result = "INVALID_PAIRING_CODE"]
  /\ UNCHANGED <<server, running, store, keychainUp, sign>>

\* The answer arrives, if somebody still waits for it.
Deliver(p) ==
  /\ pair[p].pc = "answered"
  /\ IF pair[p].result = "none" THEN Goto(p, "received") ELSE Answer(p, pair[p].result)
  /\ UNCHANGED <<server, running, store, keychainUp, sign>>

\* AddSite takes the mutex.
AddSite(p) ==
  /\ pair[p].pc = "received" /\ mu = NoPair
  /\ mu' = p
  /\ pair' = [pair EXCEPT ![p] = [@ EXCEPT !.pc = "putting", !.what = "token"]]
  /\ UNCHANGED <<server, running, sites, disk, keychain, file, keychainUp, sign>>

\* A store with the token or the secret of p in it.
With(st, p) ==
  IF pair[p].what = "token" THEN [st EXCEPT !.token[Site(p)] = p]
  ELSE [st EXCEPT !.hmac[Site(p)] = pair[p].secret]

\* The token is stored: on to the metadata.  The secret is stored: the answer.
Stored(p) ==
  IF pair[p].what = "token"
  THEN pair' = [pair EXCEPT ![p] = [@ EXCEPT !.pc = "adding", !.loaded = Empty]]
  ELSE Answer(p, "OK")

KeychainSet(p) ==
  /\ pair[p].pc = "putting" /\ keychainUp
  /\ keychain' = With(keychain, p)
  /\ Stored(p)
  /\ UNCHANGED <<server, running, mu, sites, disk, file, keychainUp, sign>>

\* setTokenFile: loadTokenFile.
LoadTokenFile(p) ==
  /\ pair[p].pc = "putting" /\ ~keychainUp
  /\ pair' = [pair EXCEPT ![p] = [@ EXCEPT !.pc = "loaded", !.loaded = file]]
  /\ UNCHANGED <<server, running, store, keychainUp, sign>>

\* os.WriteFile truncates the file, which loadTokenFile reads as an empty one.
TruncateTokenFile(p) ==
  /\ pair[p].pc = "loaded"
  /\ file' = Empty
  /\ Goto(p, "truncated")
  /\ UNCHANGED <<server, running, mu, sites, disk, keychain, keychainUp, sign>>

WriteTokenFile(p) ==
  /\ pair[p].pc = "truncated"
  /\ file' = With(pair[p].loaded, p)
  /\ Stored(p)
  /\ UNCHANGED <<server, running, mu, sites, disk, keychain, keychainUp, sign>>

\* Mutant: the early return keeps the mutex.
TokenFileFailsLocked(p) ==
  /\ pair[p].pc \in {"loaded", "truncated"}
  /\ Answer(p, IF pair[p].what = "token" THEN "INTERNAL_ERROR" ELSE "OK")
  /\ UNCHANGED <<server, running, store, keychainUp, sign>>

\* The file cannot be opened or written: AddSite gives up, a failing
\* SetHMACSecret is only logged.
TokenFileFails(p) ==
  /\ pair[p].pc \in {"loaded", "truncated"}
  /\ mu' = IF mu = p THEN NoPair ELSE mu
  /\ Answer(p, IF pair[p].what = "token" THEN "INTERNAL_ERROR" ELSE "OK")
  /\ UNCHANGED <<server, running, sites, disk, keychain, file, keychainUp, sign>>

\* Mutant: the map is written before the site is put into it.
SaveBeginsEarly(p) ==
  /\ pair[p].pc = "adding"
  /\ disk' = [torn |-> TRUE, sites |-> {}]
  /\ Goto(p, "saving")
  /\ UNCHANGED <<server, running, mu, sites, keychain, file, keychainUp, sign>>

\* The map entry, and save() up to the truncation by os.WriteFile.
SaveBegins(p) ==
  /\ pair[p].pc = "adding"
  /\ sites' = sites \cup {Site(p)}
  /\ disk' = [torn |-> TRUE, sites |-> {}]
  /\ Goto(p, "saving")
  /\ UNCHANGED <<server, running, mu, keychain, file, keychainUp, sign>>

\* The file is written, AddSite returns; SetHMACSecret takes no mutex.
SaveEnds(p) ==
  /\ pair[p].pc = "saving"
  /\ disk' = [torn |-> FALSE, sites |-> sites]
  /\ mu' = NoPair
  /\ pair' = [pair EXCEPT ![p] = [@ EXCEPT !.pc = "putting", !.what = "hmac"]]
  /\ UNCHANGED <<server, running, sites, keychain, file, keychainUp, sign>>

\* Mutant: a failing save is only logged, as a failing SetHMACSecret is.
SaveFailsLogged(p) ==
  /\ pair[p].pc \in {"adding", "saving"}
  /\ sites' = sites \cup {Site(p)}
  /\ mu' = NoPair
  /\ pair' = [pair EXCEPT ![p] = [@ EXCEPT !.pc = "putting", !.what = "hmac"]]
  /\ UNCHANGED <<server, running, disk, keychain, file, keychainUp, sign>>

\* The metadata cannot be opened (nothing was truncated then) or written; the map
\* entry stays.
SaveFails(p) ==
  /\ pair[p].pc \in {"adding", "saving"}
  /\ sites' = sites \cup {Site(p)}
  /\ mu' = NoPair
  /\ Answer(p, "INTERNAL_ERROR")
  /\ UNCHANGED <<server, running, disk, keychain, file, keychainUp, sign>>

-----------------------------------------------------------------------------
(* The process and the keychain *)

\* The bridge is quit or killed, and started again: NewKeystore reads the
\* metadata, and main gives up if it cannot be parsed.  Calls that run on a
\* server go on there.
Restart ==
  /\ running
  /\ running' = ~disk.torn
  /\ sites' = IF disk.torn THEN {} ELSE disk.sites
  /\ mu' = NoPair
  /\ pair' = [p \in Pairs |->
       IF pair[p].pc \in {"idle", "done"} \/ pair[p].result # "none" THEN pair[p]
       ELSE IF pair[p].pc \in OnServer THEN [pair[p] EXCEPT !.result = "dropped"]
       ELSE [pair[p] EXCEPT !.result = "dropped", !.pc = "done",
                            !.secret = 0, !.what = "token", !.loaded = Empty]]
  /\ UNCHANGED <<server, disk, keychain, file, keychainUp, sign>>

\* The keychain gets locked or unlocked, its daemon stops or starts.
KeychainChanges ==
  /\ keychainUp' = ~keychainUp
  /\ UNCHANGED <<server, running, store, pair, sign>>

-----------------------------------------------------------------------------
(* Keystore.HMACSecret and the check of a signing request *)

HMACSecret(s) ==
  IF keychainUp /\ keychain.hmac[s] # 0 THEN keychain.hmac[s] ELSE file.hmac[s]

\* initiate reads the secret; if there is none it makes one.
Initiate(g, s) ==
  /\ sign[g].pc = "idle"
  /\ sign' = [sign EXCEPT ![g] =
                [@ EXCEPT !.pc = IF secret[s] # 0 THEN "issued" ELSE "initiated",
                          !.site = s, !.mac = secret[s]]]
  /\ UNCHANGED <<server, running, store, keychainUp, pair>>

InitiateCreates(g) ==
  /\ sign[g].pc = "initiated"
  /\ CreateSecret(sign[g].site)
  /\ sign' = [sign EXCEPT ![g] = [@ EXCEPT !.pc = "issued", !.mac = era[sign[g].site] + 1]]
  /\ UNCHANGED <<codes, regs, running, store, keychainUp, pair>>

\* The save is refused as in SaveSecretRefused, and the call fails.
InitiateRefused(g) ==
  /\ sign[g].pc = "initiated"
  /\ sign' = [sign EXCEPT ![g].pc = "done"]
  /\ UNCHANGED <<server, running, store, keychainUp, pair>>

\* securityMiddleware: the origin must be paired; the browser sends no site token.
IsPairedSite(s) == s \in sites

\* verifyHMAC: any HMAC can be refused for its age, as more than 60 seconds may
\* pass while the PIN is typed.
VerifyHMAC(own, mac) ==
  IF own = mac THEN {"passed", "refused"} ELSE {"mismatch", "refused"}

\* The middleware takes the mutex for reading; HandleSign skips the check of the
\* HMAC if there is no secret.
Verify(g) ==
  LET s == sign[g].site
      own == HMACSecret(s) IN
  /\ running /\ mu = NoPair
  /\ sign[g].pc = "issued"
  /\ \E v \in IF ~IsPairedSite(s) THEN {"refused"}
              ELSE IF own = 0 THEN {"passed"} ELSE VerifyHMAC(own, sign[g].mac) :
       sign' = [sign EXCEPT ![g] = [@ EXCEPT !.pc = "done", !.mac = 0, !.verdict = v]]
  /\ UNCHANGED <<server, running, store, keychainUp, pair>>

-----------------------------------------------------------------------------
(* Specification *)

Init ==
  /\ codes = [c \in Codes |-> "unmade"]
  /\ regs = {}
  /\ secret = [s \in Sites |-> 0] /\ era = [s \in Sites |-> 0]
  /\ running = TRUE /\ keychainUp \in BOOLEAN
  /\ mu = NoPair
  /\ sites = {}
  /\ disk = [torn |-> FALSE, sites |-> {}]
  /\ keychain = Empty /\ file = Empty
  /\ pair = [p \in Pairs |-> [pc |-> "idle", code |-> NoCode, secret |-> 0, what |-> "token",
                              loaded |-> Empty, result |-> "none"]]
  /\ sign = [g \in Signs |-> [pc |-> "idle", site |-> NoSite, mac |-> 0, verdict |-> "none"]]

\* What the goroutine of a pair request and the call it makes do.
PairStep(p) ==
  \/ Confirm(p) \/ SiteLost(p)
  \/ CodeFound(p) \/ CodeMissing(p) \/ DeleteCode(p) \/ Register(p)
  \/ ReadSecret(p) \/ SaveSecret(p) \/ SaveSecretRefused(p)
  \/ Deliver(p) \/ AddSite(p) \/ KeychainSet(p)
  \/ LoadTokenFile(p) \/ TruncateTokenFile(p) \/ WriteTokenFile(p) \/ TokenFileFails(p)
  \/ SaveBegins(p) \/ SaveEnds(p) \/ SaveFails(p)

SignStep(g) ==
  (\E s \in Sites : Initiate(g, s)) \/ InitiateCreates(g) \/ InitiateRefused(g) \/ Verify(g)

Next ==
  \/ \E c \in Codes : GeneratePairingCode(c) \/ CodeExpires(c)
  \/ \E s \in Sites : ClearSecret(s)
  \/ \E p \in Pairs, c \in Codes : Post(p, c)
  \/ \E p \in Pairs : PairStep(p)
  \/ \E g \in Signs : SignStep(g)
  \/ Restart
  \/ KeychainChanges

Spec == Init /\ [][Next]_vars

-----------------------------------------------------------------------------
(* Properties *)

\* p is inside AddSite.
InAddSite(p) ==
  \/ pair[p].pc \in {"adding", "saving"}
  \/ pair[p].pc \in {"putting", "loaded", "truncated"} /\ pair[p].what = "token"

\* p has returned from AddSite.
PastAddSite(p) ==
  \/ pair[p].pc \in {"putting", "loaded", "truncated"} /\ pair[p].what = "hmac"
  \/ pair[p].result = "OK"

\* The mutex is held by the request that is inside AddSite and by nobody else: no
\* error path and no restart leaves it locked, so requests for other sites, and the
\* signing requests that wait for it, go on (keystore.go 75-91).
MutexHasOwner == \A p \in Pairs : mu = p <=> InAddSite(p)

\* Every site token on a bridge, in the keychain, in the file or on its way there,
\* has a committed registration: "we must not hand out a token that has no durable
\* registration" (agent.py 117-120), whichever step of the pairing fails.
TokensAreRegistered ==
  /\ \A s \in Sites : {keychain.token[s], file.token[s]} \subseteq regs \cup {NoPair}
  /\ \A p \in Pairs :
       /\ pair[p].pc \in {"registered", "creating", "answered", "received"} => p \in regs
       /\ InAddSite(p) => p \in regs
       /\ \A s \in Sites : pair[p].loaded.token[s] \in regs \cup {NoPair}

\* Every secret a bridge or an initiate call has was stored in DSC Settings first:
\* "the stored value must be durable first" (dsc_settings.py 32-35), although pairings
\* and initiate calls may find no secret at the same time and all make one.
SecretsAreDurable ==
  /\ \A s \in Sites :
       secret[s] <= era[s] /\ keychain.hmac[s] <= era[s] /\ file.hmac[s] <= era[s]
  /\ \A p \in Pairs :
       /\ pair[p].code # NoCode => pair[p].secret <= era[Site(p)]
       /\ \A s \in Sites : pair[p].loaded.hmac[s] <= era[s]
  /\ \A g \in Signs : sign[g].site # NoSite => sign[g].mac <= era[sign[g].site]

\* The bridge refuses the HMAC of a request only after somebody cleared the secret
\* in DSC Settings: as long as a site has made one secret, both sides have that one,
\* whoever made it (handlers.go 275-284, dsc_settings.py 22-36).
MismatchMeansRotation ==
  \A g \in Signs : sign[g].verdict = "mismatch" => era[sign[g].site] > 1

\* A pairing that was answered with success survives: the site is paired while the
\* bridge runs, and it is in the file the next start reads, unless the last write of
\* that file was cut short (keystore.go 90-91, 212-218; keystore_test.go 101-130).
AckedSiteIsKept ==
  \A p \in Pairs : PastAddSite(p) =>
    /\ running => Site(p) \in sites
    /\ disk.torn \/ Site(p) \in disk.sites

\* The part that makes the invariants above inductive: what a request knows.  It
\* has a code once it was posted; while the bridge runs it, it has not answered,
\* and the bridge runs as long as somebody waits for an answer; a save that has
\* begun has put the site into the map; an HMAC was made with a secret.
PairConsistent(p) ==
  /\ pair[p].pc = "idle" => pair[p].secret = 0 /\ pair[p].result = "none"
  /\ pair[p].pc # "idle" => pair[p].code \in Codes
  /\ pair[p].pc \notin OnServer \cup {"done"} => pair[p].result = "none"
  /\ pair[p].pc \notin {"idle", "done"} /\ pair[p].result = "none" => running
  /\ pair[p].pc = "saving" => Site(p) \in sites
  /\ pair[p].result = "OK" => pair[p].pc = "done"

SignConsistent(g) ==
  /\ sign[g].pc # "idle" => sign[g].site \in Sites
  /\ sign[g].pc = "idle" => sign[g].verdict = "none"
  /\ sign[g].pc = "issued" => sign[g].mac # 0

PairsConsistent == (\A p \in Pairs : PairConsistent(p)) /\ (\A g \in Signs : SignConsistent(g))
=============================================================================
