--------------------------- MODULE Pairing_proofs ---------------------------
(***************************************************************************)
(* Proofs about Pairing, for any number of sites, codes, pair requests,    *)
(* signing attempts and secrets.                                           *)
(***************************************************************************)
EXTENDS Pairing, TLAPS

-----------------------------------------------------------------------------
(* What the writes of a request do to it *)

\* Only request p changes, and the requests keep their type.
Only(p) ==
  /\ pair' \in [Pairs -> PairRec]
  /\ \A q \in Pairs \ {p} : pair'[q] = pair[q]

\* Request p still has the code it came with.
Keeps(p) == Only(p) /\ pair'[p].code = pair[p].code

LEMMA EmptyIsStore == Empty \in Store
BY NoneAssumption, EraAssumption DEF Empty, Store, Secrets

LEMMA GotoForm ==
  ASSUME TypeOK, NEW p \in Pairs, NEW pc \in PairPCs, Goto(p, pc)
  PROVE  /\ Keeps(p) /\ pair'[p].pc = pc /\ pair'[p].secret = pair[p].secret
         /\ pair'[p].what = pair[p].what /\ pair'[p].loaded = pair[p].loaded
         /\ pair'[p].result = pair[p].result
BY DEF TypeOK, PairRec, Goto, Keeps, Only

LEMMA AnswerForm ==
  ASSUME TypeOK, NEW p \in Pairs, NEW result \in Results, Answer(p, result)
  PROVE  /\ Keeps(p) /\ pair'[p].pc = "done" /\ pair'[p].secret = 0
         /\ pair'[p].what = "token" /\ pair'[p].loaded = Empty
         /\ pair'[p].result = IF pair[p].result = "none" THEN result ELSE pair[p].result
<1>1. "done" \in PairPCs /\ 0 \in Secrets
  BY EraAssumption DEF PairPCs, Secrets
<1> DEFINE r == IF pair[p].result = "none" THEN result ELSE pair[p].result
<1>2. r \in Results
  BY DEF TypeOK, PairRec
<1>3. pair' = [pair EXCEPT ![p] = [@ EXCEPT !.pc = "done", !.secret = 0, !.what = "token",
                                            !.loaded = Empty, !.result = r]]
  BY DEF Answer
<1> HIDE DEF r
<1>4. /\ Keeps(p) /\ pair'[p].pc = "done" /\ pair'[p].secret = 0
      /\ pair'[p].what = "token" /\ pair'[p].loaded = Empty /\ pair'[p].result = r
  BY <1>1, <1>2, <1>3, EmptyIsStore DEF TypeOK, PairRec, Keeps, Only
<1> QED BY <1>4 DEF r

\* The other writes: a place, a secret, what is stored, a loaded file, a result.
LEMMA SecretForm ==
  ASSUME TypeOK, NEW p \in Pairs, NEW pc \in PairPCs, NEW n \in Secrets,
         pair' = [pair EXCEPT ![p] = [@ EXCEPT !.pc = pc, !.secret = n]]
  PROVE  /\ Keeps(p) /\ pair'[p].pc = pc /\ pair'[p].secret = n
         /\ pair'[p].what = pair[p].what /\ pair'[p].loaded = pair[p].loaded
         /\ pair'[p].result = pair[p].result
BY DEF TypeOK, PairRec, Keeps, Only

LEMMA PuttingForm ==
  ASSUME TypeOK, NEW p \in Pairs, NEW w \in {"token", "hmac"},
         pair' = [pair EXCEPT ![p] = [@ EXCEPT !.pc = "putting", !.what = w]]
  PROVE  /\ Keeps(p) /\ pair'[p].pc = "putting" /\ pair'[p].what = w
         /\ pair'[p].secret = pair[p].secret /\ pair'[p].loaded = pair[p].loaded
         /\ pair'[p].result = pair[p].result
<1>1. "putting" \in PairPCs
  BY DEF PairPCs
<1> QED BY <1>1 DEF TypeOK, PairRec, Keeps, Only

LEMMA LoadedForm ==
  ASSUME TypeOK, NEW p \in Pairs, NEW pc \in PairPCs, NEW st \in Store,
         pair' = [pair EXCEPT ![p] = [@ EXCEPT !.pc = pc, !.loaded = st]]
  PROVE  /\ Keeps(p) /\ pair'[p].pc = pc /\ pair'[p].loaded = st
         /\ pair'[p].secret = pair[p].secret /\ pair'[p].what = pair[p].what
         /\ pair'[p].result = pair[p].result
BY DEF TypeOK, PairRec, Keeps, Only

LEMMA ResultForm ==
  ASSUME TypeOK, NEW p \in Pairs, NEW r \in Results,
         pair' = [pair EXCEPT ![p].result = r]
  PROVE  /\ Keeps(p) /\ pair'[p].pc = pair[p].pc /\ pair'[p].result = r
         /\ pair'[p].secret = pair[p].secret /\ pair'[p].what = pair[p].what
         /\ pair'[p].loaded = pair[p].loaded
BY DEF TypeOK, PairRec, Keeps, Only

LEMMA PostForm ==
  ASSUME TypeOK, NEW p \in Pairs, NEW c \in Codes,
         pair' = [pair EXCEPT ![p] = [@ EXCEPT !.pc = "asked", !.code = c]]
  PROVE  /\ Only(p) /\ pair'[p].pc = "asked" /\ pair'[p].code = c
         /\ pair'[p].secret = pair[p].secret /\ pair'[p].what = pair[p].what
         /\ pair'[p].loaded = pair[p].loaded /\ pair'[p].result = pair[p].result
<1>1. "asked" \in PairPCs
  BY DEF PairPCs
<1> QED BY <1>1 DEF TypeOK, PairRec, Only

\* What With puts into a store.
LEMMA WithForm ==
  ASSUME TypeOK, NEW p \in Pairs, NEW st \in Store, Site(p) \in Sites
  PROVE  /\ With(st, p) \in Store
         /\ \A s \in Sites :
              /\ With(st, p).token[s] \in {st.token[s], p}
              /\ With(st, p).hmac[s] = st.hmac[s]
                   \/ (s = Site(p) /\ With(st, p).hmac[s] = pair[p].secret)
              /\ With(st, p).token[s] # st.token[s] => pair[p].what = "token"
<1>1. pair[p].secret \in Secrets
  BY DEF TypeOK, PairRec
<1>2. CASE pair[p].what = "token"
  BY <1>2 DEF With, Store
<1>3. CASE pair[p].what # "token"
  BY <1>1, <1>3 DEF With, Store
<1> QED BY <1>2, <1>3

-----------------------------------------------------------------------------
(* The inductive invariant *)

Main ==
  /\ TypeOK /\ PairsConsistent /\ MutexHasOwner /\ TokensAreRegistered
  /\ SecretsAreDurable /\ AckedSiteIsKept /\ MismatchMeansRotation

\* What it says of one request, of one store and of one signing attempt.
RegisteredPair(p) ==
  /\ pair[p].pc \in {"registered", "creating", "answered", "received"} => p \in regs
  /\ InAddSite(p) => p \in regs
  /\ \A s \in Sites : pair[p].loaded.token[s] \in regs \cup {NoPair}

DurablePair(p) ==
  /\ pair[p].code # NoCode => pair[p].secret <= era[Site(p)]
  /\ \A s \in Sites : pair[p].loaded.hmac[s] <= era[s]

KeptPair(p) ==
  PastAddSite(p) => (running => Site(p) \in sites) /\ (disk.torn \/ Site(p) \in disk.sites)

PairInv(p) ==
  /\ PairConsistent(p)
  /\ mu = p <=> InAddSite(p)
  /\ RegisteredPair(p) /\ DurablePair(p) /\ KeptPair(p)

SignInv(g) ==
  /\ SignConsistent(g)
  /\ sign[g].site # NoSite => sign[g].mac <= era[sign[g].site]
  /\ sign[g].verdict = "mismatch" => era[sign[g].site] > 1

StoreInv ==
  \A s \in Sites :
    /\ keychain.token[s] \in regs \cup {NoPair} /\ file.token[s] \in regs \cup {NoPair}
    /\ secret[s] <= era[s] /\ keychain.hmac[s] <= era[s] /\ file.hmac[s] <= era[s]

PairsInv == \A p \in Pairs : PairInv(p)
SignsInv == \A g \in Signs : SignInv(g)

LEMMA MainSplit == Main <=> TypeOK /\ StoreInv /\ PairsInv /\ SignsInv
<1>1. ASSUME Main PROVE TypeOK /\ StoreInv
  BY <1>1 DEF Main, StoreInv, TokensAreRegistered, SecretsAreDurable
<1>2. ASSUME Main, NEW p \in Pairs PROVE PairInv(p)
  <2>1. PairConsistent(p) /\ (mu = p <=> InAddSite(p))
    BY <1>2 DEF Main, PairsConsistent, MutexHasOwner
  <2>2. RegisteredPair(p)
    BY <1>2 DEF Main, TokensAreRegistered, RegisteredPair
  <2>3. DurablePair(p)
    BY <1>2 DEF Main, SecretsAreDurable, DurablePair
  <2>4. KeptPair(p)
    BY <1>2 DEF Main, AckedSiteIsKept, KeptPair
  <2> QED BY <2>1, <2>2, <2>3, <2>4 DEF PairInv
<1>3. ASSUME Main, NEW g \in Signs PROVE SignInv(g)
  BY <1>3 DEF Main, PairsConsistent, SecretsAreDurable, MismatchMeansRotation, SignInv
<1>4. ASSUME TypeOK, StoreInv, PairsInv, SignsInv PROVE Main
  <2>1. PairsConsistent /\ MutexHasOwner
    BY <1>4 DEF PairsInv, SignsInv, PairsConsistent, MutexHasOwner, PairInv, SignInv
  <2>2. TokensAreRegistered
    BY <1>4 DEF PairsInv, TokensAreRegistered, StoreInv, PairInv, RegisteredPair
  <2>3. SecretsAreDurable
    BY <1>4 DEF PairsInv, SignsInv, SecretsAreDurable, StoreInv, PairInv, DurablePair, SignInv
  <2>4. AckedSiteIsKept /\ MismatchMeansRotation
    BY <1>4 DEF PairsInv, SignsInv, AckedSiteIsKept, MismatchMeansRotation, PairInv, KeptPair, SignInv
  <2> QED BY <1>4, <2>1, <2>2, <2>3, <2>4 DEF Main
<1> QED BY <1>1, <1>2, <1>3, <1>4 DEF PairsInv, SignsInv

-----------------------------------------------------------------------------
(* What a step of one request leaves true of everything else *)

\* Registrations and secrets only become more, sites stay in the map of a running
\* bridge, and the metadata file stays, is torn or gets the whole map.
Grows ==
  /\ regs \subseteq regs' /\ \A s \in Sites : era[s] <= era'[s]
  /\ running' = running /\ sites \subseteq sites'
  /\ disk' = disk \/ disk'.torn \/ (running /\ disk'.sites = sites)

LEMMA OtherPair ==
  ASSUME TypeOK, TypeOK', NEW q \in Pairs, PairInv(q),
         pair'[q] = pair[q], Grows, mu' = q <=> mu = q
  PROVE  PairInv(q)'
<1>1. Site(q)' = Site(q) /\ (InAddSite(q)' <=> InAddSite(q))
      /\ (PastAddSite(q)' <=> PastAddSite(q))
  BY DEF Site, InAddSite, PastAddSite
<1>2. PairConsistent(q)'
  BY <1>1 DEF PairInv, PairConsistent, Grows
<1>3. RegisteredPair(q)'
  BY <1>1 DEF PairInv, RegisteredPair, Grows
<1>4. DurablePair(q)'
  <2>1. pair[q].code # NoCode => Site(q) \in Sites
    BY CodeAssumption DEF TypeOK, PairRec, Site
  <2>2. pair[q].secret \in Nat /\ \A s \in Sites : era[s] \in Nat /\ era'[s] \in Nat
    BY DEF TypeOK, PairRec, Secrets
  <2>3. \A s \in Sites : pair[q].loaded.hmac[s] \in Nat
    BY DEF TypeOK, PairRec, Store, Secrets
  <2> QED BY <1>1, <2>1, <2>2, <2>3 DEF PairInv, DurablePair, Grows
<1>5. KeptPair(q)'
  BY <1>1 DEF PairInv, KeptPair, Grows
<1> QED BY <1>1, <1>2, <1>3, <1>4, <1>5 DEF PairInv

LEMMA SignsKept ==
  ASSUME TypeOK, TypeOK', NEW g \in Signs, SignInv(g), sign'[g] = sign[g],
         \A s \in Sites : era[s] <= era'[s]
  PROVE  SignInv(g)'
<1>1. SignConsistent(g)'
  BY DEF SignInv, SignConsistent
<1>2. sign[g].site # NoSite => sign[g].site \in Sites
  BY DEF TypeOK, SignRec
<1>3. sign[g].mac \in Nat /\ \A s \in Sites : era[s] \in Nat /\ era'[s] \in Nat
  BY DEF TypeOK, SignRec, Secrets
<1>4. sign[g].verdict = "mismatch" => sign[g].site # NoSite
  BY <1>2, NoneAssumption DEF SignInv, SignConsistent
<1> QED BY <1>1, <1>2, <1>3, <1>4 DEF SignInv

\* The stores of the bridge as a step of p may change them.
PutInto(st, new, p) ==
  \/ new = st
  \/ new = Empty
  \/ new = With(st, p)
  \/ new = With(pair[p].loaded, p)

LEMMA StoreStep ==
  ASSUME TypeOK, TypeOK', StoreInv, NEW p \in Pairs, PairInv(p), pair[p].code \in Codes,
         pair[p].what = "token" => p \in regs,
         PutInto(keychain, keychain', p), PutInto(file, file', p),
         regs \subseteq regs', UNCHANGED <<secret, era>>
  PROVE  StoreInv'
<1>1. ASSUME NEW st \in Store, NEW new, PutInto(st, new, p), NEW s \in Sites,
             st.token[s] \in regs \cup {NoPair}, st.hmac[s] <= era[s]
      PROVE  new.token[s] \in regs \cup {NoPair} /\ new.hmac[s] <= era[s]
  <2>1. Site(p) \in Sites
    BY CodeAssumption DEF Site
  <2>2. pair[p].secret <= era[Site(p)]
    BY NoneAssumption DEF PairInv, DurablePair
  <2>3. CASE new = Empty
    <3>1. era[s] \in Nat
      BY DEF TypeOK, Secrets
    <3> QED BY <2>3, <3>1 DEF Empty
  <2>4. CASE new = With(st, p)
    BY <1>1, <2>1, <2>2, <2>4, WithForm
  <2>5. CASE new = With(pair[p].loaded, p)
    <3>1. pair[p].loaded \in Store
      BY DEF TypeOK, PairRec
    <3>2. pair[p].loaded.token[s] \in regs \cup {NoPair} /\ pair[p].loaded.hmac[s] <= era[s]
      BY DEF PairInv, RegisteredPair, DurablePair
    <3> QED BY <2>1, <2>2, <2>5, <3>1, <3>2, WithForm
  <2> QED BY <1>1, <2>3, <2>4, <2>5 DEF PutInto
<1>2. keychain \in Store /\ file \in Store
  BY DEF TypeOK
<1> QED BY <1>1, <1>2 DEF StoreInv

\* A step of p that leaves the signing attempts alone.
LEMMA PairMoves ==
  ASSUME Main, TypeOK', NEW p \in Pairs, Only(p), Grows,
         \A q \in Pairs \ {p} : mu' = q <=> mu = q,
         StoreInv', PairInv(p)', UNCHANGED sign
  PROVE  Main'
<1>1. TypeOK /\ (\A q \in Pairs : PairInv(q)) /\ (\A g \in Signs : SignInv(g))
  BY MainSplit DEF PairsInv, SignsInv
<1>2. \A q \in Pairs \ {p} : PairInv(q)'
  BY <1>1, OtherPair DEF Only
<1>3. \A g \in Signs : SignInv(g)'
  BY <1>1, SignsKept DEF Grows
<1>4. (TypeOK /\ StoreInv /\ PairsInv /\ SignsInv)'
  BY <1>2, <1>3 DEF PairsInv, SignsInv
<1> QED BY <1>4, MainSplit, PTL

\* A step of p that changes nothing but the request.
LEMMA QuietMove ==
  ASSUME Main, NEW p \in Pairs, Only(p), PairInv(p)',
         UNCHANGED <<server, running, store, keychainUp, sign>>
  PROVE  Main'
<1>1. UNCHANGED <<codes, regs, secret, era, running, mu, sites, disk, keychain, file, keychainUp, sign>>
  BY DEF server, store
<1>2. TypeOK'
  BY <1>1 DEF Main, TypeOK, Only
<1>3. Grows
  BY <1>1 DEF Grows, Main, TypeOK, Secrets
<1>4. StoreInv'
  BY <1>1, MainSplit DEF StoreInv
<1> QED BY <1>1, <1>2, <1>3, <1>4, PairMoves

-----------------------------------------------------------------------------
(* The steps of a pair request *)

LEMMA Here ==
  ASSUME Main, NEW p \in Pairs, pair[p].pc # "idle"
  PROVE  /\ TypeOK /\ PairInv(p) /\ StoreInv
         /\ pair[p].code \in Codes /\ pair[p].code # NoCode /\ Site(p) \in Sites
<1>1. TypeOK /\ PairInv(p) /\ StoreInv
  BY MainSplit DEF PairsInv
<1>2. pair[p].code \in Codes
  BY <1>1 DEF PairInv, PairConsistent
<1> QED BY <1>1, <1>2, NoneAssumption, CodeAssumption DEF Site

\* The file p has loaded, or none, and the secret it was given, or none, are fine
\* after any step that takes back no registration and no secret.
LEMMA KeepsData ==
  ASSUME TypeOK, NEW p \in Pairs, PairInv(p), Keeps(p), pair[p].code \in Codes,
         pair'[p].loaded \in {pair[p].loaded, Empty}, pair'[p].secret \in {pair[p].secret, 0},
         regs \subseteq regs', UNCHANGED era
  PROVE  DurablePair(p)' /\ \A s \in Sites : pair'[p].loaded.token[s] \in regs' \cup {NoPair}
<1>1. pair[p].code # NoCode /\ Site(p)' = Site(p) /\ Site(p) \in Sites
  BY NoneAssumption, CodeAssumption DEF Site, Keeps
<1>2. \A s \in Sites : era[s] \in Nat
  BY DEF TypeOK, Secrets
<1>3. \A s \in Sites : Empty.token[s] = NoPair /\ Empty.hmac[s] = 0
  BY DEF Empty
<1> QED BY <1>1, <1>2, <1>3 DEF PairInv, DurablePair, RegisteredPair

\* p goes on to a place where it holds no mutex, on the server or in the dialog.
LEMMA ServerMove ==
  ASSUME Main, NEW p \in Pairs, pair[p].pc \in OnServer \cup {"asked"}, Keeps(p),
         pair'[p].pc \in OnServer \cup {"received"},
         pair'[p].result = pair[p].result \/ (pair'[p].pc \in OnServer
                                               /\ pair'[p].result \notin {"none", "OK"}),
         pair'[p].pc = "received" => pair[p].result = "none",
         pair'[p].pc \in {"registered", "creating", "answered", "received"} => p \in regs',
         pair'[p].loaded = pair[p].loaded,
         DurablePair(p)', regs \subseteq regs',
         UNCHANGED <<running, store>>
  PROVE  PairInv(p)'
<1>1. TypeOK /\ PairInv(p) /\ pair[p].code \in Codes /\ Site(p)' = Site(p)
  BY Here DEF OnServer, Keeps, Site
<1>2. ~InAddSite(p) /\ ~InAddSite(p)' /\ mu' = mu
  BY DEF InAddSite, OnServer, store
<1>3. pair[p].result # "OK"
  BY <1>1 DEF PairInv, PairConsistent, OnServer
<1>4. ~PastAddSite(p)'
  BY <1>3 DEF PastAddSite, OnServer
<1>5. PairConsistent(p)'
  BY <1>1, <1>3 DEF PairInv, PairConsistent, OnServer, Keeps
<1>6. RegisteredPair(p)'
  BY <1>1, <1>2 DEF PairInv, RegisteredPair
<1>7. KeptPair(p)'
  BY <1>4 DEF KeptPair
<1>8. (mu = p <=> InAddSite(p))'
  BY <1>1, <1>2 DEF PairInv
<1> QED BY <1>5, <1>6, <1>7, <1>8 DEF PairInv

\* p ends without success, inside AddSite or not.
LEMMA EndPairInv ==
  ASSUME Main, NEW p \in Pairs, pair[p].pc \notin {"idle", "done"},
         NEW r \in Results \ {"none", "OK"}, Answer(p, r),
         regs \subseteq regs', UNCHANGED era, mu' # p
  PROVE  Only(p) /\ PairInv(p)'
<1>1. TypeOK /\ PairInv(p) /\ pair[p].code \in Codes
  BY Here
<1>2. /\ Keeps(p) /\ pair'[p].pc = "done" /\ pair'[p].secret = 0
      /\ pair'[p].what = "token" /\ pair'[p].loaded = Empty
      /\ pair'[p].result = IF pair[p].result = "none" THEN r ELSE pair[p].result
  BY <1>1, AnswerForm
<1>3. DurablePair(p)' /\ \A s \in Sites : pair'[p].loaded.token[s] \in regs' \cup {NoPair}
  BY <1>1, <1>2, KeepsData
<1>4. ~InAddSite(p)'
  BY <1>2 DEF InAddSite
<1>5. RegisteredPair(p)'
  BY <1>2, <1>3, <1>4 DEF RegisteredPair
<1>6. PairConsistent(p)'
  BY <1>1, <1>2 DEF PairConsistent, OnServer, Keeps
<1>7. ~PastAddSite(p)'
  BY <1>1, <1>2 DEF PastAddSite, PairInv, PairConsistent
<1> QED BY <1>2, <1>3, <1>4, <1>5, <1>6, <1>7 DEF PairInv, KeptPair, Keeps

LEMMA PostStep ==
  ASSUME Main, NEW p \in Pairs, NEW c \in Codes, Post(p, c)
  PROVE  Main'
<1>1. /\ pair[p].pc = "idle" /\ running
      /\ pair' = [pair EXCEPT ![p] = [@ EXCEPT !.pc = "asked", !.code = c]]
      /\ UNCHANGED <<server, running, store, keychainUp, sign>>
  BY DEF Post
<1>2. TypeOK /\ PairInv(p)
  BY MainSplit DEF PairsInv
<1>3. /\ Only(p) /\ pair'[p].pc = "asked" /\ pair'[p].code = c
      /\ pair'[p].secret = pair[p].secret /\ pair'[p].what = pair[p].what
      /\ pair'[p].loaded = pair[p].loaded /\ pair'[p].result = pair[p].result
  BY <1>1, <1>2, PostForm
<1>4. Site(p)' \in Sites /\ \A s \in Sites : era[s] \in Nat
  BY <1>2, <1>3, CodeAssumption DEF Site, TypeOK, Secrets
<1>5. UNCHANGED <<regs, era, mu, running>>
  BY <1>1 DEF server, store
<1>6. ~InAddSite(p) /\ ~InAddSite(p)' /\ ~PastAddSite(p)'
  BY <1>1, <1>2, <1>3 DEF InAddSite, PastAddSite, PairInv, PairConsistent
<1>7. PairConsistent(p)'
  BY <1>1, <1>2, <1>3 DEF PairInv, PairConsistent, OnServer
<1>8. DurablePair(p)' /\ RegisteredPair(p)'
  BY <1>1, <1>2, <1>3, <1>4, <1>5, <1>6
  DEF PairInv, PairConsistent, DurablePair, RegisteredPair
<1>9. PairInv(p)'
  BY <1>2, <1>5, <1>6, <1>7, <1>8 DEF PairInv, KeptPair
<1> QED BY <1>1, <1>3, <1>9, QuietMove

\* A step that only ends a request.
LEMMA EndStep ==
  ASSUME Main, NEW p \in Pairs, pair[p].pc \in OnServer \cup {"asked"},
         NEW r \in Results \ {"none", "OK"}, Answer(p, r),
         UNCHANGED <<server, running, store, keychainUp, sign>>
  PROVE  Main'
<1>1. UNCHANGED <<regs, era, mu>>
  BY DEF server, store
<1>2. mu # p
  BY Here DEF PairInv, InAddSite, OnServer
<1>3. Only(p) /\ PairInv(p)'
  BY <1>1, <1>2, EndPairInv DEF OnServer
<1> QED BY <1>3, QuietMove

\* A step that only takes a request on, towards or on the server, or back.
LEMMA GotoStep ==
  ASSUME Main, NEW p \in Pairs, pair[p].pc \in OnServer \cup {"asked"},
         NEW pc \in OnServer \cup {"received"}, Goto(p, pc),
         pc = "received" => pair[p].result = "none",
         pc \in {"registered", "creating", "answered", "received"} => p \in regs,
         UNCHANGED <<server, running, store, keychainUp, sign>>
  PROVE  Main'
<1>1. pc \in PairPCs /\ UNCHANGED <<regs, era>>
  BY DEF PairPCs, OnServer, server
<1>2. TypeOK /\ PairInv(p) /\ pair[p].code \in Codes
  BY Here DEF OnServer
<1>3. /\ Keeps(p) /\ pair'[p].pc = pc /\ pair'[p].secret = pair[p].secret
      /\ pair'[p].loaded = pair[p].loaded /\ pair'[p].result = pair[p].result
  BY <1>1, <1>2, GotoForm
<1>4. DurablePair(p)'
  BY <1>1, <1>2, <1>3, KeepsData
<1>5. PairInv(p)'
  BY <1>1, <1>3, <1>4, ServerMove
<1> QED BY <1>3, <1>5, QuietMove DEF Keeps

LEMMA DialogSteps ==
  ASSUME Main, NEW p \in Pairs, Confirm(p) \/ CodeFound(p) \/ CodeMissing(p) \/ Deliver(p)
  PROVE  Main'
<1>1. CASE Goto(p, "validating") /\ Confirm(p)
  BY <1>1, GotoStep DEF Confirm, OnServer
<1>2. CASE Answer(p, "UNAUTHORIZED") /\ Confirm(p)
  BY <1>2, EndStep DEF Confirm, Results
<1>3. CASE CodeFound(p)
  BY <1>3, GotoStep DEF CodeFound, OnServer
<1>4. CASE CodeMissing(p)
  BY <1>4, EndStep DEF CodeMissing, Results, OnServer
<1>5. CASE Deliver(p) /\ pair[p].result = "none"
  <2>1. p \in regs
    BY <1>5, Here DEF Deliver, PairInv, RegisteredPair
  <2> QED BY <1>5, <2>1, GotoStep DEF Deliver, OnServer
<1>6. CASE Deliver(p) /\ pair[p].result # "none"
  <2>1. pair[p].result \in Results \ {"none", "OK"}
    BY <1>6, Here DEF Deliver, PairInv, PairConsistent, TypeOK, PairRec
  <2> QED BY <1>6, <2>1, EndStep DEF Deliver, OnServer
<1> QED BY <1>1, <1>2, <1>3, <1>4, <1>5, <1>6 DEF Confirm

LEMMA DeleteCodeStep ==
  ASSUME Main, NEW p \in Pairs, DeleteCode(p)
  PROVE  Main'
<1>1. /\ pair[p].pc = "taken" /\ Goto(p, "cleared") /\ "cleared" \in PairPCs
      /\ codes' = [codes EXCEPT ![pair[p].code] = "gone"]
      /\ UNCHANGED <<regs, secret, era, running, store, keychainUp, sign>>
  BY DEF DeleteCode, PairPCs
<1>2. TypeOK /\ PairInv(p) /\ StoreInv /\ pair[p].code \in Codes
  BY <1>1, Here
<1>3. /\ Keeps(p) /\ pair'[p].pc = "cleared" /\ pair'[p].secret = pair[p].secret
      /\ pair'[p].loaded = pair[p].loaded /\ pair'[p].result = pair[p].result
  BY <1>1, <1>2, GotoForm
<1>4. DurablePair(p)'
  BY <1>1, <1>2, <1>3, KeepsData
<1>5. PairInv(p)'
  BY <1>1, <1>3, <1>4, ServerMove DEF OnServer
<1>6. TypeOK'
  BY <1>1, <1>2, <1>3 DEF TypeOK, store, Keeps, Only
<1>7. Grows /\ UNCHANGED mu
  BY <1>1, <1>2 DEF Grows, store, TypeOK, Secrets
<1>8. StoreInv'
  BY <1>1, <1>2 DEF StoreInv, store
<1> QED BY <1>1, <1>3, <1>5, <1>6, <1>7, <1>8, PairMoves DEF Keeps

LEMMA RegisterStep ==
  ASSUME Main, NEW p \in Pairs, Register(p)
  PROVE  Main'
<1>1. /\ pair[p].pc = "cleared" /\ Goto(p, "registered") /\ "registered" \in PairPCs
      /\ regs' = regs \cup {p}
      /\ UNCHANGED <<codes, secret, era, running, store, keychainUp, sign>>
  BY DEF Register, PairPCs
<1>2. TypeOK /\ PairInv(p) /\ StoreInv /\ pair[p].code \in Codes
  BY <1>1, Here
<1>3. /\ Keeps(p) /\ pair'[p].pc = "registered" /\ pair'[p].secret = pair[p].secret
      /\ pair'[p].loaded = pair[p].loaded /\ pair'[p].result = pair[p].result
  BY <1>1, <1>2, GotoForm
<1>4. DurablePair(p)'
  BY <1>1, <1>2, <1>3, KeepsData
<1>5. PairInv(p)'
  BY <1>1, <1>3, <1>4, ServerMove DEF OnServer
<1>6. TypeOK'
  BY <1>1, <1>2, <1>3 DEF TypeOK, store, Keeps, Only
<1>7. Grows /\ UNCHANGED mu
  BY <1>1, <1>2 DEF Grows, store, TypeOK, Secrets
<1>8. StoreInv'
  BY <1>1, <1>2 DEF StoreInv, store
<1> QED BY <1>1, <1>3, <1>5, <1>6, <1>7, <1>8, PairMoves DEF Keeps

LEMMA ReadSecretStep ==
  ASSUME Main, NEW p \in Pairs, ReadSecret(p)
  PROVE  Main'
<1> DEFINE pc == IF secret[Site(p)] # 0 THEN "answered" ELSE "creating"
<1>1. /\ pair[p].pc = "registered" /\ pc \in PairPCs /\ pc \in {"answered", "creating"}
      /\ pair' = [pair EXCEPT ![p] = [@ EXCEPT !.pc = pc, !.secret = secret[Site(p)]]]
      /\ UNCHANGED <<server, running, store, keychainUp, sign>> /\ UNCHANGED <<regs, era>>
  BY DEF ReadSecret, PairPCs, server
<1> HIDE DEF pc
<1>2. /\ TypeOK /\ PairInv(p) /\ StoreInv /\ pair[p].code \in Codes /\ Site(p) \in Sites
      /\ p \in regs
  BY <1>1, Here DEF PairInv, RegisteredPair
<1>3. secret[Site(p)] \in Secrets /\ secret[Site(p)] <= era[Site(p)]
  BY <1>2 DEF TypeOK, StoreInv
<1>4. /\ Keeps(p) /\ pair'[p].pc = pc /\ pair'[p].secret = secret[Site(p)]
      /\ pair'[p].loaded = pair[p].loaded /\ pair'[p].result = pair[p].result
  BY <1>1, <1>2, <1>3, SecretForm
<1>5. DurablePair(p)'
  BY <1>1, <1>2, <1>3, <1>4 DEF DurablePair, PairInv, Site, Keeps
<1>6. PairInv(p)'
  BY <1>1, <1>2, <1>4, <1>5, ServerMove DEF OnServer
<1> QED BY <1>1, <1>4, <1>6, QuietMove DEF Keeps

LEMMA CreateForm ==
  ASSUME TypeOK, NEW s \in Sites, CreateSecret(s)
  PROVE  /\ secret' \in [Sites -> Secrets] /\ era' \in [Sites -> Secrets]
         /\ era[s] + 1 \in Secrets /\ secret'[s] = era[s] + 1 /\ era'[s] = era[s] + 1
         /\ \A t \in Sites \ {s} : secret'[t] = secret[t] /\ era'[t] = era[t]
         /\ \A t \in Sites : era[t] <= era'[t] /\ era[t] \in Nat
BY EraAssumption DEF CreateSecret, TypeOK, Secrets

\* The stores when a secret was made and nothing else changed in them.
LEMMA CreateKeepsStores ==
  ASSUME TypeOK, StoreInv, NEW s \in Sites, CreateSecret(s), UNCHANGED <<regs, store>>
  PROVE  StoreInv'
<1>1. \A t \in Sites : keychain.hmac[t] \in Nat /\ file.hmac[t] \in Nat /\ secret[t] \in Nat
  BY DEF TypeOK, Store, Secrets
<1>2. \A t \in Sites : secret'[t] <= era'[t] /\ era[t] <= era'[t] /\ era[t] \in Nat /\ era'[t] \in Nat
  BY CreateForm DEF StoreInv, Secrets
<1> QED BY <1>1, <1>2 DEF StoreInv, store

LEMMA SaveSecretStep ==
  ASSUME Main, NEW p \in Pairs, SaveSecret(p)
  PROVE  Main'
<1>1. /\ pair[p].pc = "creating" /\ "answered" \in PairPCs /\ CreateSecret(Site(p))
      /\ pair' = [pair EXCEPT ![p] = [@ EXCEPT !.pc = "answered", !.secret = era[Site(p)] + 1]]
      /\ UNCHANGED <<codes, regs, running, store, keychainUp, sign>>
  BY DEF SaveSecret, PairPCs
<1>2. /\ TypeOK /\ PairInv(p) /\ StoreInv /\ pair[p].code \in Codes /\ Site(p) \in Sites
      /\ p \in regs
  BY <1>1, Here DEF PairInv, RegisteredPair
<1>3. /\ secret' \in [Sites -> Secrets] /\ era' \in [Sites -> Secrets]
      /\ era[Site(p)] + 1 \in Secrets /\ era'[Site(p)] = era[Site(p)] + 1
      /\ \A t \in Sites : era[t] <= era'[t] /\ era[t] \in Nat
  BY <1>1, <1>2, CreateForm
<1>4. /\ Keeps(p) /\ pair'[p].pc = "answered" /\ pair'[p].secret = era[Site(p)] + 1
      /\ pair'[p].loaded = pair[p].loaded /\ pair'[p].result = pair[p].result
  <2> DEFINE n == era[Site(p)] + 1
  <2>1. n \in Secrets /\ pair' = [pair EXCEPT ![p] = [@ EXCEPT !.pc = "answered", !.secret = n]]
    BY <1>1, <1>3
  <2> HIDE DEF n
  <2>2. /\ Keeps(p) /\ pair'[p].pc = "answered" /\ pair'[p].secret = n
        /\ pair'[p].loaded = pair[p].loaded /\ pair'[p].result = pair[p].result
    <3>1. TypeOK /\ "answered" \in PairPCs
      BY <1>1, <1>2
    <3> QED BY <2>1, <3>1, SecretForm
  <2> QED BY <2>2 DEF n
<1>5. TypeOK'
  BY <1>1, <1>2, <1>3, <1>4 DEF TypeOK, store, Keeps, Only
<1>6. DurablePair(p)'
  <2>1. \A s \in Sites : pair[p].loaded.hmac[s] \in Nat /\ era'[s] \in Nat
    BY <1>2, <1>3 DEF TypeOK, PairRec, Store, Secrets
  <2>2. Site(p)' = Site(p)
    BY <1>4 DEF Site, Keeps
  <2> QED BY <1>2, <1>3, <1>4, <2>1, <2>2 DEF DurablePair, PairInv
<1>7. PairInv(p)'
  BY <1>1, <1>2, <1>4, <1>6, ServerMove DEF OnServer
<1>8. Grows /\ UNCHANGED mu
  BY <1>1, <1>3 DEF Grows, store
<1>9. StoreInv'
  BY <1>1, <1>2, CreateKeepsStores
<1> QED BY <1>1, <1>4, <1>5, <1>7, <1>8, <1>9, PairMoves DEF Keeps

LEMMA SiteLostStep ==
  ASSUME Main, NEW p \in Pairs, SiteLost(p)
  PROVE  Main'
<1>1. /\ pair[p].pc \in OnServer /\ "INVALID_PAIRING_CODE" \in Results
      /\ pair' = [pair EXCEPT ![p].result = "INVALID_PAIRING_CODE"]
      /\ UNCHANGED <<server, running, store, keychainUp, sign>> /\ UNCHANGED <<regs, era>>
  BY DEF SiteLost, Results, server
<1>2. TypeOK /\ PairInv(p) /\ pair[p].code \in Codes
  BY <1>1, Here DEF OnServer
<1>3. /\ Keeps(p) /\ pair'[p].pc = pair[p].pc /\ pair'[p].result = "INVALID_PAIRING_CODE"
      /\ pair'[p].secret = pair[p].secret /\ pair'[p].loaded = pair[p].loaded
  BY <1>1, <1>2, ResultForm
<1>4. DurablePair(p)'
  BY <1>1, <1>2, <1>3, KeepsData
<1>5. pair[p].pc \in {"registered", "creating", "answered"} => p \in regs
  BY <1>2 DEF PairInv, RegisteredPair
<1>6. PairInv(p)'
  BY <1>1, <1>3, <1>4, <1>5, ServerMove DEF OnServer
<1> QED BY <1>1, <1>3, <1>6, QuietMove DEF Keeps

-----------------------------------------------------------------------------
(* The steps of the keystore *)

LEMMA AddSiteStep ==
  ASSUME Main, NEW p \in Pairs, AddSite(p)
  PROVE  Main'
<1>1. /\ pair[p].pc = "received" /\ mu = NoPair /\ mu' = p
      /\ pair' = [pair EXCEPT ![p] = [@ EXCEPT !.pc = "putting", !.what = "token"]]
      /\ UNCHANGED <<codes, regs, secret, era, running, sites, disk, keychain, file, keychainUp, sign>>
  BY DEF AddSite, server
<1>2. /\ TypeOK /\ PairInv(p) /\ StoreInv /\ pair[p].code \in Codes
      /\ p \in regs
  BY <1>1, Here DEF PairInv, RegisteredPair
<1>3. /\ Keeps(p) /\ pair'[p].pc = "putting" /\ pair'[p].what = "token"
      /\ pair'[p].secret = pair[p].secret /\ pair'[p].loaded = pair[p].loaded
      /\ pair'[p].result = pair[p].result
  BY <1>1, <1>2, PuttingForm
<1>4. InAddSite(p)' /\ ~PastAddSite(p)'
  BY <1>2, <1>1, <1>3 DEF InAddSite, PastAddSite, PairInv, PairConsistent, OnServer
<1>5. PairConsistent(p)'
  BY <1>1, <1>2, <1>3 DEF PairInv, PairConsistent, OnServer, Keeps
<1>6. DurablePair(p)' /\ RegisteredPair(p)'
  BY <1>1, <1>2, <1>3, KeepsData DEF RegisteredPair
<1>7. PairInv(p)'
  BY <1>1, <1>4, <1>5, <1>6 DEF PairInv, KeptPair
<1>8. TypeOK'
  BY <1>1, <1>2, <1>3 DEF TypeOK, Keeps, Only
<1>9. Grows /\ StoreInv' /\ \A q \in Pairs \ {p} : mu' = q <=> mu = q
  BY <1>1, <1>2, NoneAssumption DEF Grows, StoreInv, TypeOK, Secrets
<1> QED BY <1>1, <1>3, <1>7, <1>8, <1>9, PairMoves DEF Keeps

\* What Stored does, with the token or the secret in its place.
LEMMA StoredForm ==
  ASSUME Main, NEW p \in Pairs, pair[p].pc \in {"putting", "truncated"}, Stored(p),
         UNCHANGED <<server, running, mu, sites, disk>>
  PROVE  Only(p) /\ PairInv(p)'
<1>1. /\ TypeOK /\ PairInv(p) /\ StoreInv /\ pair[p].code \in Codes
      /\ pair[p].result = "none" /\ running
  BY Here DEF PairInv, PairConsistent, OnServer
<1>2. UNCHANGED <<regs, era>>
  BY DEF server
<1>3. CASE pair[p].what = "token"
  <2>1. "adding" \in PairPCs
        /\ pair' = [pair EXCEPT ![p] = [@ EXCEPT !.pc = "adding", !.loaded = Empty]]
    BY <1>3 DEF Stored, PairPCs
  <2>2. /\ Keeps(p) /\ pair'[p].pc = "adding" /\ pair'[p].loaded = Empty
        /\ pair'[p].secret = pair[p].secret /\ pair'[p].what = pair[p].what
        /\ pair'[p].result = pair[p].result
    BY <1>1, <2>1, LoadedForm, EmptyIsStore
  <2>3. InAddSite(p) /\ InAddSite(p)' /\ ~PastAddSite(p)'
    BY <1>1, <1>3, <2>2 DEF InAddSite, PastAddSite
  <2>4. PairConsistent(p)'
    BY <1>1, <2>2 DEF PairInv, PairConsistent, OnServer, Keeps
  <2>5. DurablePair(p)' /\ RegisteredPair(p)'
    BY <1>1, <1>2, <2>2, <2>3, KeepsData DEF RegisteredPair, PairInv
  <2> QED BY <1>1, <2>2, <2>3, <2>4, <2>5 DEF PairInv, KeptPair, Keeps
<1>4. CASE pair[p].what # "token"
  <2>1. Answer(p, "OK") /\ "OK" \in Results /\ pair[p].what = "hmac"
    BY <1>1, <1>4 DEF Stored, Results, TypeOK, PairRec
  <2>2. /\ Keeps(p) /\ pair'[p].pc = "done" /\ pair'[p].secret = 0
        /\ pair'[p].what = "token" /\ pair'[p].loaded = Empty /\ pair'[p].result = "OK"
    BY <1>1, <2>1, AnswerForm
  <2>3. ~InAddSite(p) /\ ~InAddSite(p)' /\ PastAddSite(p)
    BY <2>1, <2>2 DEF InAddSite, PastAddSite
  <2>4. PairConsistent(p)'
    BY <1>1, <2>2 DEF PairConsistent, OnServer, Keeps
  <2>5. DurablePair(p)' /\ RegisteredPair(p)'
    BY <1>1, <1>2, <2>2, <2>3, KeepsData DEF RegisteredPair
  <2>6. KeptPair(p)'
    BY <1>1, <2>2, <2>3 DEF PairInv, KeptPair, Keeps, Site
  <2> QED BY <1>1, <2>2, <2>3, <2>4, <2>5, <2>6 DEF PairInv, Keeps
<1> QED BY <1>3, <1>4

\* The token or the secret goes to the keychain or to the file.
LEMMA PutSteps ==
  ASSUME Main, NEW p \in Pairs, KeychainSet(p) \/ WriteTokenFile(p)
  PROVE  Main'
<1>1. /\ pair[p].pc \in {"putting", "truncated"} /\ Stored(p)
      /\ UNCHANGED <<server, running, mu, sites, disk, keychainUp, sign>>
      /\ UNCHANGED <<codes, regs, secret, era>>
      /\ \/ keychain' = With(keychain, p) /\ file' = file
         \/ keychain' = keychain /\ file' = With(pair[p].loaded, p)
  BY DEF KeychainSet, WriteTokenFile, server
<1>2. TypeOK /\ PairInv(p) /\ StoreInv /\ pair[p].code \in Codes /\ Site(p) \in Sites
  BY <1>1, Here
<1>3. Only(p) /\ PairInv(p)'
  BY <1>1, StoredForm
<1>4. keychain' \in Store /\ file' \in Store
  BY <1>1, <1>2, WithForm DEF TypeOK, PairRec
<1>5. TypeOK'
  BY <1>1, <1>2, <1>3, <1>4 DEF TypeOK, Only
<1>6. pair[p].what = "token" => p \in regs
  BY <1>1, <1>2 DEF PairInv, RegisteredPair, InAddSite
<1>7. StoreInv'
  BY <1>1, <1>2, <1>5, <1>6, StoreStep DEF PutInto
<1>8. Grows
  BY <1>1, <1>2 DEF Grows, TypeOK, Secrets
<1> QED BY <1>1, <1>3, <1>5, <1>7, <1>8, PairMoves

\* p reads or truncates the file.
LEMMA FileMove ==
  ASSUME Main, NEW p \in Pairs, pair[p].pc \in {"putting", "loaded"},
         Keeps(p), pair'[p].pc \in {"loaded", "truncated"},
         pair'[p].loaded \in {file, pair[p].loaded},
         pair'[p].secret = pair[p].secret, pair'[p].what = pair[p].what,
         pair'[p].result = pair[p].result, file' \in {file, Empty},
         UNCHANGED <<server, running, mu, sites, disk, keychain, keychainUp, sign>>
  PROVE  Main'
<1>1. UNCHANGED <<codes, regs, secret, era>>
  BY DEF server
<1>2. /\ TypeOK /\ PairInv(p) /\ StoreInv /\ pair[p].code \in Codes
      /\ pair[p].result = "none" /\ running
  BY Here DEF PairInv, PairConsistent, OnServer
<1>3. \A s \in Sites : /\ pair'[p].loaded.token[s] \in regs \cup {NoPair}
                       /\ pair'[p].loaded.hmac[s] <= era[s]
  BY <1>2 DEF StoreInv, PairInv, RegisteredPair, DurablePair
<1>4. InAddSite(p)' <=> InAddSite(p)
  BY <1>1 DEF InAddSite
<1>5. PastAddSite(p)' <=> PastAddSite(p)
  BY <1>1 DEF PastAddSite
<1>6. Site(p)' = Site(p)
  BY DEF Keeps, Site
<1>7. PairConsistent(p)'
  BY <1>1, <1>2 DEF PairInv, PairConsistent, OnServer, Keeps
<1>8. DurablePair(p)' /\ RegisteredPair(p)'
  BY <1>1, <1>2, <1>3, <1>4, <1>6 DEF PairInv, DurablePair, RegisteredPair, Keeps
<1>9. PairInv(p)'
  BY <1>1, <1>2, <1>4, <1>5, <1>6, <1>7, <1>8 DEF PairInv, KeptPair
<1>10. TypeOK'
  BY <1>1, <1>2, EmptyIsStore DEF TypeOK, Keeps, Only
<1>11. StoreInv'
  <2>1. \A s \in Sites : Empty.token[s] = NoPair /\ Empty.hmac[s] = 0 /\ era[s] \in Nat
    BY <1>2 DEF Empty, TypeOK, Secrets
  <2> QED BY <1>1, <1>2, <2>1 DEF StoreInv
<1>12. Grows
  BY <1>1, <1>2 DEF Grows, TypeOK, Secrets
<1> QED BY <1>1, <1>9, <1>10, <1>11, <1>12, PairMoves DEF Keeps

LEMMA FileSteps ==
  ASSUME Main, NEW p \in Pairs, LoadTokenFile(p) \/ TruncateTokenFile(p)
  PROVE  Main'
<1>1. CASE LoadTokenFile(p)
  <2>1. /\ pair[p].pc = "putting" /\ "loaded" \in PairPCs
        /\ pair' = [pair EXCEPT ![p] = [@ EXCEPT !.pc = "loaded", !.loaded = file]]
        /\ UNCHANGED <<server, running, mu, sites, disk, keychain, file, keychainUp, sign>>
    BY <1>1 DEF LoadTokenFile, PairPCs, store
  <2>2. TypeOK /\ file \in Store
    BY <2>1, Here DEF TypeOK
  <2>3. /\ Keeps(p) /\ pair'[p].pc = "loaded" /\ pair'[p].loaded = file
        /\ pair'[p].secret = pair[p].secret /\ pair'[p].what = pair[p].what
        /\ pair'[p].result = pair[p].result
    BY <2>1, <2>2, LoadedForm
  <2> QED BY <2>1, <2>3, FileMove
<1>2. CASE TruncateTokenFile(p)
  <2>1. /\ pair[p].pc = "loaded" /\ "truncated" \in PairPCs /\ Goto(p, "truncated") /\ file' = Empty
        /\ UNCHANGED <<server, running, mu, sites, disk, keychain, keychainUp, sign>>
    BY <1>2 DEF TruncateTokenFile, PairPCs
  <2>2. TypeOK
    BY <2>1, Here
  <2>3. /\ Keeps(p) /\ pair'[p].pc = "truncated" /\ pair'[p].loaded = pair[p].loaded
        /\ pair'[p].secret = pair[p].secret /\ pair'[p].what = pair[p].what
        /\ pair'[p].result = pair[p].result
    BY <2>1, <2>2, GotoForm
  <2> QED BY <2>1, <2>3, FileMove
<1> QED BY <1>1, <1>2

LEMMA TokenFileFailsStep ==
  ASSUME Main, NEW p \in Pairs, TokenFileFails(p)
  PROVE  Main'
<1>1. /\ pair[p].pc \in {"loaded", "truncated"}
      /\ mu' = IF mu = p THEN NoPair ELSE mu
      /\ Answer(p, IF pair[p].what = "token" THEN "INTERNAL_ERROR" ELSE "OK")
      /\ UNCHANGED <<server, running, sites, disk, keychain, file, keychainUp, sign>>
      /\ UNCHANGED <<codes, regs, secret, era>>
  BY DEF TokenFileFails, server
<1>2. /\ TypeOK /\ PairInv(p) /\ StoreInv /\ pair[p].code \in Codes
      /\ pair[p].result = "none" /\ running
  BY <1>1, Here DEF PairInv, PairConsistent, OnServer
<1>3. Only(p) /\ PairInv(p)'
  <2>1. CASE pair[p].what = "token"
    BY <1>1, <2>1, NoneAssumption, EndPairInv DEF Results
  <2>2. CASE pair[p].what # "token"
    <3>1. Stored(p) /\ ~InAddSite(p) /\ PastAddSite(p)
      BY <1>1, <1>2, <2>2 DEF Stored, InAddSite, PastAddSite, TypeOK, PairRec
    <3>2. Answer(p, "OK") /\ "OK" \in Results /\ mu' = mu /\ mu # p
      BY <1>1, <1>2, <2>2, <3>1 DEF Results, PairInv
    <3>3. /\ Keeps(p) /\ pair'[p].pc = "done" /\ pair'[p].secret = 0
          /\ pair'[p].what = "token" /\ pair'[p].loaded = Empty /\ pair'[p].result = "OK"
      BY <1>2, <3>2, AnswerForm
    <3>4. PairConsistent(p)' /\ ~InAddSite(p)'
      BY <1>2, <3>3 DEF PairConsistent, InAddSite, OnServer, Keeps
    <3>5. DurablePair(p)' /\ RegisteredPair(p)'
      BY <1>1, <1>2, <3>3, <3>4, KeepsData DEF RegisteredPair
    <3>6. KeptPair(p)'
      BY <1>1, <1>2, <3>1, <3>3 DEF PairInv, KeptPair, Keeps, Site
    <3> QED BY <3>2, <3>3, <3>4, <3>5, <3>6 DEF PairInv, Keeps
  <2> QED BY <2>1, <2>2
<1>4. TypeOK'
  BY <1>1, <1>2, <1>3 DEF TypeOK, Only
<1>5. Grows /\ StoreInv' /\ \A q \in Pairs \ {p} : mu' = q <=> mu = q
  BY <1>1, <1>2, NoneAssumption DEF Grows, StoreInv, TypeOK, Secrets
<1> QED BY <1>1, <1>3, <1>4, <1>5, PairMoves

LEMMA SaveBeginsStep ==
  ASSUME Main, NEW p \in Pairs, SaveBegins(p)
  PROVE  Main'
<1>1. /\ pair[p].pc = "adding" /\ Goto(p, "saving") /\ "saving" \in PairPCs
      /\ sites' = sites \cup {Site(p)} /\ disk' = [torn |-> TRUE, sites |-> {}]
      /\ UNCHANGED <<server, running, mu, keychain, file, keychainUp, sign>>
      /\ UNCHANGED <<codes, regs, secret, era>>
  BY DEF SaveBegins, server, PairPCs
<1>2. /\ TypeOK /\ PairInv(p) /\ StoreInv /\ pair[p].code \in Codes /\ Site(p) \in Sites
      /\ pair[p].result = "none" /\ running
  BY <1>1, Here DEF PairInv, PairConsistent, OnServer
<1>3. /\ Keeps(p) /\ pair'[p].pc = "saving" /\ pair'[p].secret = pair[p].secret
      /\ pair'[p].what = pair[p].what /\ pair'[p].loaded = pair[p].loaded
      /\ pair'[p].result = pair[p].result
  BY <1>1, <1>2, GotoForm
<1>4. InAddSite(p) /\ InAddSite(p)' /\ ~PastAddSite(p)'
  BY <1>1, <1>2, <1>3 DEF InAddSite, PastAddSite
<1>5. PairConsistent(p)'
  BY <1>1, <1>2, <1>3 DEF PairInv, PairConsistent, OnServer, Keeps, Site
<1>6. DurablePair(p)' /\ RegisteredPair(p)'
  BY <1>1, <1>2, <1>3, <1>4, KeepsData DEF RegisteredPair, PairInv
<1>7. PairInv(p)'
  BY <1>1, <1>2, <1>4, <1>5, <1>6 DEF PairInv, KeptPair
<1>8. TypeOK'
  BY <1>1, <1>2, <1>3 DEF TypeOK, Keeps, Only
<1>9. Grows /\ StoreInv'
  BY <1>1, <1>2 DEF Grows, StoreInv, TypeOK, Secrets
<1> QED BY <1>1, <1>3, <1>7, <1>8, <1>9, PairMoves DEF Keeps

LEMMA SaveEndsStep ==
  ASSUME Main, NEW p \in Pairs, SaveEnds(p)
  PROVE  Main'
<1>1. /\ pair[p].pc = "saving" /\ mu' = NoPair
      /\ disk' = [torn |-> FALSE, sites |-> sites]
      /\ pair' = [pair EXCEPT ![p] = [@ EXCEPT !.pc = "putting", !.what = "hmac"]]
      /\ UNCHANGED <<server, running, sites, keychain, file, keychainUp, sign>>
      /\ UNCHANGED <<codes, regs, secret, era>>
  BY DEF SaveEnds, server
<1>2. /\ TypeOK /\ PairInv(p) /\ StoreInv /\ pair[p].code \in Codes /\ mu = p
      /\ pair[p].result = "none" /\ running /\ Site(p) \in sites
  BY <1>1, Here DEF PairInv, PairConsistent, OnServer, InAddSite
<1>3. /\ Keeps(p) /\ pair'[p].pc = "putting" /\ pair'[p].what = "hmac"
      /\ pair'[p].secret = pair[p].secret /\ pair'[p].loaded = pair[p].loaded
      /\ pair'[p].result = pair[p].result
  BY <1>1, <1>2, PuttingForm
<1>4. ~InAddSite(p)'
  BY <1>3 DEF InAddSite
<1>5. PairConsistent(p)'
  BY <1>1, <1>2, <1>3 DEF PairInv, PairConsistent, OnServer, Keeps
<1>6. DurablePair(p)' /\ RegisteredPair(p)'
  BY <1>1, <1>2, <1>3, <1>4, KeepsData DEF RegisteredPair
<1>7. KeptPair(p)'
  BY <1>1, <1>2, <1>3 DEF KeptPair, Keeps, Site
<1>8. PairInv(p)'
  BY <1>1, <1>4, <1>5, <1>6, <1>7, NoneAssumption DEF PairInv
<1>9. TypeOK'
  BY <1>1, <1>2, <1>3 DEF TypeOK, Keeps, Only
<1>10. Grows /\ StoreInv' /\ \A q \in Pairs \ {p} : mu' = q <=> mu = q
  BY <1>1, <1>2, NoneAssumption DEF Grows, StoreInv, TypeOK, Secrets
<1> QED BY <1>1, <1>3, <1>8, <1>9, <1>10, PairMoves DEF Keeps

LEMMA SaveFailsStep ==
  ASSUME Main, NEW p \in Pairs, SaveFails(p)
  PROVE  Main'
<1>1. /\ pair[p].pc \in {"adding", "saving"} /\ mu' = NoPair
      /\ sites' = sites \cup {Site(p)} /\ Answer(p, "INTERNAL_ERROR")
      /\ UNCHANGED <<server, running, disk, keychain, file, keychainUp, sign>>
      /\ UNCHANGED <<codes, regs, secret, era>>
  BY DEF SaveFails, server
<1>2. TypeOK /\ PairInv(p) /\ StoreInv /\ Site(p) \in Sites /\ mu = p
  BY <1>1, Here DEF PairInv, InAddSite
<1>3. Only(p) /\ PairInv(p)'
  BY <1>1, NoneAssumption, EndPairInv DEF Results
<1>4. TypeOK'
  BY <1>1, <1>2, <1>3 DEF TypeOK, Only
<1>5. Grows /\ StoreInv' /\ \A q \in Pairs \ {p} : mu' = q <=> mu = q
  BY <1>1, <1>2, NoneAssumption DEF Grows, StoreInv, TypeOK, Secrets
<1> QED BY <1>1, <1>3, <1>4, <1>5, PairMoves

-----------------------------------------------------------------------------
(* The steps of everybody else *)

\* A step that leaves the pair requests and the bridge alone.
LEMMA ServerMoves ==
  ASSUME Main, TypeOK', StoreInv', SignsInv', UNCHANGED <<regs, running, mu, sites, disk, pair>>,
         \A s \in Sites : era[s] <= era'[s]
  PROVE  Main'
<1>1. TypeOK /\ PairsInv
  BY MainSplit
<1>2. Grows
  BY DEF Grows
<1>3. PairsInv'
  BY <1>1, <1>2, OtherPair DEF PairsInv
<1>4. (TypeOK /\ StoreInv /\ PairsInv /\ SignsInv)'
  BY <1>3
<1> QED BY <1>4, MainSplit, PTL

LEMMA AdminSteps ==
  ASSUME Main,
         \/ \E c \in Codes : GeneratePairingCode(c) \/ CodeExpires(c)
         \/ \E s \in Sites : ClearSecret(s)
         \/ KeychainChanges
  PROVE  Main'
<1>1. /\ codes' \in [Codes -> {"unmade", "stored", "gone"}] /\ secret' \in [Sites -> Secrets]
      /\ \A s \in Sites : secret'[s] \in {secret[s], 0}
      /\ keychainUp' \in BOOLEAN
      /\ UNCHANGED <<regs, era, running, mu, sites, disk, keychain, file, pair, sign>>
  <2>1. ASSUME NEW c \in Codes, GeneratePairingCode(c) \/ CodeExpires(c) PROVE <1>1!:
    BY <2>1 DEF Main, TypeOK, GeneratePairingCode, CodeExpires, store
  <2>2. ASSUME NEW s \in Sites, ClearSecret(s) PROVE <1>1!:
    <3>1. 0 \in Secrets
      BY EraAssumption DEF Secrets
    <3> QED BY <2>2, <3>1 DEF Main, TypeOK, ClearSecret, store
  <2>3. ASSUME KeychainChanges PROVE <1>1!:
    BY <2>3 DEF Main, TypeOK, KeychainChanges, store, server
  <2> QED BY <2>1, <2>2, <2>3
<1>2. TypeOK /\ StoreInv /\ SignsInv
  BY MainSplit
<1>3. TypeOK' /\ \A s \in Sites : era[s] \in Nat /\ era[s] <= era'[s]
  BY <1>1, <1>2 DEF TypeOK, Secrets
<1>4. StoreInv'
  BY <1>1, <1>2, <1>3 DEF StoreInv
<1>5. SignsInv'
  BY <1>1, <1>2, <1>3, SignsKept DEF SignsInv
<1> QED BY <1>1, <1>3, <1>4, <1>5, ServerMoves

\* A step of one signing attempt.
LEMMA SignMoves ==
  ASSUME Main, TypeOK', StoreInv', NEW g \in Signs, SignInv(g)',
         \A h \in Signs \ {g} : sign'[h] = sign[h],
         UNCHANGED <<regs, running, mu, sites, disk, pair>>,
         \A s \in Sites : era[s] <= era'[s]
  PROVE  Main'
<1>1. TypeOK /\ SignsInv
  BY MainSplit
<1>2. SignsInv'
  BY <1>1, SignsKept DEF SignsInv
<1> QED BY <1>2, ServerMoves

LEMMA InitiateSteps ==
  ASSUME Main, NEW g \in Signs,
         (\E s \in Sites : Initiate(g, s)) \/ InitiateCreates(g) \/ InitiateRefused(g)
  PROVE  Main'
<1>1. TypeOK /\ StoreInv /\ SignInv(g) /\ \A s \in Sites : era[s] \in Nat
  BY MainSplit DEF SignsInv, TypeOK, Secrets
<1>2. ASSUME NEW s \in Sites, Initiate(g, s) PROVE Main'
  <2> DEFINE pc == IF secret[s] # 0 THEN "issued" ELSE "initiated"
  <2>1. /\ sign[g].pc = "idle" /\ pc \in {"issued", "initiated"} /\ (pc = "issued" => secret[s] # 0)
        /\ sign' = [sign EXCEPT ![g] = [@ EXCEPT !.pc = pc, !.site = s, !.mac = secret[s]]]
        /\ UNCHANGED <<codes, regs, secret, era, running, mu, sites, disk, keychain, file, keychainUp, pair>>
    BY <1>2 DEF Initiate, server, store
  <2> HIDE DEF pc
  <2>2. secret[s] \in Secrets /\ secret[s] <= era[s]
    BY <1>1 DEF TypeOK, StoreInv
  <2>3. /\ sign' \in [Signs -> SignRec] /\ \A h \in Signs \ {g} : sign'[h] = sign[h]
        /\ sign'[g].pc = pc /\ sign'[g].site = s /\ sign'[g].mac = secret[s]
        /\ sign'[g].verdict = sign[g].verdict
    BY <1>1, <2>1, <2>2 DEF TypeOK, SignRec
  <2>4. TypeOK' /\ StoreInv'
    BY <1>1, <2>1, <2>3 DEF TypeOK, StoreInv
  <2>5. SignInv(g)'
    BY <1>1, <2>1, <2>2, <2>3 DEF SignInv, SignConsistent
  <2> QED BY <1>1, <2>1, <2>3, <2>4, <2>5, SignMoves
<1>3. CASE InitiateCreates(g)
  <2> DEFINE s == sign[g].site
             n == era[s] + 1
  <2>1. s \in Sites /\ sign[g].verdict \in Verdicts
    BY <1>1, <1>3 DEF InitiateCreates, SignInv, SignConsistent, TypeOK, SignRec
  <2>2. /\ sign[g].pc = "initiated" /\ CreateSecret(s)
        /\ sign' = [sign EXCEPT ![g] = [@ EXCEPT !.pc = "issued", !.mac = n]]
        /\ UNCHANGED <<codes, regs, running, mu, sites, disk, keychain, file, keychainUp, pair>>
        /\ UNCHANGED <<regs, store>>
    BY <1>3 DEF InitiateCreates, store
  <2>3. /\ secret' \in [Sites -> Secrets] /\ era' \in [Sites -> Secrets]
        /\ n \in Secrets /\ era'[s] = n /\ n # 0 /\ n \in Nat
        /\ \A t \in Sites : era[t] <= era'[t]
    <3>1. /\ secret' \in [Sites -> Secrets] /\ era' \in [Sites -> Secrets]
          /\ n \in Secrets /\ era'[s] = n /\ \A t \in Sites : era[t] <= era'[t]
      BY <1>1, <2>1, <2>2, CreateForm
    <3>2. n # 0 /\ n \in Nat
      BY <1>1, <2>1
    <3> QED BY <3>1, <3>2
  <2> HIDE DEF n
  <2>4. /\ sign' \in [Signs -> SignRec] /\ \A h \in Signs \ {g} : sign'[h] = sign[h]
        /\ sign'[g].pc = "issued" /\ sign'[g].site = s /\ sign'[g].mac = n
        /\ sign'[g].verdict = sign[g].verdict
    BY <1>1, <2>2, <2>3 DEF TypeOK, SignRec
  <2>5. TypeOK'
    BY <1>1, <2>2, <2>3, <2>4 DEF TypeOK
  <2>6. StoreInv'
    BY <1>1, <2>1, <2>2, CreateKeepsStores
  <2>7. SignInv(g)'
    <3>1. sign[g].verdict = "mismatch" => era'[s] > 1
      BY <1>1, <2>1, <2>3 DEF SignInv, TypeOK, Secrets
    <3> QED BY <2>1, <2>3, <2>4, <3>1 DEF SignInv, SignConsistent
  <2> QED BY <2>2, <2>3, <2>4, <2>5, <2>6, <2>7, SignMoves
<1>4. CASE InitiateRefused(g)
  <2>1. /\ sign[g].pc = "initiated" /\ sign' = [sign EXCEPT ![g].pc = "done"]
        /\ UNCHANGED <<codes, regs, secret, era, running, mu, sites, disk, keychain, file, keychainUp, pair>>
    BY <1>4 DEF InitiateRefused, server, store
  <2>2. /\ sign' \in [Signs -> SignRec] /\ \A h \in Signs \ {g} : sign'[h] = sign[h]
        /\ sign'[g].pc = "done" /\ sign'[g].site = sign[g].site /\ sign'[g].mac = sign[g].mac
        /\ sign'[g].verdict = sign[g].verdict
    BY <1>1, <2>1 DEF TypeOK, SignRec
  <2>3. TypeOK' /\ StoreInv'
    BY <1>1, <2>1, <2>2 DEF TypeOK, StoreInv
  <2>4. SignInv(g)'
    BY <1>1, <2>1, <2>2 DEF SignInv, SignConsistent
  <2> QED BY <1>1, <2>1, <2>2, <2>3, <2>4, SignMoves
<1> QED BY <1>2, <1>3, <1>4

\* Two different secrets of a site mean that it has made two.
LEMMA VerifyStep ==
  ASSUME Main, NEW g \in Signs, Verify(g)
  PROVE  Main'
<1>1. TypeOK /\ StoreInv /\ SignInv(g) /\ \A s \in Sites : era[s] \in Nat
  BY MainSplit DEF SignsInv, TypeOK, Secrets
<1>2. PICK v \in Verdicts :
        /\ v = "mismatch" => HMACSecret(sign[g].site) \notin {0, sign[g].mac}
        /\ sign' = [sign EXCEPT ![g] = [@ EXCEPT !.pc = "done", !.mac = 0, !.verdict = v]]
  BY DEF Verify, IsPairedSite, VerifyHMAC, Verdicts
<1>3. /\ sign[g].pc = "issued"
      /\ UNCHANGED <<codes, regs, secret, era, running, mu, sites, disk, keychain, file, keychainUp, pair>>
  BY DEF Verify, server, store
<1>4. sign[g].site \in Sites /\ sign[g].site # NoSite /\ sign[g].mac # 0 /\ 0 \in Secrets
  BY <1>1, <1>3, NoneAssumption, EraAssumption DEF SignInv, SignConsistent, Secrets
<1>5. /\ sign' \in [Signs -> SignRec] /\ \A h \in Signs \ {g} : sign'[h] = sign[h]
      /\ sign'[g].pc = "done" /\ sign'[g].site = sign[g].site /\ sign'[g].mac = 0
      /\ sign'[g].verdict = v
  BY <1>1, <1>2, <1>4 DEF TypeOK, SignRec
<1>6. TypeOK' /\ StoreInv'
  BY <1>1, <1>3, <1>5 DEF TypeOK, StoreInv
<1>7. ASSUME v = "mismatch" PROVE era[sign[g].site] > 1
  <2>1. HMACSecret(sign[g].site) \in Nat /\ HMACSecret(sign[g].site) <= era[sign[g].site]
    BY <1>1, <1>4 DEF HMACSecret, StoreInv, TypeOK, Store, Secrets
  <2>2. sign[g].mac \in Nat /\ sign[g].mac <= era[sign[g].site]
    BY <1>1, <1>4 DEF SignInv, TypeOK, SignRec, Secrets
  <2> QED BY <1>1, <1>2, <1>4, <1>7, <2>1, <2>2
<1>8. SignInv(g)'
  BY <1>1, <1>3, <1>4, <1>5, <1>7 DEF SignInv, SignConsistent
<1> QED BY <1>1, <1>3, <1>5, <1>6, <1>8, SignMoves

LEMMA RestartStep ==
  ASSUME Main, Restart
  PROVE  Main'
<1>1. /\ running' = ~disk.torn /\ sites' = (IF disk.torn THEN {} ELSE disk.sites) /\ mu' = NoPair
      /\ UNCHANGED <<codes, regs, secret, era, disk, keychain, file, keychainUp, sign>>
  BY DEF Restart, server
<1>2. TypeOK /\ StoreInv /\ PairsInv /\ SignsInv
  BY MainSplit
<1>3. "dropped" \in Results /\ "done" \in PairPCs /\ 0 \in Secrets
  BY EraAssumption DEF Results, PairPCs, Secrets
<1>4. ASSUME NEW q \in Pairs
      PROVE  /\ pair'[q] \in PairRec /\ pair'[q].code = pair[q].code
             /\ \/ pair'[q] = pair[q] /\ (pair[q].pc \in {"idle", "done"} \/ pair[q].result # "none")
                \/ /\ pair'[q].pc = pair[q].pc /\ pair[q].pc \in OnServer
                   /\ pair'[q].result = "dropped" /\ pair'[q].secret = pair[q].secret
                   /\ pair'[q].loaded = pair[q].loaded
                \/ /\ pair'[q].pc = "done" /\ pair[q].pc \notin {"idle", "done"}
                   /\ pair'[q].result = "dropped" /\ pair'[q].secret = 0
                   /\ pair'[q].loaded = Empty
  <2>1. pair[q] \in PairRec
    BY <1>2 DEF TypeOK
  <2>2. CASE pair[q].pc \in {"idle", "done"} \/ pair[q].result # "none"
    BY <2>1, <2>2 DEF Restart
  <2>3. CASE ~(pair[q].pc \in {"idle", "done"} \/ pair[q].result # "none") /\ pair[q].pc \in OnServer
    <3>1. pair'[q] = [pair[q] EXCEPT !.result = "dropped"]
      BY <2>3 DEF Restart
    <3> QED BY <1>3, <2>1, <2>3, <3>1 DEF PairRec
  <2>4. CASE ~(pair[q].pc \in {"idle", "done"} \/ pair[q].result # "none") /\ pair[q].pc \notin OnServer
    <3>1. pair'[q] = [pair[q] EXCEPT !.result = "dropped", !.pc = "done",
                                     !.secret = 0, !.what = "token", !.loaded = Empty]
      BY <2>4 DEF Restart
    <3> QED BY <1>3, <2>1, <2>4, <3>1, EmptyIsStore DEF PairRec
  <2> QED BY <2>2, <2>3, <2>4
<1>5. TypeOK'
  <2>1. pair' \in [Pairs -> PairRec]
    <3>1. \A q \in Pairs : pair'[q] \in PairRec
      BY <1>4
    <3>2. DOMAIN pair' = Pairs /\ pair' = [q \in DOMAIN pair' |-> pair'[q]]
      BY DEF Restart
    <3> QED BY <3>1, <3>2
  <2>2. running' \in BOOLEAN /\ sites' \in SUBSET Sites /\ mu' \in Pairs \cup {NoPair}
    BY <1>1, <1>2 DEF TypeOK
  <2> QED BY <1>1, <1>2, <2>1, <2>2 DEF TypeOK
<1>6. ASSUME NEW q \in Pairs PROVE PairInv(q)'
  <2>1. PairInv(q) /\ pair[q].code = pair'[q].code /\ Site(q)' = Site(q)
    BY <1>2, <1>4 DEF PairsInv, Site
  <2>2. pair'[q].pc \in OnServer \cup {"idle", "done"}
    BY <1>4, <2>1 DEF PairInv, PairConsistent, OnServer
  <2>3. ~InAddSite(q)' /\ mu' # q
    BY <1>1, <2>2, NoneAssumption DEF InAddSite, OnServer
  <2>4. PairConsistent(q)'
    BY <1>1, <1>4, <2>1, <2>2 DEF PairInv, PairConsistent, OnServer
  <2>5. RegisteredPair(q)'
    <3>1. \A s \in Sites : Empty.token[s] = NoPair
      BY DEF Empty
    <3> QED BY <1>1, <1>4, <2>1, <2>3, <3>1 DEF PairInv, RegisteredPair
  <2>6. DurablePair(q)'
    <3>1. \A s \in Sites : Empty.hmac[s] = 0 /\ era[s] \in Nat
      BY <1>2 DEF Empty, TypeOK, Secrets
    <3>2. pair[q].code # NoCode => Site(q) \in Sites
      BY <1>2, CodeAssumption DEF TypeOK, PairRec, Site
    <3> QED BY <1>1, <1>4, <2>1, <3>1, <3>2 DEF PairInv, DurablePair
  <2>7. PastAddSite(q)' => PastAddSite(q)
    BY <1>4, <2>2 DEF PastAddSite, OnServer
  <2>8. KeptPair(q)'
    BY <1>1, <2>1, <2>7 DEF PairInv, KeptPair
  <2> QED BY <2>3, <2>4, <2>5, <2>6, <2>8 DEF PairInv
<1>7. StoreInv'
  BY <1>1, <1>2 DEF StoreInv
<1>8. SignsInv'
  BY <1>1, <1>2 DEF SignsInv, SignInv, SignConsistent
<1>9. (TypeOK /\ StoreInv /\ PairsInv /\ SignsInv)'
  BY <1>5, <1>6, <1>7, <1>8 DEF PairsInv
<1> QED BY <1>9, MainSplit, PTL

-----------------------------------------------------------------------------
(* The theorems *)

LEMMA InitMain == Init => Main
<1> SUFFICES ASSUME Init PROVE TypeOK /\ StoreInv /\ PairsInv /\ SignsInv
  BY MainSplit
<1>1. /\ 0 \in Secrets /\ {"idle"} \subseteq PairPCs /\ {"none"} \subseteq Results
      /\ {"none"} \subseteq Verdicts
  BY EraAssumption DEF Secrets, PairPCs, Results, Verdicts
<1>2. TypeOK
  BY <1>1, EmptyIsStore DEF Init, TypeOK, PairRec, SignRec
<1>3. \A s \in Sites : Empty.token[s] = NoPair /\ Empty.hmac[s] = 0
  BY DEF Empty
<1>4. StoreInv
  <2>1. keychain = Empty /\ file = Empty /\ \A s \in Sites : secret[s] = 0 /\ era[s] = 0
    BY DEF Init
  <2>2. 0 <= 0
    OBVIOUS
  <2> QED BY <1>3, <2>1, <2>2 DEF StoreInv
<1>5. ASSUME NEW p \in Pairs PROVE PairInv(p)
  <2>1. /\ pair[p].pc = "idle" /\ pair[p].secret = 0 /\ pair[p].result = "none"
        /\ pair[p].code = NoCode /\ pair[p].loaded = Empty /\ mu = NoPair
    BY DEF Init
  <2>2. PairConsistent(p) /\ ~InAddSite(p) /\ ~PastAddSite(p)
    BY <2>1 DEF PairConsistent, OnServer, InAddSite, PastAddSite
  <2>3. RegisteredPair(p) /\ DurablePair(p)
    BY <1>3, <2>1, <2>2 DEF RegisteredPair, DurablePair, Init
  <2> QED BY <2>1, <2>2, <2>3, NoneAssumption DEF PairInv, KeptPair
<1>6. SignsInv
  BY DEF Init, SignsInv, SignInv, SignConsistent
<1> QED BY <1>2, <1>4, <1>5, <1>6 DEF PairsInv

LEMMA StutterMain == Main /\ UNCHANGED vars => Main'
BY DEF vars, server, store, Main, TypeOK, PairsConsistent, PairConsistent, SignConsistent, MutexHasOwner,
  TokensAreRegistered, SecretsAreDurable, AckedSiteIsKept, MismatchMeansRotation, InAddSite,
  PastAddSite, Site

LEMMA NextMain == Main /\ [Next]_vars => Main'
<1> SUFFICES ASSUME Main, [Next]_vars PROVE Main'
  OBVIOUS
<1>1. ASSUME NEW p \in Pairs, PairStep(p) PROVE Main'
  <2>1. CASE SaveSecretRefused(p)
    BY <2>1, EndStep DEF SaveSecretRefused, OnServer, Results
  <2> QED BY <1>1, <2>1, DialogSteps, SiteLostStep, DeleteCodeStep, RegisterStep, ReadSecretStep,
        SaveSecretStep, AddSiteStep, PutSteps, FileSteps, TokenFileFailsStep,
        SaveBeginsStep, SaveEndsStep, SaveFailsStep DEF PairStep
<1>2. ASSUME NEW g \in Signs, SignStep(g) PROVE Main'
  BY <1>2, InitiateSteps, VerifyStep DEF SignStep
<1> QED BY <1>1, <1>2, PostStep, AdminSteps, RestartStep, StutterMain DEF Next

\* The types, the mutex, and what a request knows, for every reachable state of the
\* bridge and the sites it is paired with.
THEOREM PairingInvariant == Spec => []Main
BY InitMain, NextMain, PTL DEF Spec

\* No token reaches a bridge before its registration is durable (agent.py
\* validate_pairing_code, handlers.go HandlePair).
THEOREM TokensAreRegisteredAlways == Spec => []TokensAreRegistered
<1>1. Main => TokensAreRegistered
  BY DEF Main
<1> QED BY <1>1, PairingInvariant, PTL

\* A bridge refuses an HMAC of its site only after the secret was changed, although
\* several calls may create the first one at once (dsc_settings.py, handlers.go).
THEOREM MismatchMeansRotationAlways == Spec => []MismatchMeansRotation
<1>1. Main => MismatchMeansRotation
  BY DEF Main
<1> QED BY <1>1, PairingInvariant, PTL

\* A pairing answered with success survives restarts (keystore.go AddSite, save,
\* NewKeystore).
THEOREM AckedSiteIsKeptAlways == Spec => []AckedSiteIsKept
<1>1. Main => AckedSiteIsKept
  BY DEF Main
<1> QED BY <1>1, PairingInvariant, PTL

\* The keystore's mutex is held exactly by the request inside AddSite (keystore.go).
THEOREM MutexHasOwnerAlways == Spec => []MutexHasOwner
<1>1. Main => MutexHasOwner
  BY DEF Main
<1> QED BY <1>1, PairingInvariant, PTL

\* Codes, registrations, stores and requests of a pairing keep their types.
THEOREM TypeCorrect == Spec => []TypeOK
<1>1. Main => TypeOK
  BY DEF Main
<1> QED BY <1>1, PairingInvariant, PTL

\* What a pair request has at each of its steps agrees with the site's records
\* (agent.py validate_pairing_code, handlers.go HandlePair).
THEOREM PairsAlwaysConsistent == Spec => []PairsConsistent
<1>1. Main => PairsConsistent
  BY DEF Main
<1> QED BY <1>1, PairingInvariant, PTL

\* No bridge is given a secret that the site has not committed
\* (dsc_settings.py get_or_create_hmac_secret).
THEOREM SecretsAlwaysDurable == Spec => []SecretsAreDurable
<1>1. Main => SecretsAreDurable
  BY DEF Main
<1> QED BY <1>1, PairingInvariant, PTL
=============================================================================
