-------------------------- MODULE MCSigningRequest --------------------------
(***************************************************************************)
(* Small instances of SigningRequest.  r1 and r2 come from two rules on an *)
(* invoice, u1 and u2 are names for the requests of an uploaded document.  *)
(***************************************************************************)
EXTENDS SigningLifecycle, TLC

CONSTANTS r1, r2, u1, u2, invoice, upload, p1, alice, bob

MCSourceOf  == [r \in Requests |-> IF r \in {r1, r2} THEN invoice ELSE upload]
MCRuleOf    == [r \in Requests |-> IF r = r2 THEN "second rule" ELSE "first rule"]
MCProfileOf == [r \in Requests |-> p1]
MCSigner    == [r \in Requests |-> IF r = r2 THEN bob ELSE alice]

\* Attempts and finalize calls are interchangeable, and so are the names the
\* request of an uploaded document may get.
Attempts == Permutations(Sessions) \cup Permutations(Calls)
Uploads  == Attempts \cup Permutations({u1, u2})

\* The certificate of every profile has been registered before.
RegisteredInit == Init /\ fingerprint \in [Profiles -> Certs]
RegisteredSpec == RegisteredInit /\ [][Next]_vars
=============================================================================
