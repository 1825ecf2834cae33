------------------------------ MODULE TokenLock ------------------------------
(***************************************************************************)
(* What SignHash relies on, without a mutex of its own: a login works as a *)
(* lock on a slot of a PKCS#11 module (not on the token, which may be in   *)
(* slots of several).  It is taken only while nobody has it, a request     *)
(* that has signed does not take one again, and a signature is made, once  *)
(* per request, only under a login.  Logins end one by one, with a token   *)
(* that is pulled out, or all together with the process.                   *)
(***************************************************************************)
CONSTANTS Owners, Slots

VARIABLES holders,  \* who is logged in to each slot
          signed    \* who has a signature

lock == <<holders, signed>>

Init == holders = [s \in Slots |-> {}] /\ signed = {}

Acquire(q, s) ==
  /\ q \notin signed /\ holders[s] = {} /\ \A x \in Slots : q \notin holders[x]
  /\ holders' = [holders EXCEPT ![s] = {q}]
  /\ UNCHANGED signed

SignUnder(q, s) ==
  /\ q \in holders[s] /\ q \notin signed
  /\ signed' = signed \cup {q}
  /\ UNCHANGED holders

Release(gone) ==
  /\ holders' = [s \in Slots |-> IF s \in gone THEN {} ELSE holders[s]]
  /\ UNCHANGED signed

Next ==
  \/ \E q \in Owners, s \in Slots : Acquire(q, s) \/ SignUnder(q, s)
  \/ \E gone \in SUBSET Slots : Release(gone)

Spec == Init /\ [][Next]_lock
=============================================================================
