---------------------------- MODULE SigningClaims ----------------------------
(***************************************************************************)
(* What comments, messages and docs of the repository say of signing       *)
(* requests, where SigningRequest shows that the code does otherwise.      *)
(***************************************************************************)
EXTENDS MCSigningRequest

\* dsc_signing_request.py 25-33: Signed and Cancelled allow no transition, "None
\* (terminal state)".  finalize and initiate write the status past that check.
TerminalStatesAreFinal ==
  [][\A r \in Requests : status[r] \in {"Signed", "Cancelled"} =>
       status'[r] \in {status[r], "purged"}]_vars

\* signing.py 680: abort_in_progress will "Reset an In Progress request back to
\* Pending after a client-side failure".
AbortFreesRequest ==
  [][\A s \in Sessions :
       ~sessions[s].aborted /\ sessions'[s].aborted /\ status[sessions[s].req] = "In Progress"
         => status'[sessions[s].req] = "Pending"]_vars
=============================================================================
