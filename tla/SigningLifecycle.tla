-------------------------- MODULE SigningLifecycle --------------------------
(***************************************************************************)
(* SigningRequest implements RequestLifecycle, for any one of its requests *)
(* (focus is an arbitrary request).                                        *)
(***************************************************************************)
EXTENDS SigningRequest

CONSTANT focus
ASSUME FocusAssumption == focus \in Requests

Lifecycle == INSTANCE RequestLifecycle WITH
  st <- status[focus], busy <- InFlight(focus), evidence <- (signedFile[focus] # NoFile)

\* Every step of the server is, for the request in focus, a step of the
\* lifecycle or none: the calls that write a status without looking at it
\* (initiate, finalize, the status poll, the hourly job) can do so only as the
\* end of work taken up while the request was open.
RefinesLifecycle == Lifecycle!Spec
=============================================================================
