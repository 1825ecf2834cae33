-------------------------- MODULE RequestLifecycle --------------------------
(***************************************************************************)
(* What the server promises about the status of ONE signing request, seen  *)
(* from outside: whatever is at work on it (attempts, jobs, status polls)  *)
(* is one flag.  Work may move the request to any status but Cancelled,    *)
(* because the calls that finish it do not look at the status again; it    *)
(* can only be taken up while the request is open, and it signs only with  *)
(* evidence.  A user's decision (retry, cancel, an edit in the form) looks *)
(* at the status it finds: it cancels only a Pending request, and reopens  *)
(* only a Failed one.                                                      *)
(***************************************************************************)
VARIABLES st,       \* status of the request
          busy,     \* something is at work on it
          evidence  \* it points at a signed file

lifecycle == <<st, busy, evidence>>

Open == {"Pending", "In Progress"}
Closed == {"Signed", "Cancelled"}
Present == Open \cup Closed \cup {"Failed"}

Init == st = "absent" /\ ~busy /\ ~evidence

Create ==
  /\ st = "absent" /\ st' = "Pending"
  /\ UNCHANGED <<busy, evidence>>

TakeUp ==
  /\ st \in Open /\ busy'
  /\ UNCHANGED <<st, evidence>>

\* A piece of work ends, well or badly; other work may go on.
Work ==
  /\ busy /\ st \in Present
  /\ st' \in Present \ {"Cancelled"}
  /\ st' = "Signed" => evidence'
  /\ evidence => evidence'
  /\ busy' \in BOOLEAN

\* Work ends without a trace: a refused call, an expired session.
GiveUp ==
  /\ busy /\ ~busy'
  /\ UNCHANGED <<st, evidence>>

Decide ==
  /\ \/ st = "Pending"     /\ st' \in {"In Progress", "Cancelled"}
     \/ st = "In Progress" /\ st' \in {"Signed", "Failed"}
     \/ st = "Failed"      /\ st' = "Pending"
  /\ UNCHANGED <<busy, evidence>>

Delete ==
  /\ st \in Present /\ st' = "purged"
  /\ UNCHANGED <<busy, evidence>>

Next == Create \/ TakeUp \/ Work \/ GiveUp \/ Decide \/ Delete

Spec == Init /\ [][Next]_lifecycle
=============================================================================
