-------------------------- MODULE RequestLifecycle --------------------------
(***************************************************************************)
(* What the API promises about one HTTP request that needs the device: it  *)
(* is refused, or its work is done once and it is answered once.  The      *)
(* answer is the outcome of that work, unless the handler stopped waiting. *)
(* The work ends also when nobody waits for it any more.                   *)
(***************************************************************************)
CONSTANT Reqs  \* the requests

VARIABLES
  status,  \* of the response: 0 while there is none, 200, 400, 502 or 504
  work     \* of the device code: "none", "running", "ok", "failed"

vars == <<status, work>>

StatusOf(result) == IF result = "ok" THEN 200 ELSE 502

Init ==
  /\ status = [r \in Reqs |-> 0]
  /\ work = [r \in Reqs |-> "none"]

Refuse(r) ==
  /\ status[r] = 0 /\ work[r] = "none"
  /\ status' = [status EXCEPT ![r] = 400]
  /\ UNCHANGED work

Accept(r) ==
  /\ status[r] = 0 /\ work[r] = "none"
  /\ work' = [work EXCEPT ![r] = "running"]
  /\ UNCHANGED status

\* The end of the work may be the answer as well.
Finish(r) ==
  /\ work[r] = "running"
  /\ \E result \in {"ok", "failed"} :
       /\ work' = [work EXCEPT ![r] = result]
       /\ \/ UNCHANGED status
          \/ status[r] = 0 /\ status' = [status EXCEPT ![r] = StatusOf(result)]

Answer(r) ==
  /\ status[r] = 0 /\ work[r] \in {"ok", "failed"}
  /\ status' = [status EXCEPT ![r] = StatusOf(work[r])]
  /\ UNCHANGED work

Abandon(r) ==
  /\ status[r] = 0 /\ work[r] # "none"
  /\ status' = [status EXCEPT ![r] = 504]
  /\ UNCHANGED work

Next ==
  \E r \in Reqs : Refuse(r) \/ Accept(r) \/ Finish(r) \/ Answer(r) \/ Abandon(r)

Fairness ==
  \A r \in Reqs : WF_vars(Finish(r)) /\ WF_vars(Answer(r) \/ Abandon(r))

Spec == Init /\ [][Next]_vars /\ Fairness

=============================================================================
