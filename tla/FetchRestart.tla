---------------------------- MODULE FetchRestart ----------------------------
(***************************************************************************)
(* Fetches one after the other from one device, by a server that may stop  *)
(* at any point of a fetch and be started again.  The server keeps nothing *)
(* on disk and sends nothing at start-up (main.go): what a stopped fetch   *)
(* leaves behind is what it left on the device, and the first to clear     *)
(* that up is the next fetch.                                              *)
(***************************************************************************)
EXTENDS AttendanceFetch

CONSTANTS
  MaxStops,   \* bound: how often the server stops
  MaxFetches  \* bound: fetches begun

ASSUME RestartAssumption == MaxStops \in Nat /\ MaxFetches \in Nat

VARIABLES
  stops,    \* how often the server has stopped
  fetches   \* fetches begun, the present one included

restartVars == <<stops, fetches>>

\* A fetch that was stopped is done without an outcome.
Stopped == pc = "done" /\ outcome = "none"

-----------------------------------------------------------------------------
\* The process ends and the kernel closes its connection, without CMD_EXIT.  Of
\* the command in flight the device may have seen nothing.
ServerStops ==
  /\ pc # "done"
  /\ stops < MaxStops
  /\ stops' = stops + 1
  /\ conn' = "closed"
  /\ waiting' = FALSE
  /\ requests' \in {<<>>, Superseded(requests)}
  /\ replies' = <<>>
  /\ pc' = "done"
  /\ outcome' = "none"
  /\ UNCHANGED <<replyID, late, faults, faulted, deviceID, deviceVars, clock, count,
                 size, out, fetchErr, fetches>>

\* The next request connects, once the device is through with the connection
\* before: a session and variables of its own, and the device as it was left.
FetchAgain ==
  /\ pc = "done" /\ requests = <<>>
  /\ fetches < MaxFetches
  /\ fetches' = fetches + 1
  /\ conn' = "up"
  /\ replyID' = NextReplyId(UShortMax - 1) /\ deviceID' = replyID'
  /\ waiting' = FALSE /\ replies' = <<>> /\ late' = 0 /\ faulted' = {}
  /\ pc' = "getTime" /\ clock' = "none" /\ count' = "none"
  /\ size' = 0 /\ out' = <<>> /\ fetchErr' = FALSE /\ outcome' = "none"
  /\ UNCHANGED <<requests, faults, deviceVars, stops>>

RestartInit == Init /\ stops = 0 /\ fetches = 1

RestartNext ==
  \/ Next /\ UNCHANGED restartVars
  \/ ServerStops
  \/ FetchAgain

RestartSpec == RestartInit /\ [][RestartNext]_<<vars, restartVars>>

-----------------------------------------------------------------------------
(* Properties *)

\* A fetch that runs to its end enables the device, whoever disabled it: a
\* fetch that was stopped or lost its connection is made good by the next one,
\* and nothing but a stop, a lost connection or a failed enable command leaves
\* the device disabled.
EnabledAfterFetch ==
  pc = "done" /\ requests = <<>> /\ ~enabled =>
    Stopped \/ faulted \cap {"conn", "enable"} # {}

=============================================================================
