---------------------------- MODULE FetchSession ----------------------------
(***************************************************************************)
(* One fetch of the log, seen by the request that makes it: the exchanges  *)
(* of AttendanceFetch implement the session of DeviceSessions, in which    *)
(* nothing is said but that it is used, is hung up and is over, and that   *)
(* the device takes its slot back or the connection is lost.               *)
(*                                                                         *)
(* DeviceSessions lets a session succeed with its connection lost, fail    *)
(* with it up, and lose it while CMD_EXIT is under way.  Here those cases  *)
(* come from the exchanges themselves.                                     *)
(***************************************************************************)
EXTENDS AttendanceFetch

Fetch == "fetch"

\* The connection, or the CMD_EXIT that should have ended it, was lost.
SlotLost == faulted \cap {"conn", "exit"} # {}

\* CMD_EXIT is the last thing the server writes.
ExitPending == pc = "done" /\ requests # <<>>

FetchPhase ==
  CASE pc = "disconnect" -> "hangup"
    [] pc = "done"       -> "return"
    [] OTHER             -> "use"

FetchSlot ==
  IF SlotLost THEN "stale"
  ELSE IF pc = "done" /\ conn = "closed" /\ ~ExitPending THEN "free"
  ELSE Fetch

\* A session knows two faults: that it is lost, and that what it does fails.
FetchFaults == (IF SlotLost THEN 1 ELSE 0) + (IF outcome = "failed" THEN 1 ELSE 0)

Session ==
  INSTANCE DeviceSessions WITH
    Reqs <- {Fetch}, NoOne <- "free", Stale <- "stale", Retries <- 1,
    MaxFaults <- 2,
    kind <- [r \in {Fetch} |-> "attendance"],
    key <- [r \in {Fetch} |-> "right"],
    phase <- [r \in {Fetch} |-> FetchPhase],
    attempt <- [r \in {Fetch} |-> 1],
    cause <- [r \in {Fetch} |-> "none"],
    result <- [r \in {Fetch} |-> outcome],
    channel <- [r \in {Fetch} |-> "empty"],
    status <- [r \in {Fetch} |-> 0],
    keyed <- FALSE,
    slot <- FetchSlot,
    exiting <- IF ExitPending /\ ~SlotLost THEN {Fetch} ELSE {},
    faults <- FetchFaults,
    hit <- IF FetchFaults > 0 THEN {Fetch} ELSE {},
    alone <- {}

-----------------------------------------------------------------------------
(* Properties *)

\* Every step of a fetch is a step of the session, or none: it is used until
\* its one outcome is known, hung up once, and its slot is given back by the
\* device's handling of CMD_EXIT or lost with the connection, never both.
KeepsSession == [][Session!Next]_(Session!vars)

\* In the end the device has its slot back, whatever was late, refused or
\* ignored on the way, unless the connection or CMD_EXIT was lost.
SlotReturned == <>[](FetchSlot = "free" \/ SlotLost)

=============================================================================
