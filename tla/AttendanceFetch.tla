-------------------------- MODULE AttendanceFetch --------------------------
(***************************************************************************)
(* Pulling the attendance log over one session: what FetchLogsWithClock    *)
(* (service.go) does once Connect has returned, down to the exchanges of   *)
(* GetDeviceTime, GetAttendanceLogs (device.go), readRecords, readChunked  *)
(* and readBuffered (session.go), up to Disconnect.                        *)
(*                                                                         *)
(* Most of those exchanges tolerate failure: the clock becomes a warning,  *)
(* the record count becomes "unknown", a failed buffered read falls back   *)
(* to the plain command, and the results of disable, free-data and enable  *)
(* are thrown away.  The session is kept after each of these failures.     *)
(*                                                                         *)
(* The log is a sequence of numbered units of 4 bytes; unit 1 is the       *)
(* total_size prefix.  0 is a unit that is no part of the log.             *)
(***************************************************************************)
EXTENDS ZKWire

CONSTANTS
  StoredLens,      \* lengths of the stored log, in units, prefix included
  MaxChunk,        \* units asked for by one read-buffer request
  PlainChunk,      \* units the device sends per frame of a plain read
  FreeSizesUnits,  \* units read_sizes needs: 20 in the code
  GarbageSizes     \* what bytes that are no size header may read as

ASSUME FetchAssumption ==
  /\ StoredLens \subseteq Nat \ {0}
  /\ MaxChunk \in Nat \ {0}
  /\ PlainChunk \in Nat \ {0}
  /\ FreeSizesUnits \in Nat /\ FreeSizesUnits > 2
  /\ GarbageSizes \subseteq Nat

VARIABLES
  firmware,  \* how the device serves its log: "buffered", "inline" or "plain"
  stored,    \* the length of its log
  cursor,    \* units of the log sent in answer to plain reads
  enabled,   \* FALSE while the device is disabled for the bulk read
  pc,        \* the exchange the server makes next, or is in
  clock,     \* FetchResult.Clock: "none" so far, "read" or "unread"
  count,     \* deviceRecords: "none", "unknown" (0), "device" or "junk"
  size,      \* the length readBuffered or readChunked is reading up to
  out,       \* the bytes they have collected
  fetchErr,  \* readChunked returned an error
  outcome    \* of the fetch: "none" yet, "ok" or "failed"

deviceVars == <<firmware, stored, cursor, enabled>>
fetchVars == <<pc, clock, count, size, out, fetchErr, outcome>>
vars == <<wireVars, deviceVars, fetchVars>>

Log == [i \in 1 .. stored |-> i]

Least(a, b) == IF a < b THEN a ELSE b

-----------------------------------------------------------------------------
(* The device *)

Answer(code, data, len) == [code |-> code, data |-> data, size |-> len]

Piece(from, n) == SubSeq(Log, from + 1, Least(from + n, stored))

\* A device that has nothing wrong with it answers request q like this.
ProperAnswer(q) ==
  CASE q.cmd = "getTime"       -> Answer("OK", <<0>>, 0)
    [] q.cmd = "freeSizes"     -> Answer("OK", [i \in 1 .. FreeSizesUnits |-> 0], 0)
    [] q.cmd = "prepareBuffer" ->
         CASE firmware = "buffered" -> Answer("PREPARE", <<0, 0>>, stored)
           [] firmware = "inline"   -> Answer("DATA", Log, 0)
           [] OTHER                 -> Answer("ERROR", <<>>, 0)
    [] q.cmd = "readBuffer"    -> Answer("DATA", Piece(q.start, q.n), 0)
    [] q.cmd = "attLog"        ->
         IF firmware = "plain"
         THEN Answer("PREPARE", Piece(0, PlainChunk), stored - 1)
         ELSE Answer("ERROR", <<>>, 0)
    [] q.cmd = "data"          ->
         IF firmware = "plain"
         THEN Answer("DATA", Piece(cursor, PlainChunk), 0)
         ELSE Answer("ERROR", <<>>, 0)
    [] OTHER                   -> Answer("OK", <<>>, 0)

\* The size of an answer to freeSizes whose record count is negative.
Negative == 1

\* Answers that count as faults: a refusal, the last unit missing, or a negative
\* record count.
FaultyAnswers(q) ==
  LET proper == ProperAnswer(q) IN
  {Answer("ERROR", <<>>, 0)} \cup
    (IF proper.data = <<>> THEN {}
     ELSE {[proper EXCEPT !.data = Front(proper.data)]}) \cup
    (IF q.cmd = "freeSizes" THEN {[proper EXCEPT !.size = Negative]} ELSE {})

DeviceHandles ==
  /\ requests # <<>>
  /\ LET q == Head(requests)
         proper == ProperAnswer(q) IN
     \E a \in {proper} \cup FaultyAnswers(q) :
       /\ Handle(a, IF a = proper THEN 0 ELSE 1)
       /\ enabled' = IF a # proper THEN enabled
                     ELSE IF q.cmd = "disable" THEN FALSE
                     ELSE IF q.cmd = "enable" THEN TRUE
                     ELSE enabled
       /\ cursor' = IF firmware = "plain" /\ q.cmd = "attLog" THEN Len(a.data)
                    ELSE IF firmware = "plain" /\ q.cmd = "data"
                      THEN cursor + Len(a.data)
                    ELSE cursor
  /\ UNCHANGED <<firmware, stored, fetchVars>>

DeviceIgnores == Ignore /\ UNCHANGED <<deviceVars, fetchVars>>

ConnectionDrops == Drop /\ UNCHANGED <<deviceVars, fetchVars>>

-----------------------------------------------------------------------------
(* The server: every exchange of the fetch, in the order of the code *)

Exchanges == {"getTime", "disable", "freeSizes", "prepareBuffer", "readBuffer",
              "freeData", "attLog", "data", "plainFree", "enable"}

\* Variant: the enable command copied from the disable command.
CmdOfCopied(label) ==
  CASE label = "plainFree" -> "freeData"
    [] label = "enable"    -> "disable"
    [] OTHER               -> label
\* The plain path frees the device's buffer as well, with the same command.
CmdOf(label) == IF label = "plainFree" THEN "freeData" ELSE label

\* Where the next chunk starts, and a variant off by one after the first.
StartPastChunk == IF out = <<>> THEN 0 ELSE Len(out) + 1
Start == Len(out)
ChunkLen == Least(size - Start, MaxChunk)

SendCommand ==
  /\ pc \in Exchanges
  /\ IF pc = "readBuffer"
     THEN Write("readBuffer", Start, ChunkLen)
     ELSE Write(CmdOf(pc), 0, 0)
  /\ UNCHANGED <<deviceVars, fetchVars>>

\* The number the code reads where it expects the size header of cmd.
SizesRead(o, cmd) == IF o.ans = cmd THEN {o.size} ELSE GarbageSizes

GetDeviceTimeReturns ==
  /\ pc = "getTime"
  /\ \E o \in ReadOutcomes :
       /\ Return(o, "getTime")
       /\ clock' = IF Accepted(o, Codes \ {"ERROR"}, 1) THEN "read" ELSE "unread"
  /\ pc' = "disable"
  /\ UNCHANGED <<deviceVars, count, size, out, fetchErr, outcome>>

\* Variant: a command whose answer nobody wants is written and not read.
DisableUnread ==
  /\ pc = "disable"
  /\ waiting
  /\ waiting' = FALSE
  /\ pc' = "freeSizes"
  /\ UNCHANGED <<conn, replyID, requests, replies, late, faults, faulted, deviceID,
                 deviceVars, clock, count, size, out, fetchErr, outcome>>

DisableReturns ==
  /\ pc = "disable"
  /\ \E o \in ReadOutcomes : Return(o, "disable")
  /\ pc' = "freeSizes"
  /\ UNCHANGED <<deviceVars, clock, count, size, out, fetchErr, outcome>>

CountNegative(o) == o.ans = "freeSizes" /\ o.size = Negative

\* read_sizes checks the length of its answer, which the variant does not, and
\* the sign of the count in it.
SizesAcceptedAnyLength(o) == Accepted(o, {"OK"}, 0) /\ ~CountNegative(o)
SizesAccepted(o) == Accepted(o, {"OK"}, FreeSizesUnits) /\ ~CountNegative(o)

ReadRecordsReturns ==
  /\ pc = "freeSizes"
  /\ \E o \in ReadOutcomes :
       /\ Return(o, "freeSizes")
       /\ count' = IF ~SizesAccepted(o) THEN "unknown"
                   ELSE IF o.ans = "freeSizes" /\ ~CountNegative(o) THEN "device"
                   ELSE "junk"
  /\ pc' = "prepareBuffer"
  /\ UNCHANGED <<deviceVars, clock, size, out, fetchErr, outcome>>

\* readBuffered's first exchange.  An inline answer is the whole result; a size
\* header starts the chunk loop; anything else, and an empty result, makes
\* readChunked fall through to the plain command.
PrepareBufferReturns ==
  /\ pc = "prepareBuffer"
  /\ \E o \in ReadOutcomes :
       /\ Return(o, "prepareBuffer")
       /\ \/ /\ Accepted(o, {"DATA"}, 0)
             /\ out' = o.data
             /\ pc' = IF out' # <<>> THEN "enable" ELSE "attLog"
             /\ UNCHANGED size
          \/ /\ Accepted(o, {"OK", "PREPARE"}, 2)
             /\ size' \in SizesRead(o, "prepareBuffer")
             /\ pc' = IF size' > 0 THEN "readBuffer" ELSE "attLog"
             /\ UNCHANGED out
          \/ /\ ~Accepted(o, {"DATA"}, 0)
             /\ ~Accepted(o, {"OK", "PREPARE"}, 2)
             /\ pc' = "attLog"
             /\ UNCHANGED <<size, out>>
  /\ UNCHANGED <<deviceVars, clock, count, fetchErr, outcome>>

\* Variant: the loop ends with the last byte only.
ChunkEndsAtSize(got) == Start + Len(got) >= size

\* The chunk loop ends on an empty or a short chunk as on the last one.
ChunkEnds(got) == Len(got) < ChunkLen \/ Start + Len(got) >= size

ReadBufferReturns ==
  /\ pc = "readBuffer"
  /\ \E o \in ReadOutcomes :
       /\ Return(o, "readBuffer")
       /\ IF Accepted(o, {"DATA", "OK"}, 0)
          THEN /\ out' = out \o o.data
               /\ pc' = IF ChunkEnds(o.data) THEN "freeData" ELSE "readBuffer"
          ELSE /\ out' = <<>>
               /\ pc' = "attLog"
  /\ UNCHANGED <<deviceVars, clock, count, size, fetchErr, outcome>>

FreeDataReturns ==
  /\ pc = "freeData"
  /\ \E o \in ReadOutcomes : Return(o, "freeData")
  /\ pc' = IF out # <<>> THEN "enable" ELSE "attLog"
  /\ UNCHANGED <<deviceVars, clock, count, size, out, fetchErr, outcome>>

\* The size header counts the records, the result keeps the header as well; the
\* variant forgets the header.
PlainLenHeaderless(records) == records
PlainLen(records) == records + 1

\* readChunked's plain command; a header of 4 bytes or less means no data.
AttLogReturns ==
  /\ pc = "attLog"
  /\ \E o \in ReadOutcomes :
       /\ Return(o, "attLog")
       /\ \/ /\ ~Accepted(o, {"PREPARE", "OK"}, 0)
             /\ fetchErr' = TRUE
             /\ pc' = "enable"
             /\ UNCHANGED <<size, out>>
          \/ /\ Accepted(o, {"PREPARE", "OK"}, 0)
             /\ o.data = <<>>
             /\ pc' = "enable"
             /\ UNCHANGED <<fetchErr, size, out>>
          \/ /\ Accepted(o, {"PREPARE", "OK"}, 1)
             /\ \E records \in SizesRead(o, "attLog") :
                  IF records <= 1
                  THEN pc' = "enable" /\ UNCHANGED <<size, out>>
                  ELSE /\ size' = PlainLen(records)
                       /\ out' = o.data
                       /\ pc' = IF Len(out') < size' THEN "data" ELSE "plainFree"
             /\ UNCHANGED fetchErr
  /\ UNCHANGED <<deviceVars, clock, count, outcome>>

\* One turn of the plain path's loop; the code of the answer is not tested.
DataReturns ==
  /\ pc = "data"
  /\ \E o \in ReadOutcomes :
       /\ Return(o, "data")
       /\ IF ~o.ok
          THEN /\ fetchErr' = TRUE
               /\ out' = <<>>
               /\ pc' = "enable"
          ELSE /\ out' = out \o o.data
               /\ pc' = IF o.data = <<>> \/ Len(out') >= size
                        THEN "plainFree" ELSE "data"
               /\ UNCHANGED fetchErr
  /\ UNCHANGED <<deviceVars, clock, count, size, outcome>>

PlainFreeReturns ==
  /\ pc = "plainFree"
  /\ \E o \in ReadOutcomes : Return(o, "freeData")
  /\ out' = SubSeq(out, 1, Least(Len(out), size))
  /\ pc' = "enable"
  /\ UNCHANGED <<deviceVars, clock, count, size, fetchErr, outcome>>

\* Variant: the error return misses Disconnect.
EnableReturnsUnclosed ==
  /\ pc = "enable"
  /\ \E o \in ReadOutcomes : Return(o, "enable")
  /\ outcome' = IF fetchErr THEN "failed" ELSE "ok"
  /\ pc' = IF fetchErr THEN "done" ELSE "disconnect"
  /\ UNCHANGED <<deviceVars, clock, count, size, out, fetchErr>>

EnableReturns ==
  /\ pc = "enable"
  /\ \E o \in ReadOutcomes : Return(o, "enable")
  /\ outcome' = IF fetchErr THEN "failed" ELSE "ok"
  /\ pc' = "disconnect"
  /\ UNCHANGED <<deviceVars, clock, count, size, out, fetchErr>>

Disconnect ==
  /\ pc = "disconnect"
  /\ Close
  /\ pc' = "done"
  /\ UNCHANGED <<deviceVars, clock, count, size, out, fetchErr, outcome>>

-----------------------------------------------------------------------------
(* The specification *)

Init ==
  /\ WireInit
  /\ firmware \in {"buffered", "inline", "plain"}
  /\ stored \in StoredLens
  /\ cursor = 0
  /\ enabled = TRUE
  /\ pc = "getTime"
  /\ clock = "none"
  /\ count = "none"
  /\ size = 0
  /\ out = <<>>
  /\ fetchErr = FALSE
  /\ outcome = "none"

Server ==
  \/ SendCommand
  \/ GetDeviceTimeReturns
  \/ DisableReturns
  \/ ReadRecordsReturns
  \/ PrepareBufferReturns
  \/ ReadBufferReturns
  \/ FreeDataReturns
  \/ AttLogReturns
  \/ DataReturns
  \/ PlainFreeReturns
  \/ EnableReturns
  \/ Disconnect

Device == DeviceHandles \/ DeviceIgnores \/ ConnectionDrops

\* The fetch is over and the device has caught up.
Finished == pc = "done" /\ requests = <<>> /\ UNCHANGED vars

Next == Server \/ Device \/ Finished

Spec == Init /\ [][Next]_vars

\* The goroutine runs, and each of its reads returns or meets its deadline;
\* a device that has not used up its faults works on its requests.
Fairness == WF_vars(Server) /\ WF_vars(DeviceHandles)

FairSpec == Spec /\ Fairness

-----------------------------------------------------------------------------
(* Properties *)

\* The fetch keeps its types: the position in it, what was collected and the
\* clock and count it will report (FetchLogsWithClock).
TypeOK ==
  /\ WireTypeOK
  /\ firmware \in {"buffered", "inline", "plain"}
  /\ stored \in Nat \ {0}
  /\ cursor \in Nat
  /\ enabled \in BOOLEAN
  /\ pc \in Exchanges \cup {"disconnect", "done"}
  /\ clock \in {"none", "read", "unread"}
  /\ count \in {"none", "unknown", "device", "junk"}
  /\ size \in Nat
  /\ out \in Seq(Nat)
  /\ fetchErr \in BOOLEAN
  /\ outcome \in {"none", "ok", "failed"}

\* As long as no answer was late, what a successful fetch collected is the
\* beginning of the stored log: whichever path served it, and whatever was
\* refused, cut short or lost on the way, no unit is skipped, repeated or
\* taken from another answer.  (It need not be the whole log: a chunk that is
\* cut short ends the loop without an error.)
PayloadPrefix == late = 0 /\ outcome = "ok" => IsPrefix(out, Log)

\* The commands whose answers carry the log.
PayloadCmds == {"prepareBuffer", "readBuffer", "attLog", "data"}

\* A fetch survives the failure of everything that is only best effort: when
\* no answer was late and no fault hit a payload command or the connection, it
\* succeeds with the whole log (nothing at all when a plain device holds no
\* more than one unit of records, which is less than a record), and the clock
\* and the record count are lost only to their own faults.
TolerantFetch ==
  pc = "done" /\ late = 0 /\ faulted \cap (PayloadCmds \cup {"conn"}) = {} =>
    /\ outcome = "ok"
    /\ out = IF firmware = "plain" /\ stored <= 2 THEN <<>> ELSE Log
    /\ clock = "unread" => "getTime" \in faulted
    /\ count = "unknown" => "freeSizes" \in faulted

\* Even when answers are late, no other command's answer is ever taken for the
\* record count: the answers that can be under way when readRecords reads are
\* too short for its 80-byte check.  Nor is a negative number.
CountNeverJunk == count # "junk"

\* Every fetch comes to its end, whatever the device does.
FetchTerminates == <>(pc = "done")

\* A device disabled for the bulk read is enabled again, also after a failed
\* fetch, unless the connection was lost or the enable command itself failed.
DeviceReenabled ==
  <>[](enabled \/ faulted \cap {"conn", "enable"} # {})

\* Said of FetchLogsWithClock (service.go:119-120): a clock that cannot be read
\* is a warning, never a failed fetch.
ClockNeverFailsFetch == pc = "done" /\ faulted \subseteq {"getTime"} => outcome = "ok"

\* Said of the endpoint (README.md:51): the stored values are returned
\* unchanged.
StoredValuesUnchanged == outcome = "ok" => IsPrefix(out, Log)

=============================================================================
