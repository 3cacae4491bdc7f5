----------------------------- MODULE RecordGrid -----------------------------
(***************************************************************************)
(* How parseLogs and detectSize (attendance_raw.go) find the size of the   *)
(* records in an attendance payload, and what GetAttendanceLogs does       *)
(* before that: disable the device, ask for its record count, read the     *)
(* payload.  Nothing makes those three steps one: disabling is best        *)
(* effort, the count may be unavailable (0), a user may punch in between,  *)
(* and a payload that stops early is not an error.                         *)
(*                                                                         *)
(* A payload is reduced to what the decision looks at: its length in       *)
(* bytes, its first 32-bit word, and whether its first 40 bytes look like  *)
(* a record with a printable user id.                                      *)
(***************************************************************************)
EXTENDS Integers

CONSTANTS
  MaxRecords,  \* bound on the records the device holds
  FirstWords   \* first words that a payload of bare records may have: the
               \* first user id (below 65536), or 0 if it has none

ASSUME GridAssumption ==
  /\ MaxRecords \in Nat
  /\ FirstWords \subseteq Nat /\ 0 \in FirstWords /\ FirstWords # {0}

-----------------------------------------------------------------------------
(* parseLogs, as functions of what it looks at *)

RecordSizes == {8, 16, 40}
PrefixLen == 4

\* [0:4] is taken for the total_size prefix when it plausibly describes the
\* payload; the variant counts the prefix in.
LooksFramedWhole(len, word) == len >= PrefixLen /\ word > 0 /\ word = len
LooksFramed(len, word) ==
  len >= PrefixLen /\ word > 0 /\ word <= len /\ word >= len - PrefixLen

Fits(size, bodyLen) == bodyLen >= size /\ bodyLen % size = 0

\* The preference among grids that fit: 40 if the user field is a printable
\* string, 16 before 8, and 40 as a last resort; 0 if none fits.  The variant
\* prefers 8.
FirstChoiceSmallest(sizes, looks) ==
  IF looks /\ 40 \in sizes THEN 40
  ELSE IF 8 \in sizes THEN 8
  ELSE IF 16 \in sizes THEN 16
  ELSE IF 40 \in sizes THEN 40
  ELSE 0

FirstChoice(sizes, looks) ==
  IF looks /\ 40 \in sizes THEN 40
  ELSE IF 16 \in sizes THEN 16
  ELSE IF 8 \in sizes THEN 8
  ELSE IF 40 \in sizes THEN 40
  ELSE 0

\* The last two steps of detectSize: a grid that fits and agrees with the
\* count, or else any that fits.
Guess(bodyLen, counted, looks) ==
  LET fitting == {s \in RecordSizes : Fits(s, bodyLen)}
      agreeing == {s \in fitting : counted > 0 /\ bodyLen \div s = counted}
  IN FirstChoice(IF agreeing # {} THEN agreeing ELSE fitting, looks)

\* The first two: the quotient of the bytes (total_size, or the body's length
\* when there is no prefix) and the device's count, if it is a record size.
DetectSize(bodyLen, totalSize, counted, looks) ==
  LET bytes == IF totalSize > 0 THEN totalSize ELSE bodyLen IN
  IF /\ counted > 0
     /\ bytes % counted = 0
     /\ bytes \div counted \in RecordSizes
     /\ totalSize > 0 => bodyLen >= bytes \div counted
  THEN bytes \div counted
  ELSE Guess(bodyLen, counted, looks)

TotalSize(len, word) == IF LooksFramed(len, word) THEN word ELSE 0
BodyLen(len, word) == IF LooksFramed(len, word) THEN len - PrefixLen ELSE len

RecordSize(len, word, counted, looks) ==
  IF BodyLen(len, word) = 0 THEN 0
  ELSE DetectSize(BodyLen(len, word), TotalSize(len, word), counted, looks)

\* grid.Mismatch: not set by the early returns, nor when the count is 0.  The
\* variant looks for too many records only.
MismatchFlagLong(size, counted, parsed) ==
  size # 0 /\ counted > 0 /\ parsed > counted

MismatchFlag(size, counted, parsed) ==
  size # 0 /\ counted > 0 /\ parsed # counted

-----------------------------------------------------------------------------
VARIABLES
  dialect,   \* the size of the device's records
  records,   \* how many it holds
  blank,     \* how many of them have no user id: parseRec rejects them
  disabled,  \* the device accepts no punches
  phase,     \* "disable", "count", "read", "parse", "done"
  counted,   \* deviceRecords, 0 for unknown
  payload,   \* what readChunked returned
  looks,     \* looksLikeStringUser of the body's first 40 bytes
  size,      \* grid.RecordSize
  parsed,    \* len(out)
  mismatch   \* grid.Mismatch

vars == <<dialect, records, blank, disabled, phase, counted, payload, looks,
          size, parsed, mismatch>>

\* "holds" records were stored when it was read; "framed": the device put the
\* prefix in front; "complete": no byte of it is missing.
Payloads == [len : Nat, word : Nat, holds : Nat, framed : BOOLEAN,
             complete : BOOLEAN]

NoPayload == [len |-> 0, word |-> 0, holds |-> 0, framed |-> FALSE,
              complete |-> FALSE]

\* A user punches: possible until the device takes CMD_DISABLEDEVICE to heart.
Punch ==
  /\ ~disabled
  /\ phase \in {"disable", "count", "read"}
  /\ records < MaxRecords
  /\ records' = records + 1
  /\ UNCHANGED <<dialect, blank, disabled, phase, counted, payload, looks,
                 size, parsed, mismatch>>

\* The result of CMD_DISABLEDEVICE is thrown away.
DisableDevice ==
  /\ phase = "disable"
  /\ disabled' \in BOOLEAN
  /\ phase' = "count"
  /\ UNCHANGED <<dialect, records, blank, counted, payload, looks, size,
                 parsed, mismatch>>

\* A count that cannot be read is only logged.
ReadRecords ==
  /\ phase = "count"
  /\ counted' \in {0, records}
  /\ phase' = "read"
  /\ UNCHANGED <<dialect, records, blank, disabled, payload, looks, size,
                 parsed, mismatch>>

\* A first word of zero means that the first record has no user id.
FirstRecordHas(word) ==
  IF word = 0 THEN blank > 0 ELSE blank < records \/ records = 0

\* The payload, with or without the prefix, whole or cut short at a multiple of
\* 4 bytes.
ReadChunked ==
  /\ phase = "read"
  /\ \E framed \in BOOLEAN, w \in {x \in FirstWords : FirstRecordHas(x)} :
       LET whole == records * dialect + IF framed THEN PrefixLen ELSE 0 IN
       \E units \in 0 .. whole \div 4 :
         payload' = [len |-> 4 * units,
                     word |-> IF framed THEN records * dialect ELSE w,
                     holds |-> records,
                     framed |-> framed,
                     complete |-> 4 * units = whole]
  /\ looks' \in BOOLEAN
  /\ phase' = "parse"
  /\ UNCHANGED <<dialect, records, blank, disabled, counted, size, parsed,
                 mismatch>>

\* How many records parseRec may accept: off the real grid, anything.
Parsable(grid) ==
  IF grid = 0 THEN {0}
  ELSE LET slots == BodyLen(payload.len, payload.word) \div grid
           aligned == /\ grid = dialect
                      /\ payload.framed = LooksFramed(payload.len, payload.word)
       IN IF aligned /\ payload.complete THEN {slots - blank} ELSE 0 .. slots

ParseLogs ==
  /\ phase = "parse"
  /\ size' = RecordSize(payload.len, payload.word, counted, looks)
  /\ parsed' \in Parsable(size')
  /\ mismatch' = MismatchFlag(size', counted, parsed')
  /\ phase' = "done"
  /\ UNCHANGED <<dialect, records, blank, disabled, counted, payload, looks>>

Finished == phase = "done" /\ UNCHANGED vars

Init ==
  /\ dialect \in RecordSizes
  /\ records \in 0 .. MaxRecords
  /\ blank \in {0, 1}
  /\ blank <= records
  /\ disabled = FALSE
  /\ phase = "disable"
  /\ counted = 0
  /\ payload = NoPayload
  /\ looks = FALSE
  /\ size = 0
  /\ parsed = 0
  /\ mismatch = FALSE

Next ==
  \/ Punch
  \/ DisableDevice
  \/ ReadRecords
  \/ ReadChunked
  \/ ParseLogs
  \/ Finished

Spec == Init /\ [][Next]_vars

-----------------------------------------------------------------------------
(* Properties *)

\* The record size is one of the device's or none, and a number of records is
\* never negative (parseLogs, detectSize).
TypeOK ==
  /\ dialect \in RecordSizes
  /\ records \in Nat
  /\ blank \in Nat /\ blank <= records
  /\ disabled \in BOOLEAN
  /\ phase \in {"disable", "count", "read", "parse", "done"}
  /\ counted \in Nat
  /\ payload \in Payloads
  /\ looks \in BOOLEAN
  /\ size \in RecordSizes \cup {0}
  /\ parsed \in Nat
  /\ mismatch \in BOOLEAN

\* The payload arrived whole, and bare records were not taken for framed ones.
TakenAsSent == payload.framed \/ ~LooksFramed(payload.len, payload.word)
WholeLog == phase = "done" /\ payload.complete /\ TakenAsSent

\* When the payload is whole and the count is the number of records in it, in
\* particular when the device took the disable command, the grid is the
\* device's own (never one of the other sizes that also divide the payload),
\* and a mismatch is flagged exactly when a record has no user id.  If the first
\* user id of bare records is taken for the size prefix, which shifts them all
\* by four bytes, no shifted record goes unnoticed: a mismatch is flagged, or no
\* record is read at all.
FreshCountExact ==
  /\ phase = "done" /\ payload.complete
  /\ counted > 0 /\ (disabled \/ counted = payload.holds)
  => IF TakenAsSent
     THEN /\ size = dialect
          /\ parsed = counted - blank
          /\ mismatch <=> blank > 0
     ELSE parsed < counted /\ (parsed > 0 => mismatch)

\* Without a count, records are not split: 16-byte ones are never read as
\* 8-byte ones, and 40-byte ones with a printable user id keep their size.
GuessNeverSplits ==
  WholeLog /\ counted = 0 /\ payload.holds > 0 =>
    /\ dialect = 16 => size # 8
    /\ dialect = 40 /\ looks => size = 40

\* One punch between the count and the payload never goes unnoticed on a
\* device with short records, unless it is the second punch of an 8-byte one:
\* the grid is still right or the mismatch is flagged.
OnePunchNoticed ==
  /\ WholeLog
  /\ counted > 0
  /\ payload.holds = counted + 1
  /\ dialect # 40
  /\ ~(dialect = 8 /\ counted = 1)
  => size = dialect \/ mismatch

\* Said of the check in GetAttendanceLogs (device.go:469-471): the one that
\* catches a mis-aligned grid.
WrongGridCaught ==
  WholeLog /\ counted > 0 /\ size \notin {0, dialect} => mismatch

=============================================================================
