# attend-sync: a TLA+ model

attend-sync is a small HTTP service that pulls the attendance log out of ZKTeco
terminals over their binary TCP protocol. This directory models it: what
one TCP session does when answers are late, missing, cut or refused; what a
fetch of the log, a clock sync and an info request make of that; how frames are
put together from the bytes of the stream, packets are summed and keys
scrambled; how records are found and read, and paged through by time; how
concurrent HTTP requests share a device that allows one session; and what a
server that stops leaves behind. TLC checks the
models on small instances; TLAPS proves every safety property of them for all
sizes.

## 1. The system

| Component | Code (`src/`) | State | Operations |
|---|---|---|---|
| Wire session | `internal/device/zkteco/session.go`, `proto.go` | TCP connection, session id, reply id | `dialRaw`, `exchange`, `readFrame`, `close` |
| Attendance fetch | `session.go`, `device.go`, `internal/attendance/service.go` | position in the fetch, bytes collected, clock, count | `FetchLogsWithClock`, `GetDeviceTime`, `GetAttendanceLogs`, `readRecords`, `readChunked`, `readBuffered` |
| Record grid | `attendance_raw.go`, `attendance_raw2.go` | none (pure) | `parseLogs`, `detectSize`, `parseRec`, `digitsOnly` |
| Record filter, epoch warning | `device.go`, `service.go`, `handlers.go` | none | the from/to filter, `validateAttendanceRequest`, `epochWarning` |
| Connect and diagnose | `device.go`, `session.go` | attempts, last error; on the device: its one session slot | `Connect`, `Diagnose`, `Disconnect`, `diagnose` |
| API handlers | `internal/api/handlers.go` | response, result channel, goroutine | seven routes |
| Clock service | `service.go`, `device.go` | device RTC | `Clock`, `DeviceClock`, `SyncClock` |
| Device info | `device.go` | none | `GetDeviceInfo`, `getOption` |
| Number codecs | `proto.go`, `attendance_raw*.go` | none | checksum, comm key, time codec |
| Factory, types, other vendors, start-up | the rest | none | constructors, stubs |

How they interact: a handler decodes a request, makes a `Device` of its own and
calls `Connect`, some exchanges and (deferred) `Disconnect`. Only the attendance
handler does this in a goroutine, and waits at most 90 s for its result; the
others run to the end. Handlers share nothing in memory. They meet on the
device, which gives its one slot to whoever connects first.

What is hard here:

* `exchange` matches no reply id and no session id, and the session is kept
  after a timeout. A late answer is read as the answer of the next command.
* `readFrame` drops what it read when its deadline passes, and drops the bytes
  it read behind a frame: frames can be cut from both ends.
* Half of the exchanges of a fetch are best effort; the rest of the fetch runs
  over whatever their failure left behind.
* The record count and the payload are read one after the other, and only a
  disable command whose result is ignored keeps users from punching in between.
* A connection closed without `CMD_EXIT` keeps the slot (device.go:69-72).
* After a 504 the goroutine goes on using the device.
* A clock sync compares, with a tolerance of 5 s, readings that may each be older
  than 10 s: every `Read` of an answer has a deadline of its own. And a write that
  timed out may still be carried out.
* The arithmetic of the protocol is odd: sums and reply ids modulo 65535, a
  calendar of 31-day months and two-digit years, a checksum computed with the
  reply id before the one that is sent.
* Stamps come from a clock that may be reset or set back between two pages.
* The server may stop between disabling a device and enabling it.

What makes each component correct is listed with its module below; the complete
list of hazards, at their lines, is in `PROJECT.json`.

## 2. The modules

**ZKWire** is one connection after its handshake. The TCP stream is two FIFO
queues. `Write` is `buildPacket` and the write of `exchange`; `Return` is the
end of `exchange` with one of `ReadOutcomes`, which are the ways `readFrame` can
end: the first frame whatever it answers (`FrameArrives`), "bad tcp magic"
inside a leftover (`BadMagic`), a deadline before or inside a frame, a
connection error. `Close` is `rawSession.close`. `Handle`, `Ignore` and `Drop`
are the device and the network (external). Payloads are counted in units of 4
bytes; the first units of a frame that is cut are not told apart from the rest
of it. The module checks type correctness, `InFlightBound` (how far answers can
shift against commands) and `ReplyIdsInStep` (the device always gets the reply
id that follows the last, also across the wrap).

**AttendanceFetch** extends ZKWire with the whole of `FetchLogsWithClock` after
`Connect`. `pc` names the exchange the server is in; `SendCommand` writes it and
one action per exchange takes its outcome, with the code's tests of the answer
and its branches: `GetDeviceTimeReturns`, `DisableReturns`,
`ReadRecordsReturns`, `PrepareBufferReturns`, `ReadBufferReturns`,
`FreeDataReturns`, `AttLogReturns`, `DataReturns`, `PlainFreeReturns`,
`EnableReturns`, `Disconnect`. The device answers as the code expects of
a buffered, an inline or an old plain firmware, or faultily: with a refusal, an
answer cut short, or a negative record count. The log is the sequence 1, 2, 3,
..., so that gaps, repetitions and foreign bytes show.

**FetchSession** puts AttendanceFetch under DeviceSessions: with a refinement
mapping from the position in the fetch to the phase of the session, and from the
connection and `CMD_EXIT` to the device's slot, each step of a fetch is a step
of DeviceSessions, `Lose` (the connection or the exit is lost) included.

**FetchRestart** runs fetch after fetch and lets the server stop in any of them.
`ServerStops` closes the connection without `CMD_EXIT`; `FetchAgain` is the next
`dialRaw`. The device, with its disabled flag, is all that survives.

**FrameReader** is `readFrame` byte by byte: `ReadReturns` takes what has
arrived, up to the buffer, and is in the first loop (`InHead`: top and header,
then the magic) or the second (`InBody`: the frame, with the limit tested after
every read). `DeadlinePasses` and `ConnectionError` end it. `AnswerArrives` and
`BytesArrive` cut the stream into segments anywhere. It refines ZKWire:
`ReadsAsWire` maps each end of a read to one of `ReadOutcomes`. Writing it
showed that ZKWire lacked an outcome, a second deadline inside what the first
has left of a frame, and `DeadlineInsideFrame` has it since.

**Packet** is `checksum` and `buildPacket` word by word, over any words, with
the reply id that the sum is computed with and the next one that is sent.
**CommKey** is `parseCommKey`, `makeCommKey` and the end of the handshake, bit by
bit, in bytes of `ByteBits` bits.

**ClockSync** extends ZKWire with `DeviceClock` and `SyncClock`. It has time: the
server's clock in ticks, the device's as a `skew` from it, read and written in
whole seconds. An exchange waits in one `Read` after the other: `PieceArrives` is a
part of the answer, after which `readFrame` goes round its loop and sets a new
`deadline`, and `Tick` is time passing up to that deadline. An exchange may thus
last for any number of deadlines. `Encoded` and `Drift` cut fractions as the code
does. **TimeCodec** is the calendar in which
`encodeZKTime` and `decodeZKTime` put such a time, around a device clock that
runs by the same calendar on its own.

**DeviceInfo** extends ZKWire with the four option reads of `GetDeviceInfo`.
The option k has the value k, so that one in another's place shows.

**RecordGrid** is `detectSize` and `parseLogs` as operators over the length, the
first word and the string test of a payload, inside the three steps disable,
count, read of `GetAttendanceLogs`, with users punching between them. Bare records
whose first word looks like a size prefix are among the payloads: they are read
four bytes too far.
**RecordFields** is what `parseRec` makes of a record's user, with `digitsOnly`
digit by digit in an int that wraps: a text that is too long becomes another
number, possibly a negative one.

**LogPages** is the from/to filter, its validation and `epochWarning`, used by a
client (external) that asks for one interval after the other while the device's
clock runs, is reset and is set. What the warnings of all pages together told is
kept for the properties (`told`).

**RequestLifecycle** is the abstract specification of one HTTP request with
device work: refused, or accepted, worked on once, and answered once, with the
outcome of its work or with a 504; work ends even if nobody waits.

**DeviceSessions** is the handlers on one device: `Refuse`, `Accept`, `Receive`,
`TimeOut`, `Return` for the HTTP side; `Probe` (Diagnose), `Dial`, `Handshake`,
`Authenticate`, `Use`, `Hangup` for the device side, with `Again` for Connect's
second attempt; `HandleExit`, `StaleExpires` and `Lose` (an established session
or its `CMD_EXIT` is lost) for the device's slot. What is said over a session is
the business of AttendanceFetch, ClockSync and DeviceInfo: here `Use` works or
fails. **MCDeviceSessions** adds the symmetry of its safety run.
It implements RequestLifecycle under the mapping in `Lifecycle`.
`TestDevice` and `DeviceInfo` write their response before the deferred
`Disconnect` runs; the model answers after it, because net/http sends these
short responses only when the handler has returned.

**MCWire** joins Packet, FrameReader and CommKey for one run, **MCRequests**
ClockSync and DeviceInfo, and **MCLog** RecordGrid, RecordFields, TimeCodec and
LogPages. They add no behaviour: the parts do not interact there.

Eight modules hold the theorems. **ZKWireProofs** has the lemmas on the wire that
three others use: **AttendanceFetchProofs** (with FetchSession and FetchRestart),
**ClockSyncProofs** (with MCRequests as a whole) and **DeviceInfoProofs**.
**PacketProofs** is about all of MCWire, **LogProofs** about all of MCLog, with
**TimeCodecProofs** for the calendar, and **DeviceSessionsProofs** about the
handlers. Operators called a variant in a comment (`NextReplyIdNarrow`,
`FailUnclosed`, ...) are the operator next to them with a plausible mistake; they
are used in no specification and serve to show that a property notices it.

## 3. The runs

| Run | Bounds | States | What it shows |
|---|---|---|---|
| `fetch` | reply ids wrap at 5, 2 faults, logs of 1 and 5 units, chunks of 2 | 313,413 | `TypeOK`, `InFlightBound`, `ReplyIdsInStep`; without late answers a successful fetch returns a prefix of the log (`PayloadPrefix`) and everything that is best effort may fail without failing it (`TolerantFetch`); no foreign answer and no negative number becomes the record count, even with late answers (`CountNeverJunk`); every fetch ends (`FetchTerminates`), and the device is enabled again unless the connection or the enable command was lost (`DeviceReenabled`); a fetch is a session as DeviceSessions has it (`KeepsSession`), and returns the slot unless the connection or `CMD_EXIT` was lost (`SlotReturned`) |
| `fetch_restart` | the same, 2 stops, 3 fetches | 1,812,533 | only a stop, a lost connection or a failed enable leaves the device disabled, and the next fetch that runs to its end makes it good (`EnabledAfterFetch`) |
| `wire` | words below 16, payloads of 0, 1, 2 and 5 bytes; frames of 4, 8 and 10 bytes, buffer 5, limit 9, 3 exchanges, 3 faults; bytes of 2 bits, keys up to 65 | 413,340 | the checksum is congruent to the complement of the sum and fits a word (`ChecksumExact`); the packet balances with its next reply id (`PacketBalanced`); every segmentation of the stream gives an outcome of ZKWire or a frame refused for its length (`ReadsAsWire`), and which those are (`LimitHonest`); each read ends (`ReadEnds`); keys of up to three bytes are told apart with every session id (`KeysToldApart`) |
| `requests` | 2 ticks a second, tolerance of 1 second, read deadline of 4 ticks, 12 ticks in all, 3 device clocks; any options blank; 2 faults | 4,678,708 | a sync that succeeds was taken (`ConfirmedAfterWrite`); in sync means in sync, but for cut fractions and for the time that the answer took, of one deadline or several (`InSyncHonest`); a quick sync is confirmed (`QuickSyncApplied`); no write sets the clock ahead, however late it is carried out (`NeverSetAhead`); without late answers each field of the device info is its own and costs no other (`OwnOptions`); with them the fields only lag, by no more than the late answers (`FieldsLag`) |
| `log` | 6 records, 7 first words; texts of 4 characters, ints of 10 bits; 3 ticks a day, 1997 to 2100, one summer time; clocks up to 7, 3 punches | 1,696,080 | a fresh count gives the device's own grid, or, if bare records are taken for framed ones, no shifted record goes unnoticed (`FreshCountExact`); without a count records are not split (`GuessNeverSplits`); one punch in between is noticed on short records but for one case (`OnePunchNoticed`); a punch's user is the text's number, cut to an int, or the record's (`NoInventedUser`); from 2000 to 2099 the device's clock reads as the server's, and an unset clock counts from 2000-01-01 (`ReadsAsSet`); each punch is on one page, unless its stamp was behind the pages when it was made (`EachPunchOnce`), and each one that an unset clock stamped is in the warning of its page (`UnsetClockTold`) |
| `sessions_safety` | 3 requests, 1 fault, 2 attempts | 3,880,058 up to symmetry | every held slot is accounted for (`SlotAccounted`); a request alone on a free device is served (`AloneIsServed`); an established session ends when the device handles its `CMD_EXIT` or by a fault of its connection, whatever its request runs into and whatever the others do (`SessionsEndWithExit`) |
| `sessions_liveness` | 2 requests, 1 fault | 207,028 | the handlers implement RequestLifecycle, fairness included; no request keeps the slot |

`wire`, `requests` and `log` each run several small modules at once: a variable
`part`, chosen at the start, says which of them moves in a behaviour, so their
states add up and do not multiply.

Why the bounds are enough. Two faults make one answer late and hit a second
exchange, or shift the answers by two. A wrap at 5 happens inside every fetch,
and so does each chunk boundary: a log of 5 units is two full chunks and a
partial one, a log of 1 unit is an empty log with its prefix. `GarbageSizes`
gives a size header that is no size header the values "empty" and "too short".
`FreeSizesUnits` is the code's 20. In RecordGrid the payloads reach 244 bytes,
so all coincidences of 8, 16 and 40 happen up to the second multiple of 80, and
the first words (first user ids, below 65536) include those that look like a
size prefix of a small bare payload. Three requests are enough for an abandoned
goroutine, its client's next request and a third party.

In FrameReader a frame of 10 bytes is longer than the limit, one of 8 is not
but may be read together with bytes that make it so, and one of 4 is a header
by itself; three exchanges leave what the first cut to the next two. TimeCodec
is exhaustive in the days of a century: every end of a month, every leap year,
2000 (a leap year) and 2100 (none). In ClockSync a deadline is twice the
tolerance, as in the code (10 s and 5 s), an answer may take three deadlines, which
is more than the tolerance and the cut seconds together, and a tick is half a
second, so that each of the three fractions that are dropped occurs. The device's
clock begins at the edge of the tolerance behind, in step, or so far ahead that only
an answer older than one deadline is said to be in sync. CommKey's bytes have
two bits and its four bytes all occur in keys up to 65. RecordFields' int
overflows with the last digit of its texts. `Finished` (`Done` in the
sequential modules) is the only stuttering action: anything else that stops would
be reported as a deadlock.

Five runs each show a statement of the documentation or of a comment to be wrong
of the code:

| Run | Statement | What happens |
|---|---|---|
| `clock_claim` | service.go:119-120, an unreadable clock never fails the fetch | its answer comes late, every answer shifts by one, the log commands are "rejected" |
| `values_claim` | README.md:51, stored values are returned unchanged | a late answer's bytes become part of the log |
| `grid_caught_claim` | device.go:469, "the one check that catches a mis-aligned grid" | count 1, punch, two 8-byte records decoded as one of 16 bytes: counts agree |
| `dial_claim` | device.go:172, the SYN went unanswered | a refused dial is reported as "TCP itself timed out" |
| `diagnose_claim` | device.go:270, network and protocol failures are separated | the probe's own stale slot resets the handshake of a healthy device |

`diagnose_claim` rests on the behaviour of the device that device.go:69-72
describes; a device that frees the slot at once is a behaviour of the model too.

The conditions in other properties mark narrower limits of the same kind, which
have no run of their own: `QuickSyncApplied` asks for a quick read-back, since a
slow one makes a device that took the time "not applied"; `OwnOptions` for no late
answer; `ReadsAsSet` for dates from 2000 on, since `encodeZKTime` keeps two digits
of the year. `FreshCountExact` allows bare records that look framed to be read as an
empty log without a mismatch, since parseLogs returns before it compares.
`NoInventedUser` does not say that a long text is rejected: it becomes what is left
of its value in an int. And `EachPunchOnce` and `UnsetClockTold` speak of punches
behind the pages, because an unset clock's records are filtered out by a `from`
before `epochWarning` looks at them: a client that begins at a later year is never
told.

## 4. Fairness

`FairSpec` of AttendanceFetch assumes weak fairness of the server (goroutines
run, and every read has a deadline, session.go:104) and of `DeviceHandles`. A
device that ignores a command is not assumed away: ignoring is a fault, and
when faults are used up a command that is waiting is handled. Nothing is assumed
about faults happening or not. DeviceSessions assumes weak fairness of each
request's device code (dials, exchanges and the sleep all end), of its response
(the 90 s timer fires) and of the device handling a `CMD_EXIT` that reached it;
a stale slot need not ever expire. FrameReader assumes weak fairness of the reader
alone: a `Read` that can return does, and a deadline before which nothing comes
passes (session.go:104, 115, 138); MCWire asks the same of the reader's part.
Nothing is assumed of the device or of the network. FetchSession takes over the
fairness of AttendanceFetch.

## 5. The proofs

Every safety property of the passing runs is a theorem, for all values of the
constants. What is assumed of the constants is named in the modules:
`WireAssumption`, `FetchAssumption`, `RestartAssumption`, `ReaderAssumption` (a
header and one full buffer are within the limit, which the first loop of
`readFrame` does not test), `PacketAssumption` (the wide int holds four words),
`KeyAssumption`, `ClockAssumption`, `SessionsAssumption` (no request is called
"no one" or "stale"), `GridAssumption`, `FieldsAssumption`, `CodecAssumption` (a
summer time of at most a day, clocks within two centuries), `PagesAssumption`. TLC
evaluates them in each run.

An invariant is seldom inductive by itself. For each one: what had to be added.

**The wire** (ZKWireProofs). `InFlightBound` is inductive with
`DropLosesRequests` (a lost connection carries no request). Under it,
`OutcomeFlight` says of each way a read can end how many frames it leaves, and
`AloneUnderWay` that without late answers the one frame under way is the present
exchange's. A set of frames that is closed under becoming stale (and under being
cut) stays a set of what is under way.

**The fetch** (AttendanceFetchProofs).

* `TypeCorrect`: a read-buffer request has a natural length only because the chunk
  loop is entered and continued with bytes missing (`ChunkLoop`).
* `FlightBounded`: `InFlightBound`, with the session closed by the last step only.
* `IdsKept`: `ReplyIdsInStep`. Without late answers the server's id is the
  device's or, while a request is under way, the one after it modulo 65535;
  hence the wrap never skips and never repeats (`IdsInv`).
* `CountHonest`: `CountNeverJunk`. Until the count is read only three commands were
  ever written, and the answers of the other two are too short (`EarlyFrames`); a
  negative count is refused.
* `ReturnsPrefix`: `PayloadPrefix`. What is under way asks for, or carries, the
  piece of the log that follows what is collected (`Collecting`).
* `SurvivesBestEffort`: `TolerantFetch`. As long as nothing but best-effort
  exchanges was hit and none of their answers is late (`clock_claim` shows what a
  late one does), the exchange in progress has its command or its whole answer
  under way, each result that is missing is one that was hit, and the fetch is on
  its way (`Tolerant`).
* `EnablesAgain`: `EnabledAfterFetch` of FetchRestart. Once the enable command of a
  fetch is written, what is under way ends with the device enabled
  (`LeavesEnabled`), also past stale commands of the session.
* `SessionImplemented`: `KeepsSession`, each step of a fetch is a step of
  DeviceSessions or a stutter. `CMD_EXIT` is the last command and written by
  the last step (`ExitLast`), so the slot is held until then.

**The bytes** (PacketProofs).

* `PacketTypeCorrect`, `ChecksumIsExact`, `EveryPacketBalanced`: the invariant says,
  step by step of the checksum, what was taken from the sum: a multiple of
  65535, with explicit witnesses. The exchange of the reply id is right
  because the header was read by then (`Header`).
* `ReaderTypeCorrect`, `HonestLimit`, `ReaderImplementsWire`: for every buffer, limit
  and segmentation. The invariant says how frames lie in the stream: each begins
  where the last ends, a whole one has the bytes its data needs, a leftover has
  fewer (`StreamInv`), and the read stands where a read can stand (`ReadInv`).
  Then each end of a read is one outcome of ZKWire and leaves what that leaves.
* `WirePartsTypeCorrect`, `KeysAreToldApart`: CommKey. `Power`, `Shifted`,
  `Reversing` and `Xors` are recursive functions; what they compute is proved up
  to the width of the word. A mirrored key of three bytes leaves the lowest byte
  empty (`Zeros`), so the session id's lower byte carries nothing out of it
  (`MingledUpper`), the three bytes above it are those that survive
  (`BytesSurvive`), and mirroring forgets no bit (`SameBits`).

**The clock and the info** (ClockSyncProofs, DeviceInfoProofs).

* `TypeCorrect`, `SetsNoFuture`, `ConfirmsTheWrite`, `HonestAboutSync`,
  `AppliesQuickSync`: all of ClockSync. A sync that goes on has no late answer
  behind it (`Course`), so the frame under way is the present exchange's, and
  says what the device's clock showed since it was asked (`Exchange`). How long ago
  that is has no bound, each piece of the answer having a deadline of its own, so
  `HonestAboutSync` counts from `sentAt`. Every write
  that may still arrive carries a second of the server's clock that has begun
  (`TimelyWrites`). The rest is arithmetic with cut seconds.
* `LagsBehind`, `FailsAlone`: `FieldsLag` and `OwnOptions`. The values on the way are
  in the order of the options, each later than all that was read, and no further
  behind the option asked for than its place on the way and the late answers
  explain (`WayInv`). Without late answers, no more fields are lost than faults
  happened (`Lost`).
* `RequestsTypeCorrect`, `InfoLagsBehind`, `InfoFailsAlone` carry these over to
  MCRequests: each of its steps is a step of one part, on the same wire.

**The log** (LogProofs, TimeCodecProofs).

* `GridTypeCorrect`, `FreshCountDecides`, `NeverSplits`, `NoticesOnePunch`: all of
  RecordGrid, from `GridIInv`: a whole payload is its records' bytes, a disabled
  device keeps its count, the results are those of the payload. The rest is
  division: n records of r bytes divide back to n and r (`EvenGrid`), and one
  record more is never an even grid of the old count, but for the case that
  the property excludes (`OneMore`). Bare records that look framed lose four bytes,
  and what is left is no multiple of a record size (`ShiftedGrid`), so fewer records
  are read than were counted.
* `InventsNoUser`: `NoInventedUser`, for texts of any length and any even width of an
  int. `Values` is a recursive function; what it computes is proved by the least
  position at which it would not (`ValuesAre`). Cutting to an int at every digit is
  cutting once at the end (`CutOnce`).
* `ReadsBack`, `ClockReadsAsSet`: `ReadsAsSet`, for every length of a day. The day's
  date is found and is the only one (`DateFound`, `DatesEqual`), the day after it
  is the calendar's next (`DayAfter`), and a tick of the device's clock is a tick of
  the server's in the packed form (`NextPacked`); so the device's stored stamp is
  always the encoding of the server's time (`CodecIInv`).
* `PunchesOnce`: `EachPunchOnce`. Pages never go back (`EdgeGrows`), and a stamp was
  returned once if it is behind the edge, and not yet if it is not.
* `TellsOfUnsetClock`: `UnsetClockTold`. A page takes the stale punches between its
  edges, and the sets of different pages are disjoint (`PullTold`); a new punch is
  behind what was told or still ahead of it (`PunchTold`).
* `PartsTypeCorrect`, and the theorems about a single part, carry over to MCLog,
  whose behaviours are behaviours of each part (the lemma `PartsImplemented`).

**The handlers** (DeviceSessionsProofs), for any number of requests.

* `TypeCorrect`, `SlotIsAccounted`: only the request that moves becomes the holder,
  and only by its dial.
* `EndsWithExit`: `SessionsEndWithExit`. A held slot is given to nobody else, and each
  step of the holder keeps its session until `Hangup` has sent its exit
  (`WorkKeepsEstablished`); the steps of others touch neither.
* `ServesAlone`: `AloneIsServed`. A request that found the device free and was not
  joined is the only one at work; it finds the slot free, keeps it and needs
  one attempt (`KeepsSlot`).
* `LifecycleKept`: the safety part of `KeepsLifecycle`, with `AnswersOnce`: a request
  is refused before its work starts, only the attendance handler may answer
  before its work is over, and what is in its channel is the result of that work.

One thing came out of the proofs: `TolerantFetch` did not hold as first written.
It excepted the plain device's empty log, which was the only short log that the
runs had; a plain device's two units, size prefix included, are also taken for
none, and the proof stopped there. The property says so since.

Only model-checked is liveness: `FetchTerminates`, `DeviceReenabled`,
`SlotReturned`, `ReadEnds`, `SessionGivenBack` and the fairness half of
`KeepsLifecycle`. TLAPS has no proof rule for the enabledness that
weak fairness asks for.

## 6. Not modelled

* Wording, logging, JSON shapes, and the names `stateString` and `verifyString`
  give to a record's state and verification bytes.
* A frame whose declared length is shorter than a header, which no device sends,
  and memory: the buffer for a log has the size that the device announced.
* Validation rules other than from before to: a request is refused or accepted.
  Health does nothing.
* `Connect` on an open `Device` (device.go:59-65): every handler makes its own.
* `WriteTimeout` of 2 minutes (main.go): the longest of the other handlers is two
  attempts of 30 s, a pause of 2 s and four option reads of 10 s, which is below it.
* A server that stops in a request other than a fetch: it leaves a stale slot, as
  `Lose` does, and nothing else.
* Other vendors: stubs the factory never constructs.

## 7. Plan

Done: all modules above, and a theorem for every property of the runs that is
not liveness. Left:

1. The two theorems on HTTP and session lives (`LifecycleKept`,
   `SessionImplemented`) rest on invariants stated for one component; the
   composition of DeviceSessions with a full fetch inside `Use` could be stated
   as one module, and its safety would follow from both.
2. Time bounds: that a fetch ends within a number of exchanges that depends on the
   log's length only. That is a safety property, unlike `FetchTerminates`, and
   within the prover's reach.
3. Shorter proofs: the lemmas on frames that are closed under becoming stale
   could be one lemma for AttendanceFetch, ClockSync and DeviceInfo.
