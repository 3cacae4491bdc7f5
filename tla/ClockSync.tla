----------------------------- MODULE ClockSync -----------------------------
(***************************************************************************)
(* Reading and setting the device clock over one session: DeviceClock and  *)
(* SyncClock (service.go) once Connect has returned, with GetDeviceTime,   *)
(* SetDeviceTime and the drift of newClockInfo.                            *)
(*                                                                         *)
(* Unlike a fetch of the log, these end the session on the first error, so *)
(* no late answer is ever read.  What is left is time: the server's time   *)
(* is taken before the write that carries it is handled, and the device's  *)
(* before its answer arrives; a Read may take 10 seconds where the         *)
(* tolerance is 5, and an exchange as many Reads as its answer has pieces. *)
(*                                                                         *)
(* "now" is the server's clock in ticks; the device's clock is ahead of it *)
(* by "skew" ticks and is read and set in whole seconds.  The calendar in  *)
(* which the device counts them is left to TimeCodec.                      *)
(***************************************************************************)
EXTENDS ZKWire, Integers

CONSTANTS
  Second,     \* ticks in a second
  Tolerance,  \* ClockToleranceSeconds: 5 in the code
  MaxLatency, \* ticks a Read may take: 10 seconds in the code
  Start,      \* bound: the first and
  MaxTime,    \*        the last value of the server's clock
  RTCs        \* what the device's clock may show, in ticks, at Start

ASSUME ClockAssumption ==
  /\ Second \in Nat \ {0} /\ Tolerance \in Nat /\ MaxLatency \in Nat
  /\ Start \in Nat /\ MaxTime \in Nat /\ Start <= MaxTime
  /\ RTCs \subseteq Nat

VARIABLES
  now,       \* the server's clock
  skew,      \* the device's clock minus the server's
  obeys,     \* the firmware stores the time it is given, and not only says so
  taken,     \* the device has handled a CMD_SET_TIME without an error
  op,        \* "read" (DeviceClock) or "sync" (SyncClock)
  pc,        \* the exchange the server makes next, or is in
  sentAt,    \* when the command of that exchange was written
  deadline,  \* when the Read it waits in gives up
  before,    \* ServerTime of the first reading, in ticks
  drift,     \* DriftSeconds of the last reading
  outcome    \* "none" yet, "ok" or "failed"

deviceVars == <<now, skew, obeys, taken>>
serverVars == <<op, pc, sentAt, deadline, before, drift, outcome>>
vars == <<wireVars, deviceVars, serverVars>>

-----------------------------------------------------------------------------
(* The device and time *)

Seconds(ticks) == ticks \div Second

\* The answer of a device that has nothing wrong with it.
ProperData(q) == IF q.cmd = "getTime" THEN <<Seconds(now + skew)>> ELSE <<>>

\* The device stores the seconds it is given at the moment it handles them.
SetTo(seconds) == skew' = IF obeys THEN seconds * Second - now ELSE skew

\* It may also refuse, or answer without the time.
DeviceHandles ==
  /\ requests # <<>>
  /\ LET q == Head(requests) IN
       \/ /\ Handle([code |-> "OK", data |-> ProperData(q), size |-> 0], 0)
          /\ IF q.cmd = "setTime"
             THEN taken' = TRUE /\ SetTo(q.start)
             ELSE UNCHANGED <<taken, skew>>
       \/ /\ \E code \in {"ERROR"} \cup (IF q.cmd = "getTime" THEN {"OK"} ELSE {}) :
               Handle([code |-> code, data |-> <<>>, size |-> 0], 1)
          /\ UNCHANGED <<taken, skew>>
  /\ UNCHANGED <<now, obeys, serverVars>>

\* A command that is not answered may have been carried out all the same.
DeviceIgnores ==
  /\ Ignore
  /\ \/ UNCHANGED skew
     \/ Head(requests).cmd = "setTime" /\ SetTo(Head(requests).start)
  /\ UNCHANGED <<now, obeys, taken, serverVars>>

ConnectionDrops == Drop /\ UNCHANGED <<deviceVars, serverVars>>

\* A piece of the answer arrives that is not the last one: readFrame goes
\* round its loop, and the next Read has a deadline of its own.
PieceArrives ==
  /\ waiting /\ conn = "up"
  /\ replies # <<>>
  /\ deadline' = now + MaxLatency
  /\ UNCHANGED <<wireVars, deviceVars, op, pc, sentAt, before, drift, outcome>>

\* Time passes, but not beyond the deadline of a Read.
Tick ==
  /\ now < MaxTime
  /\ waiting => now < deadline
  /\ now' = now + 1
  /\ UNCHANGED <<wireVars, skew, obeys, taken, serverVars>>

-----------------------------------------------------------------------------
(* The server *)

\* encodeZKTime drops the fraction of a second; the variant rounds it up.
EncodedRoundedUp(ticks) == Seconds(ticks + Second - 1)
Encoded(ticks) == Seconds(ticks)

SendCommand ==
  /\ pc \in {"getTime", "setTime", "readBack"}
  /\ IF pc = "setTime" THEN Write("setTime", Encoded(before), 0)
                       ELSE Write("getTime", 0, 0)
  /\ sentAt' = now
  /\ deadline' = now + MaxLatency
  /\ UNCHANGED <<deviceVars, op, pc, before, drift, outcome>>

\* An exchange fails at the deadline of its last Read (or where time ends), with
\* its connection, or as soon as it meets bytes that begin no frame.
Ends(o, cmd) ==
  /\ Return(o, cmd)
  /\ ~o.ok /\ conn = "up" /\ o \notin BadMagic => now \in {deadline, MaxTime}
  /\ UNCHANGED <<sentAt, deadline>>

\* Every error ends the request; the variant goes on after it.
ProceedRegardless(ok, next) == pc' = next /\ UNCHANGED outcome
Proceed(ok, next) ==
  IF ok THEN pc' = next /\ UNCHANGED outcome
  ELSE pc' = "disconnect" /\ outcome' = "failed"

\* newClockInfo: a difference of two times, cut to whole seconds towards zero.
\* The variant rounds it down.
DriftFloored(reading) == (reading * Second - now) \div Second
Drift(reading) ==
  LET d == reading * Second - now IN
  IF d >= 0 THEN d \div Second ELSE -((-d) \div Second)

\* Variant: a tolerance on one side only.
InSyncOneSided(d) == d <= Tolerance
InSync(d) == d <= Tolerance /\ d >= -Tolerance

TimeAccepted(o) == Accepted(o, Codes \ {"ERROR"}, 1)

\* Service.Clock: the reading compared with the server's clock.
Clock(o) == drift' = IF TimeAccepted(o) THEN Drift(o.data[1]) ELSE drift

GetTimeReturns ==
  /\ pc = "getTime"
  /\ \E o \in ReadOutcomes :
       /\ Ends(o, "getTime")
       /\ Clock(o)
       /\ IF TimeAccepted(o) /\ op = "read"
          THEN pc' = "disconnect" /\ outcome' = "ok"
          ELSE Proceed(TimeAccepted(o), "setTime")
       /\ before' = IF TimeAccepted(o) THEN now ELSE before
  /\ UNCHANGED <<deviceVars, op>>

SetTimeReturns ==
  /\ pc = "setTime"
  /\ \E o \in ReadOutcomes :
       /\ Ends(o, "setTime")
       /\ Proceed(Accepted(o, {"OK"}, 0), "readBack")
  /\ UNCHANGED <<deviceVars, op, before, drift>>

ReadBackReturns ==
  /\ pc = "readBack"
  /\ \E o \in ReadOutcomes :
       /\ Ends(o, "getTime")
       /\ Clock(o)
       /\ outcome' = IF TimeAccepted(o) THEN "ok" ELSE "failed"
  /\ pc' = "disconnect"
  /\ UNCHANGED <<deviceVars, op, before>>

Disconnect ==
  /\ pc = "disconnect"
  /\ Close
  /\ pc' = "done"
  /\ UNCHANGED <<deviceVars, op, sentAt, deadline, before, drift, outcome>>

-----------------------------------------------------------------------------
Init ==
  /\ WireInit
  /\ now = Start
  /\ skew \in {rtc - Start : rtc \in RTCs}
  /\ obeys \in BOOLEAN
  /\ taken = FALSE
  /\ op \in {"read", "sync"}
  /\ pc = "getTime"
  /\ sentAt = Start
  /\ deadline = Start
  /\ before = 0
  /\ drift = 0
  /\ outcome = "none"

Server ==
  \/ SendCommand \/ GetTimeReturns \/ SetTimeReturns \/ ReadBackReturns
  \/ Disconnect

\* The request is over and the device has caught up.
Finished == pc = "done" /\ requests = <<>> /\ UNCHANGED vars

Next ==
  \/ Server
  \/ DeviceHandles \/ DeviceIgnores \/ ConnectionDrops
  \/ PieceArrives
  \/ Tick
  \/ Finished

Spec == Init /\ [][Next]_vars

-----------------------------------------------------------------------------
(* Properties *)

\* A reading, a write and the device's clock stay within the run of time, and
\* the reply id within its word (DeviceClock, SyncClock).
TypeOK ==
  /\ WireTypeOK
  /\ now \in Start .. MaxTime
  /\ skew \in Int /\ now + skew >= 0
  /\ obeys \in BOOLEAN /\ taken \in BOOLEAN
  /\ op \in {"read", "sync"}
  /\ pc \in {"getTime", "setTime", "readBack", "disconnect", "done"}
  /\ sentAt \in Start .. MaxTime
  /\ deadline \in Start .. (MaxTime + MaxLatency)
  /\ before \in 0 .. MaxTime
  /\ drift \in Int
  /\ outcome \in {"none", "ok", "failed"}

Synced == op = "sync" /\ outcome = "ok"

\* A sync succeeds only when the device has taken the write it reports on: no
\* answer to an earlier command passes for that of the write or the read-back.
ConfirmedAfterWrite == Synced => taken

\* "In sync" is as good as the exchange allows: a clock that is said to be in
\* sync is behind by less than the tolerance and the second lost in cutting
\* the drift, and ahead by no more than the second lost in the reading and the
\* time its answer was under way besides, which may be any number of deadlines.
\* After a write that the device obeys it is not ahead at all.
SaidInSync == outcome = "none" /\ outcome' = "ok" /\ InSync(drift')

InSyncHonest ==
  [][SaidInSync =>
       /\ skew > -(Tolerance + 1) * Second
       /\ skew < (Tolerance + 2) * Second + (now - sentAt)
       /\ op = "sync" /\ obeys => skew <= 0]_vars

\* A device that obeys is confirmed if writing and reading back took no more
\* than the tolerance: the fractions of a second dropped in writing the time, in
\* reading it and in the drift do not add up to one second more.
QuickSyncApplied ==
  Synced /\ obeys /\ pc = "disconnect" /\ now - before <= Tolerance * Second =>
    InSync(drift)

\* Whenever the device's clock is set, and be it by a write that timed out and
\* whose request has been answered 502 long ago, it is set to a time the
\* server's clock has shown since the request began: never to the future.
NeverSetAhead ==
  [][skew' # skew => /\ op = "sync"
                     /\ now + skew' \in (Start - Second + 1) .. now]_vars

=============================================================================
