------------------------------ MODULE LogPages ------------------------------
(***************************************************************************)
(* The log pulled page by page: the from and to of a request as            *)
(* validateAttendanceRequest (handlers.go) lets them through and           *)
(* GetAttendanceLogs (device.go) filters by them, and the epochWarning     *)
(* (service.go) of each page, while the device's clock runs, loses its     *)
(* battery and is set, and punches are added with the time that it shows.  *)
(*                                                                         *)
(* The client is external: it asks for one interval after the other, each  *)
(* to the last second before the next one, as in the README's example.     *)
(***************************************************************************)
EXTENDS Integers, Sequences, FiniteSets

CONSTANTS
  EpochEnd,    \* the first second of epochWarningYear
  First,       \* where a client begins that asks for a from
  MaxTime,     \* bound: the last value of a clock
  MaxPunches   \* bound: punches

VARIABLES
  now,       \* the server's clock
  rtc,       \* the device's
  log,       \* the punches: each with its stamp and the client's edge at the time
  edge,      \* the first second the client has not asked for; Nil for no from
  returned,  \* history: how often each punch was returned
  warning,   \* of the last page: so many of so many records are stale
  told       \* history: the stale records of all warnings together

vars == <<now, rtc, log, edge, returned, warning, told>>

Nil == -1

-----------------------------------------------------------------------------
(* The device *)

Punch ==
  /\ Len(log) < MaxPunches
  /\ log' = Append(log, [stamp |-> rtc, edge |-> edge])
  /\ returned' = Append(returned, 0)
  /\ UNCHANGED <<now, rtc, edge, warning, told>>

ClocksRun ==
  /\ now < MaxTime /\ rtc < MaxTime
  /\ now' = now + 1 /\ rtc' = rtc + 1
  /\ UNCHANGED <<log, edge, returned, warning, told>>

BatteryEmpty ==
  /\ rtc # 0
  /\ rtc' = 0
  /\ UNCHANGED <<now, log, edge, returned, warning, told>>

ClockSet ==
  /\ rtc # now
  /\ rtc' = now
  /\ UNCHANGED <<now, log, edge, returned, warning, told>>

-----------------------------------------------------------------------------
(* The server *)

Earlier(t, u) == t < u

\* A from that is not before the to is refused; a bound may be missing.
Valid(from, to) == from # Nil => Earlier(from, to)

\* The filter, a second on either bound being inside.  The variant leaves the
\* upper one out.
KeptHalfOpen(stamp, from, to) == ~(from # Nil /\ Earlier(stamp, from)) /\ Earlier(stamp, to)
Kept(stamp, from, to) == ~(from # Nil /\ Earlier(stamp, from)) /\ ~Earlier(to, stamp)

Page(from, to) == {i \in 1 .. Len(log) : Kept(log[i].stamp, from, to)}

Stale(records) == {i \in records : log[i].stamp < EpochEnd}

\* epochWarning looks at the records of the page.  None stale is no warning, and
\* as many stale as there are is another text than fewer.  The variant looks at
\* the whole of the log that was read.
EpochWarningUnfiltered(page) ==
  [stale |-> Cardinality(Stale(1 .. Len(log))), of |-> Len(log)]
EpochWarning(page) == [stale |-> Cardinality(Stale(page)), of |-> Cardinality(page)]

Pull ==
  \E to \in 0 .. MaxTime :
    /\ Valid(edge, to)
    /\ LET page == Page(edge, to) IN
         /\ returned' = [i \in 1 .. Len(log) |->
                           returned[i] + IF i \in page THEN 1 ELSE 0]
         /\ warning' = EpochWarning(page)
         /\ told' = told + warning'.stale
    /\ edge' = to + 1
    /\ UNCHANGED <<now, rtc, log>>

-----------------------------------------------------------------------------
Init ==
  /\ now \in EpochEnd .. MaxTime
  /\ rtc \in {0, now}
  /\ log = <<>> /\ returned = <<>>
  /\ edge \in {Nil, First}
  /\ warning = [stale |-> 0, of |-> 0]
  /\ told = 0

Next == Punch \/ ClocksRun \/ BatteryEmpty \/ ClockSet \/ Pull

Spec == Init /\ [][Next]_vars

-----------------------------------------------------------------------------
(* Properties *)

\* What was returned is counted for each record of the log, and a warning counts
\* no more records than its page has (epochWarning).
TypeOK ==
  /\ now \in 0 .. MaxTime /\ rtc \in 0 .. MaxTime
  /\ log \in Seq([stamp : 0 .. MaxTime, edge : Nil .. MaxTime + 1])
  /\ edge \in Nil .. MaxTime + 1
  /\ returned \in Seq(Nat) /\ Len(returned) = Len(log)
  /\ warning.of \in 0 .. MaxPunches /\ warning.stale \in 0 .. warning.of
  /\ told \in Nat

\* The edge has passed the punch, which was still to be asked for when made.
Asked(i) == log[i].edge <= log[i].stamp /\ log[i].stamp < edge

\* Of consecutive pages, each punch is in exactly one, if its stamp was still to
\* be asked for when it was made; and a punch stamped by a clock that had been
\* reset or set back, behind what the client has asked for, is in none.
EachPunchOnce ==
  \A i \in 1 .. Len(log) :
    returned[i] = IF Asked(i) THEN 1 ELSE 0

\* The warnings of consecutive pages add up to the punches of an unset clock
\* that were returned: none comes without being told of, none is told of twice,
\* and none that the pages missed is told of.  (So a client that begins at
\* epochWarningYear is never told of an unset clock, whose punches it misses.)
UnsetClockTold ==
  told = Cardinality({i \in Stale(1 .. Len(log)) : Asked(i)})

=============================================================================
