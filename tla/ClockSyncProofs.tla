-------------------------- MODULE ClockSyncProofs --------------------------
(***************************************************************************)
(* Theorems about ClockSync, for every tolerance, deadline, length of a    *)
(* second and run of the clocks: what a sync confirms, what "in sync" is   *)
(* worth, and that the clock is never set to the future.  Then those about *)
(* the composition MCRequests, with the ones of DeviceInfoProofs.          *)
(***************************************************************************)
EXTENDS MCRequests, ZKWireProofs

-----------------------------------------------------------------------------
(* Whole seconds                                                           *)

LEMMA Cut ==
  ASSUME NEW ticks \in Nat
  PROVE  /\ Seconds(ticks) \in Nat
         /\ Seconds(ticks) * Second <= ticks
         /\ ticks < Seconds(ticks) * Second + Second
BY ClockAssumption DEF Seconds

LEMMA Distribute ==
  ASSUME NEW a \in Int
  PROVE  /\ (a + 1) * Second = a * Second + Second
         /\ (a + 2) * Second = a * Second + Second + Second
         /\ (a - 1) * Second = a * Second - Second
         /\ (-(a + 1)) * Second = -(a * Second) - Second
         /\ a * Second \in Int
BY ClockAssumption

LEMMA Monotone ==
  ASSUME NEW a \in Int, NEW b \in Int
  PROVE  /\ a <= b => a * Second <= b * Second
         /\ a * Second < b * Second => a < b
BY ClockAssumption

LEMMA DriftType ==
  ASSUME NEW reading \in Nat, now \in Nat
  PROVE  Drift(reading) \in Int
<1>1. reading * Second - now \in Int
  BY ClockAssumption
<1> QED
  BY <1>1, ClockAssumption DEF Drift

\* A drift within the tolerance bounds the difference it was cut from ...
LEMMA InSyncBounds ==
  ASSUME NEW reading \in Nat, now \in Nat, InSync(Drift(reading))
  PROVE  /\ reading * Second - now < Tolerance * Second + Second
         /\ reading * Second - now > -(Tolerance * Second) - Second
<1> DEFINE d == reading * Second - now
           limit == Tolerance * Second
<1> SUFFICES d < limit + Second /\ d > -limit - Second
  OBVIOUS
<1>1. d \in Int /\ Tolerance \in Int /\ limit \in Int /\ Second \in Nat
  BY ClockAssumption
<1>2. CASE d >= 0
  <2>1. Drift(reading) = Seconds(d) /\ d \in Nat
    BY <1>1, <1>2 DEF Drift, Seconds
  <2>2. /\ Seconds(d) \in Nat /\ d < Seconds(d) * Second + Second
        /\ Seconds(d) <= Tolerance
    BY <2>1, Cut DEF InSync
  <2>3. Seconds(d) * Second \in Int /\ Seconds(d) * Second <= limit
    BY <1>1, <2>2, Distribute, Monotone
  <2> HIDE DEF d, limit
  <2> QED
    BY <1>1, <1>2, <2>2, <2>3
<1>3. CASE ~(d >= 0)
  <2>1. Drift(reading) = -Seconds(-d) /\ -d \in Nat
    BY <1>1, <1>3 DEF Drift, Seconds
  <2>2. /\ Seconds(-d) \in Nat /\ -d < Seconds(-d) * Second + Second
        /\ Seconds(-d) <= Tolerance
    BY <1>1, <2>1, Cut DEF InSync
  <2>3. Seconds(-d) * Second \in Int /\ Seconds(-d) * Second <= limit
    BY <1>1, <2>2, Distribute, Monotone
  <2> HIDE DEF d, limit
  <2> QED
    BY <1>1, <1>3, <2>2, <2>3
<1> QED
  BY <1>2, <1>3

\* ... and a clock that is behind by less than one second more is within it.
LEMMA BehindInSync ==
  ASSUME NEW reading \in Nat, now \in Nat,
         reading * Second - now <= 0,
         reading * Second - now > -(Tolerance * Second) - Second
  PROVE  InSync(Drift(reading))
<1> DEFINE d == reading * Second - now
<1>1. d \in Int /\ Tolerance \in Int /\ -d \in Nat
  BY ClockAssumption
<1>2. Drift(reading) = -Seconds(-d) \/ Drift(reading) = 0
  <2>1. CASE d >= 0
    <3>1. d = 0
      BY <1>1, <2>1
    <3>2. 0 \div Second = 0
      BY ClockAssumption
    <3> QED
      BY <3>1, <3>2 DEF Drift
  <2>2. CASE ~(d >= 0)
    BY <2>2 DEF Drift, Seconds
  <2> QED
    BY <2>1, <2>2
<1>3. Seconds(-d) \in Nat /\ Seconds(-d) <= Tolerance
  <2>1. Seconds(-d) \in Nat /\ Seconds(-d) * Second <= -d
    BY <1>1, Cut
  <2>2. -d < (Tolerance + 1) * Second
    <3>1. (Tolerance + 1) * Second = Tolerance * Second + Second
      BY <1>1, Distribute
    <3>2. d > -(Tolerance * Second) - Second
      OBVIOUS
    <3> HIDE DEF d
    <3> QED
      BY <1>1, <3>1, <3>2, Distribute, ClockAssumption
  <2>3. Seconds(-d) * Second < (Tolerance + 1) * Second
    <3>1. Seconds(-d) * Second \in Int /\ (Tolerance + 1) * Second \in Int
      BY <1>1, <2>1, Distribute
    <3> HIDE DEF d
    <3> QED
      BY <1>1, <2>1, <2>2, <3>1
  <2>4. Seconds(-d) < Tolerance + 1
    BY <1>1, <2>1, <2>3, Monotone
  <2> QED
    BY <1>1, <2>1, <2>4
<1> QED
  BY <1>1, <1>2, <1>3, ClockAssumption DEF InSync

-----------------------------------------------------------------------------
(* Types                                                                   *)

LEMMA SetToType ==
  ASSUME TypeOK, NEW seconds \in Nat, SetTo(seconds)
  PROVE  skew' \in Int /\ now + skew' >= 0
<1>1. seconds * Second \in Nat /\ now \in Nat
  BY ClockAssumption DEF TypeOK
<1> QED
  BY <1>1 DEF SetTo, TypeOK

LEMMA AnswersType ==
  ASSUME TypeOK, NEW q
  PROVE  /\ [code |-> "OK", data |-> ProperData(q), size |-> 0] \in Answers
         /\ \A code \in {"OK", "ERROR"} :
              [code |-> code, data |-> <<>>, size |-> 0] \in Answers
<1>1. now + skew \in Nat
  BY ClockAssumption DEF TypeOK
<1>2. Seconds(now + skew) \in Nat
  BY <1>1, Cut
<1>3. <<>> \in Seq(Nat) /\ <<Seconds(now + skew)>> \in Seq(Nat)
  BY <1>2
<1>4. ProperData(q) \in Seq(Nat)
  BY <1>3, Zenon DEF ProperData
<1> QED
  BY <1>3, <1>4 DEF Answers, Codes

\* An answer that is taken for a time has one.
LEMMA TimeRead ==
  ASSUME TypeOK, NEW o \in ReadOutcomes, TimeAccepted(o)
  PROVE  o.ok /\ o.data # <<>> /\ o.data[1] \in Nat
<1>1. o.data \in Seq(Nat)
  BY ReadOutcomesType DEF TypeOK, Outcomes
<1>2. o.ok /\ Len(o.data) >= 1
  BY DEF TimeAccepted, Accepted
<1>3. 1 \in 1 .. Len(o.data)
  BY <1>1, <1>2
<1> QED
  BY <1>1, <1>2, <1>3, ElementOfSeq, EmptySeq

LEMMA DeviceType ==
  ASSUME TypeOK,
         DeviceHandles \/ DeviceIgnores \/ ConnectionDrops \/ PieceArrives \/ Tick
  PROVE  TypeOK'
<1> DEFINE q == Head(requests)
<1>0. /\ WireTypeOK /\ now \in Nat /\ skew \in Int
      /\ requests # <<>> => q \in Requests /\ q.start \in Nat
  <2>1. requests # <<>> => q \in Requests
    BY HeadTailProperties DEF TypeOK, WireTypeOK
  <2> QED
    BY <2>1, ClockAssumption DEF TypeOK, Requests
<1>1. CASE DeviceHandles
  <2>1. PICK a \in Answers, cost \in {0, 1} : Handle(a, cost)
    BY <1>1, AnswersType DEF DeviceHandles
  <2>2. WireTypeOK'
    BY <1>0, <2>1, HandleType
  <2>3. requests # <<>> /\ (skew' = skew \/ SetTo(q.start))
    BY <1>1 DEF DeviceHandles
  <2>4. skew' \in Int /\ now + skew' >= 0
    BY <1>0, <2>3, SetToType DEF TypeOK
  <2>5. taken' \in BOOLEAN
    BY <1>1 DEF DeviceHandles, TypeOK
  <2> QED
    BY <1>1, <2>2, <2>4, <2>5 DEF DeviceHandles, serverVars, TypeOK
<1>2. CASE DeviceIgnores
  <2>1. WireTypeOK'
    BY <1>0, <1>2, IgnoreType DEF DeviceIgnores
  <2>2. requests # <<>> /\ (skew' = skew \/ SetTo(q.start))
    BY <1>2 DEF DeviceIgnores, Ignore
  <2>3. skew' \in Int /\ now + skew' >= 0
    BY <1>0, <2>2, SetToType DEF TypeOK
  <2> QED
    BY <1>2, <2>1, <2>3 DEF DeviceIgnores, serverVars, TypeOK
<1>3. CASE ConnectionDrops
  BY <1>0, <1>3, DropType DEF ConnectionDrops, deviceVars, serverVars, TypeOK
<1>4. CASE Tick
  <2>1. WireTypeOK'
    BY <1>0, <1>4 DEF Tick, wireVars, WireTypeOK
  <2> QED
    BY <1>0, <1>4, <2>1, ClockAssumption DEF Tick, serverVars, TypeOK
<1>5. CASE PieceArrives
  <2>1. WireTypeOK'
    BY <1>0, <1>5 DEF PieceArrives, wireVars, WireTypeOK
  <2>2. deadline' \in Start .. (MaxTime + MaxLatency)
    BY <1>5, ClockAssumption DEF PieceArrives, TypeOK
  <2> QED
    BY <1>5, <2>1, <2>2 DEF PieceArrives, deviceVars, TypeOK
<1> QED
  BY <1>1, <1>2, <1>3, <1>4, <1>5

LEMMA ServerType ==
  ASSUME TypeOK, Server
  PROVE  TypeOK'
<1>0. /\ WireTypeOK /\ now \in Nat /\ now \in 0 .. MaxTime
      /\ before \in Nat
  BY ClockAssumption DEF TypeOK
<1>1. CASE SendCommand
  <2>1. Encoded(before) \in Nat
    BY <1>0, Cut DEF Encoded
  <2>2. WireTypeOK'
    BY <1>0, <1>1, <2>1, WriteType DEF SendCommand, Cmds
  <2>3. deadline' \in Start .. (MaxTime + MaxLatency)
    BY <1>1, ClockAssumption DEF SendCommand, TypeOK
  <2> QED
    BY <1>1, <2>2, <2>3 DEF SendCommand, deviceVars, TypeOK
<1>2. ASSUME NEW o \in ReadOutcomes, NEW cmd \in Cmds, Ends(o, cmd)
      PROVE  WireTypeOK'
  BY <1>0, <1>2, ReturnType DEF Ends
<1>2a. GetTimeReturns \/ SetTimeReturns \/ ReadBackReturns =>
         UNCHANGED <<sentAt, deadline>>
  BY DEF GetTimeReturns, SetTimeReturns, ReadBackReturns, Ends
<1>3. ASSUME NEW o \in ReadOutcomes, Clock(o)
      PROVE  drift' \in Int
  BY <1>0, <1>3, TimeRead, DriftType DEF Clock, TypeOK
<1>4. CASE GetTimeReturns
  <2>1. WireTypeOK' /\ drift' \in Int
    BY <1>2, <1>3, <1>4 DEF GetTimeReturns, Cmds
  <2>2. /\ pc' \in {"setTime", "disconnect"}
        /\ outcome' \in {"none", "ok", "failed"}
        /\ before' \in 0 .. MaxTime
    BY <1>0, <1>4 DEF GetTimeReturns, Proceed, TypeOK
  <2> QED
    BY <1>4, <1>2a, <2>1, <2>2 DEF GetTimeReturns, deviceVars, TypeOK
<1>5. CASE SetTimeReturns
  <2>1. WireTypeOK'
    BY <1>2, <1>5 DEF SetTimeReturns, Cmds
  <2>2. /\ pc' \in {"readBack", "disconnect"}
        /\ outcome' \in {"none", "ok", "failed"}
    BY <1>5 DEF SetTimeReturns, Proceed, TypeOK
  <2> QED
    BY <1>5, <1>2a, <2>1, <2>2 DEF SetTimeReturns, deviceVars, TypeOK
<1>6. CASE ReadBackReturns
  <2>1. WireTypeOK' /\ drift' \in Int
    BY <1>2, <1>3, <1>6 DEF ReadBackReturns, Cmds
  <2>2. outcome' \in {"ok", "failed"}
    BY <1>6 DEF ReadBackReturns
  <2> QED
    BY <1>6, <1>2a, <2>1, <2>2 DEF ReadBackReturns, deviceVars, TypeOK
<1>7. CASE Disconnect
  <2>1. WireTypeOK'
    BY <1>0, <1>7, CloseType DEF Disconnect
  <2> QED
    BY <1>7, <2>1 DEF Disconnect, deviceVars, TypeOK
<1> QED
  BY <1>1, <1>4, <1>5, <1>6, <1>7 DEF Server

LEMMA TypeStep == TypeOK /\ [Next]_vars => TypeOK'
<1>1. ASSUME TypeOK, UNCHANGED vars
      PROVE  TypeOK'
  BY <1>1 DEF vars, wireVars, deviceVars, serverVars, TypeOK, WireTypeOK
<1> QED
  BY <1>1, DeviceType, ServerType DEF Next, Finished

LEMMA InitType == Init => TypeOK
<1> SUFFICES ASSUME Init PROVE TypeOK
  OBVIOUS
<1>1. PICK rtc \in RTCs : skew = rtc - Start
  BY DEF Init
<1>2. now = Start /\ rtc \in Nat /\ Start \in Nat /\ MaxTime \in Nat /\ Start <= MaxTime
  BY ClockAssumption DEF Init
<1>3. skew \in Int /\ now + skew >= 0
  BY <1>1, <1>2
<1>4. WireTypeOK
  BY WireInitType DEF Init
<1>5. /\ now \in Start .. MaxTime /\ sentAt \in Start .. MaxTime
      /\ deadline \in Start .. (MaxTime + MaxLatency)
      /\ before \in 0 .. MaxTime /\ drift \in Int
  BY <1>2, ClockAssumption DEF Init
<1>6. /\ obeys \in BOOLEAN /\ taken \in BOOLEAN /\ op \in {"read", "sync"}
      /\ pc = "getTime" /\ outcome = "none"
  BY DEF Init
<1> QED
  BY <1>3, <1>4, <1>5, <1>6 DEF TypeOK

\* A reading, a write and the device's clock stay within the run of time.
THEOREM TypeCorrect == Spec => []TypeOK
BY InitType, TypeStep, PTL DEF Spec

-----------------------------------------------------------------------------
(* The course of a request.  An error ends it, so no answer has been late  *)
(* while it goes on, and AloneUnderWay applies: the frame under way is the *)
(* command or the answer of the present exchange.                          *)

Asking == pc \in {"getTime", "setTime", "readBack"}

Course ==
  /\ Asking => late = 0 /\ outcome = "none"
  /\ waiting => Asking
  /\ pc \in {"setTime", "readBack"} => op = "sync" /\ before >= Start
  /\ sentAt <= now /\ before <= now
  /\ conn = "closed" => pc = "done"
  /\ outcome = "ok" => pc \in {"disconnect", "done"}

CourseIInv == TypeOK /\ FlightInv /\ Course

\* How an exchange ends, and what it leaves if it goes well.
LEMMA Returned ==
  ASSUME CourseIInv, Asking, NEW o \in ReadOutcomes, NEW cmd, Return(o, cmd)
  PROVE  /\ FlightInv'
         /\ ~waiting' /\ conn' # "closed" /\ requests' = requests
         /\ o.ok => /\ late' = 0
                    /\ requests = <<>> /\ replies' = <<>>
                    /\ replies # <<>>
                    /\ o.code = Head(replies).code /\ o.data = Head(replies).data
<1>1. /\ WireTypeOK /\ FlightInv /\ InFlightBound /\ late = 0 /\ conn # "closed"
  BY DEF CourseIInv, TypeOK, FlightInv, Course, Asking
<1>2. FlightInv'
  BY <1>1, ReturnFlight
<1>3. ~waiting' /\ conn' # "closed" /\ requests' = requests
  BY <1>1 DEF Return
<1>4. ASSUME o.ok
      PROVE  /\ late' = 0
             /\ requests = <<>> /\ replies' = <<>>
             /\ replies # <<>>
             /\ o.code = Head(replies).code /\ o.data = Head(replies).data
  <2>1. /\ replies # <<>> /\ o.late = 0
        /\ o.code = Head(replies).code /\ o.data = Head(replies).data
    BY <1>4, OkOutcome
  <2>2. requests = <<>> /\ o.rest = <<>>
    BY <1>1, <1>4, FirstRead
  <2> QED
    BY <1>1, <2>1, <2>2 DEF Return
<1> QED
  BY <1>2, <1>3, <1>4

LEMMA ServerCourse ==
  ASSUME CourseIInv, Server
  PROVE  FlightInv' /\ Course'
<1>0. /\ TypeOK /\ WireTypeOK /\ FlightInv /\ Course
      /\ now \in Nat /\ before \in Nat /\ Start <= now
  BY ClockAssumption DEF CourseIInv, TypeOK
<1>1. CASE SendCommand
  <2>1. conn # "closed" /\ Asking
    BY <1>0, <1>1 DEF SendCommand, Course, Asking
  <2>2. Encoded(before) \in Nat /\ {"setTime", "getTime"} \subseteq Cmds
    BY <1>0, Cut DEF Encoded, Cmds
  <2>3. Write("setTime", Encoded(before), 0) \/ Write("getTime", 0, 0)
    BY <1>1 DEF SendCommand
  <2>4. FlightInv'
    BY <1>0, <2>1, <2>2, <2>3, WriteFlight
  <2>5. Course'
    BY <1>0, <1>1, <2>1, <2>3 DEF SendCommand, Write, deviceVars, Course, Asking
  <2> QED
    BY <2>4, <2>5
<1>2. ASSUME NEW o \in ReadOutcomes, NEW cmd, Ends(o, cmd), Asking
      PROVE  /\ FlightInv' /\ ~waiting' /\ conn' # "closed"
             /\ o.ok => late' = 0
             /\ sentAt' = sentAt
  BY <1>2, Returned DEF Ends
<1>3. CASE GetTimeReturns
  <2>1. PICK o \in ReadOutcomes :
          /\ Ends(o, "getTime")
          /\ IF TimeAccepted(o) /\ op = "read"
             THEN pc' = "disconnect" /\ outcome' = "ok"
             ELSE Proceed(TimeAccepted(o), "setTime")
          /\ before' = IF TimeAccepted(o) THEN now ELSE before
    BY <1>3 DEF GetTimeReturns
  <2>2. TimeAccepted(o) => o.ok
    BY DEF TimeAccepted, Accepted
  <2>3. pc = "getTime" /\ UNCHANGED <<now, op>> /\ Asking
    BY <1>3 DEF GetTimeReturns, deviceVars, Asking
  <2>4. op = "read" \/ op = "sync"
    BY <1>0 DEF TypeOK
  <2> QED
    BY <1>0, <1>2, <2>1, <2>2, <2>3, <2>4 DEF Proceed, Course, Asking
<1>4. CASE SetTimeReturns
  <2>1. PICK o \in ReadOutcomes :
          Ends(o, "setTime") /\ Proceed(Accepted(o, {"OK"}, 0), "readBack")
    BY <1>4 DEF SetTimeReturns
  <2>2. /\ pc = "setTime" /\ UNCHANGED <<now, op, before>> /\ Asking
        /\ Accepted(o, {"OK"}, 0) => o.ok
    BY <1>4 DEF SetTimeReturns, deviceVars, Asking, Accepted
  <2> QED
    BY <1>0, <1>2, <2>1, <2>2 DEF Proceed, Course, Asking
<1>5. CASE ReadBackReturns
  <2>1. PICK o \in ReadOutcomes : Ends(o, "getTime")
    BY <1>5 DEF ReadBackReturns
  <2>2. pc = "readBack" /\ pc' = "disconnect" /\ UNCHANGED <<now, op, before>>
    BY <1>5 DEF ReadBackReturns, deviceVars
  <2> QED
    BY <1>0, <1>2, <2>1, <2>2 DEF Course, Asking
<1>6. CASE Disconnect
  <2>1. FlightInv'
    BY <1>0, <1>6, CloseFlight DEF Disconnect
  <2> QED
    BY <1>0, <1>6, <2>1 DEF Disconnect, Close, deviceVars, Course, Asking
<1> QED
  BY <1>1, <1>3, <1>4, <1>5, <1>6 DEF Server

LEMMA DeviceCourse ==
  ASSUME CourseIInv,
         DeviceHandles \/ DeviceIgnores \/ ConnectionDrops \/ PieceArrives \/ Tick
  PROVE  FlightInv' /\ Course'
<1>0. /\ TypeOK /\ WireTypeOK /\ FlightInv /\ Course
      /\ now \in Nat /\ sentAt \in Nat /\ before \in Nat
  BY ClockAssumption DEF CourseIInv, TypeOK
<1>1. CASE DeviceHandles
  <2>1. PICK a \in Answers, cost \in {0, 1} : Handle(a, cost)
    BY <1>0, <1>1, AnswersType DEF DeviceHandles
  <2>2. FlightInv'
    BY <1>0, <2>1, HandleFlight
  <2> QED
    BY <1>0, <1>1, <2>1, <2>2 DEF DeviceHandles, Handle, serverVars, Course, Asking
<1>2. CASE DeviceIgnores
  <2>1. FlightInv'
    BY <1>0, <1>2, IgnoreFlight DEF DeviceIgnores
  <2> QED
    BY <1>0, <1>2, <2>1 DEF DeviceIgnores, Ignore, serverVars, Course, Asking
<1>3. CASE ConnectionDrops
  <2>1. FlightInv'
    BY <1>0, <1>3, DropFlight DEF ConnectionDrops
  <2> QED
    BY <1>0, <1>3, <2>1 DEF ConnectionDrops, Drop, deviceVars, serverVars, Course,
                            Asking
<1>4. CASE Tick
  <2>1. FlightInv'
    BY <1>0, <1>4 DEF Tick, wireVars, FlightInv, InFlightBound, InFlight,
                      DropLosesRequests
  <2> QED
    BY <1>0, <1>4, <2>1 DEF Tick, wireVars, serverVars, Course, Asking
<1>5. CASE PieceArrives
  <2>1. FlightInv'
    BY <1>0, <1>5 DEF PieceArrives, wireVars, FlightInv, InFlightBound, InFlight,
                      DropLosesRequests
  <2> QED
    BY <1>0, <1>5, <2>1 DEF PieceArrives, wireVars, deviceVars, Course, Asking
<1> QED
  BY <1>1, <1>2, <1>3, <1>4, <1>5

LEMMA CourseStep == CourseIInv /\ [Next]_vars => CourseIInv'
<1>1. ASSUME CourseIInv, UNCHANGED vars
      PROVE  FlightInv' /\ Course'
  BY <1>1 DEF vars, wireVars, deviceVars, serverVars, CourseIInv, FlightInv,
              InFlightBound, InFlight, DropLosesRequests, Course, Asking
<1> QED
  BY <1>1, TypeStep, DeviceCourse, ServerCourse DEF CourseIInv, Next, Finished

LEMMA CourseInit == Init => CourseIInv
<1> SUFFICES ASSUME Init PROVE FlightInv /\ Course
  BY InitType DEF CourseIInv
<1>1. FlightInv
  BY DEF Init, WireInit, FlightInv, InFlightBound, InFlight, DropLosesRequests
<1>2. Course
  BY ClockAssumption DEF Init, WireInit, Course, Asking
<1> QED
  BY <1>1, <1>2

-----------------------------------------------------------------------------
(* Writes.  Each write of the time, and be it one of a request that is     *)
(* over, carries a second of the server's clock that has begun.            *)

BegunSeconds(seconds) ==
  seconds * Second > Start - Second /\ seconds * Second <= now

TimelyRequests ==
  {q \in Requests : q.cmd = "setTime" => op = "sync" /\ BegunSeconds(q.start)}

TimelyWrites == requests \in Seq(TimelyRequests)

WritesIInv == CourseIInv /\ TimelyWrites

LEMMA TimelyStale == StaleClosed(TimelyRequests)
BY DEF StaleClosed, TimelyRequests, Requests, BegunSeconds

LEMMA WritesStep == WritesIInv /\ [Next]_vars => WritesIInv'
<1> SUFFICES ASSUME WritesIInv, [Next]_vars PROVE TimelyWrites'
  BY CourseStep DEF WritesIInv
<1>0. /\ TypeOK /\ WireTypeOK /\ Course /\ requests \in Seq(TimelyRequests)
      /\ now \in Nat /\ before \in Nat /\ Start \in Nat /\ Second \in Nat
  BY ClockAssumption DEF WritesIInv, CourseIInv, TimelyWrites, TypeOK
<1>1. ASSUME UNCHANGED <<now, op>>, requests' \in Seq(TimelyRequests)
      PROVE  TimelyWrites'
  BY <1>1 DEF TimelyWrites, TimelyRequests, BegunSeconds
<1>2. Superseded(requests) \in Seq(TimelyRequests)
  BY <1>0, TimelyStale, SupersededIn
<1>3. NextReplyId(replyID) \in ReplyIds
  BY <1>0, NextReplyIdType DEF WireTypeOK
<1>4. requests # <<>> => Tail(requests) \in Seq(TimelyRequests)
  BY <1>0, HeadTailProperties
<1>5. CASE SendCommand
  <2> DEFINE q(cmd, start) == [cmd |-> cmd, start |-> start, n |-> 0,
                               id |-> NextReplyId(replyID), fresh |-> TRUE]
  <2>1. ASSUME NEW cmd, NEW start, Write(cmd, start, 0),
               q(cmd, start) \in TimelyRequests
        PROVE  requests' \in Seq(TimelyRequests)
    <3>1. Append(Superseded(requests), q(cmd, start)) \in Seq(TimelyRequests)
      BY <1>2, <2>1, AppendProperties
    <3> QED
      BY <1>0, <2>1, <3>1 DEF Write
  <2>2. UNCHANGED <<now, op>>
    BY <1>5 DEF SendCommand, deviceVars
  <2>3. CASE pc = "setTime"
    <3>1. Write("setTime", Encoded(before), 0)
      BY <1>5, <2>3 DEF SendCommand
    <3>2. op = "sync" /\ before >= Start /\ before <= now
      BY <1>0, <2>3 DEF Course
    <3>3. Encoded(before) \in Nat /\ BegunSeconds(Encoded(before))
      <4>1. /\ Encoded(before) \in Nat
            /\ Encoded(before) * Second <= before
            /\ before < Encoded(before) * Second + Second
        BY <1>0, Cut DEF Encoded
      <4>2. Encoded(before) * Second \in Int
        BY <4>1, Distribute
      <4> QED
        BY <1>0, <3>2, <4>1, <4>2 DEF BegunSeconds
    <3>4. q("setTime", Encoded(before)) \in TimelyRequests
      BY <1>3, <3>2, <3>3 DEF TimelyRequests, Requests, Cmds
    <3> QED
      BY <1>1, <2>1, <2>2, <3>1, <3>4
  <2>4. CASE pc # "setTime"
    <3>1. Write("getTime", 0, 0)
      BY <1>5, <2>4 DEF SendCommand
    <3>2. q("getTime", 0) \in TimelyRequests
      BY <1>3 DEF TimelyRequests, Requests, Cmds
    <3> QED
      BY <1>1, <2>1, <2>2, <3>1, <3>2
  <2> QED
    BY <2>3, <2>4
<1>6. CASE GetTimeReturns \/ SetTimeReturns \/ ReadBackReturns
  <2>1. UNCHANGED <<now, op, requests>>
    BY <1>6 DEF GetTimeReturns, SetTimeReturns, ReadBackReturns, Ends, Return,
                deviceVars
  <2> QED
    BY <1>0, <1>1, <2>1
<1>7. CASE Disconnect
  <2> DEFINE q == [cmd |-> "exit", start |-> 0, n |-> 0,
                   id |-> NextReplyId(replyID), fresh |-> FALSE]
  <2>1. q \in TimelyRequests
    BY <1>3 DEF TimelyRequests, Requests, Cmds
  <2>2. Append(Superseded(requests), q) \in Seq(TimelyRequests)
    BY <1>2, <2>1, AppendProperties
  <2>3. requests' \in Seq(TimelyRequests) /\ UNCHANGED <<now, op>>
    BY <1>0, <1>7, <2>2 DEF Disconnect, Close, deviceVars
  <2> QED
    BY <1>1, <2>3
<1>8. CASE DeviceHandles \/ DeviceIgnores \/ ConnectionDrops
  <2>1. UNCHANGED <<now, op>>
    BY <1>8 DEF DeviceHandles, DeviceIgnores, ConnectionDrops, deviceVars,
                serverVars
  <2>2. <<>> \in Seq(TimelyRequests)
    OBVIOUS
  <2>3. CASE DeviceHandles \/ DeviceIgnores
    BY <1>1, <1>4, <2>1, <2>3 DEF DeviceHandles, DeviceIgnores, Handle, Ignore
  <2>4. CASE ConnectionDrops
    BY <1>1, <2>1, <2>2, <2>4, Zenon DEF ConnectionDrops, Drop
  <2> QED
    BY <1>8, <2>3, <2>4
<1>9. CASE Tick
  <2>1. now' = now + 1 /\ op' = op /\ requests' = requests
    BY <1>9 DEF Tick, serverVars, wireVars
  <2>2. \A q \in TimelyRequests : q \in TimelyRequests'
    <3>1. ASSUME NEW q \in TimelyRequests, q.cmd = "setTime"
          PROVE  BegunSeconds(q.start)'
      <4>1. q.start * Second \in Int /\ BegunSeconds(q.start)
        BY <1>0, <3>1, Distribute DEF TimelyRequests, Requests
      <4> QED
        BY <1>0, <2>1, <4>1 DEF BegunSeconds
    <3> QED
      BY <2>1, <3>1 DEF TimelyRequests
  <2> QED
    BY <1>0, <2>1, <2>2, SeqMonotonic DEF TimelyWrites
<1>10. CASE PieceArrives \/ UNCHANGED vars
  BY <1>0, <1>1, <1>10 DEF PieceArrives, vars, wireVars, deviceVars, serverVars
<1> QED
  BY <1>5, <1>6, <1>7, <1>8, <1>9, <1>10 DEF Next, Server, Finished

LEMMA WritesInit == Init => WritesIInv
<1>1. Init => requests \in Seq(TimelyRequests)
  <2>1. <<>> \in Seq(TimelyRequests)
    OBVIOUS
  <2> QED
    BY <2>1, Zenon DEF Init, WireInit
<1> QED
  BY <1>1, CourseInit DEF WritesIInv, TimelyWrites

\* Only a sync changes the device's clock, and whenever it does so, and be it
\* by a write whose request has failed long before, the clock is set to a time
\* that the server's clock has shown.
THEOREM SetsNoFuture == Spec => NeverSetAhead
<1> DEFINE Timely == skew' # skew => /\ op = "sync"
                                    /\ now + skew' \in (Start - Second + 1) .. now
<1>1. WritesIInv /\ [Next]_vars => Timely
  <2> SUFFICES ASSUME WritesIInv, [Next]_vars, skew' # skew
               PROVE  op = "sync" /\ now + skew' \in (Start - Second + 1) .. now
    OBVIOUS
  <2>0. /\ now \in Nat /\ Start \in Nat /\ Second \in Nat
        /\ requests \in Seq(TimelyRequests)
    BY ClockAssumption DEF WritesIInv, CourseIInv, TimelyWrites, TypeOK
  <2>1. CASE DeviceHandles \/ DeviceIgnores
    <3> DEFINE q == Head(requests)
    <3>1. requests # <<>> /\ q.cmd = "setTime" /\ SetTo(q.start)
      BY <2>1 DEF DeviceHandles, DeviceIgnores, Ignore
    <3>2. op = "sync" /\ BegunSeconds(q.start) /\ q.start * Second \in Int
      BY <2>0, <3>1, HeadTailProperties, Distribute
      DEF TimelyRequests, Requests
    <3>3. now + skew' = q.start * Second
      BY <2>0, <3>1, <3>2 DEF SetTo
    <3> QED
      BY <2>0, <3>2, <3>3 DEF BegunSeconds
  <2>2. ~(Server \/ ConnectionDrops \/ PieceArrives \/ Tick \/ UNCHANGED vars)
    BY DEF Server, SendCommand, GetTimeReturns, SetTimeReturns, ReadBackReturns,
           Disconnect, ConnectionDrops, PieceArrives, Tick, deviceVars, vars
  <2> QED
    BY <2>1, <2>2 DEF Next, Finished
<1> QED
  BY <1>1, WritesInit, WritesStep, PTL DEF Spec, NeverSetAhead

-----------------------------------------------------------------------------
(* What an answer says.  The frame under way carries the command of the    *)
(* present exchange or its answer; so the answer to a write says that the  *)
(* device has taken it, and that to a reading is a time the device's clock *)
(* has shown since the reading was asked for.                              *)

Wanted(q) ==
  IF pc = "setTime" THEN q.cmd = "setTime" /\ q.start = Encoded(before)
                    ELSE q.cmd = "getTime"

\* The device has taken the write.  If it obeys, its clock has shown the time
\* it was given at "at", and is not ahead.
Applied(at) ==
  /\ taken
  /\ obeys => /\ Encoded(before) * Second <= at + skew
              /\ skew <= Encoded(before) * Second - before

ShownSince(seconds, at) ==
  seconds * Second <= now + skew /\ seconds * Second > at + skew - Second

Told(f) ==
  IF pc = "setTime" THEN f.code = "OK" => Applied(now)
                    ELSE f.data # <<>> => ShownSince(f.data[1], sentAt)

Exchange ==
  /\ Asking /\ requests # <<>> => Wanted(Head(requests))
  /\ Asking /\ replies # <<>> => Told(Head(replies))
  /\ pc = "readBack" => Applied(IF waiting THEN sentAt ELSE now)

ExchangeIInv == CourseIInv /\ Exchange

LEMMA Numbers ==
  ASSUME TypeOK
  PROVE  /\ now \in Nat /\ sentAt \in Nat /\ before \in Nat /\ skew \in Int
         /\ Second \in Nat \ {0} /\ Tolerance \in Nat
         /\ Encoded(before) \in Nat
         /\ Encoded(before) * Second \in Int
         /\ Encoded(before) * Second <= before
         /\ before < Encoded(before) * Second + Second
<1>1. /\ now \in Nat /\ sentAt \in Nat /\ before \in Nat /\ skew \in Int
      /\ Second \in Nat \ {0} /\ Tolerance \in Nat
  BY ClockAssumption DEF TypeOK
<1> QED
  BY <1>1, Cut, Distribute DEF Encoded

LEMMA ServerExchange ==
  ASSUME ExchangeIInv, Server
  PROVE  Exchange'
<1>0. CourseIInv /\ TypeOK /\ WireTypeOK /\ InFlightBound /\ Course /\ Exchange
  BY DEF ExchangeIInv, CourseIInv, TypeOK, FlightInv
<1>1. CASE SendCommand
  <2>1. /\ Asking /\ ~waiting /\ late = 0 /\ conn # "closed"
        /\ UNCHANGED <<deviceVars, pc, before>> /\ sentAt' = now
    BY <1>0, <1>1 DEF SendCommand, Write, Course, Asking
  <2>2. requests = <<>> /\ replies = <<>>
    BY <1>0, <2>1, AloneUnderWay
  <2>3. ASSUME NEW cmd, NEW start, Write(cmd, start, 0)
        PROVE  /\ replies' = <<>> /\ waiting'
               /\ requests' # <<>> => /\ Head(requests').cmd = cmd
                                      /\ Head(requests').start = start
    BY <2>2, <2>3, FirstWrite DEF Write
  <2>4. replies' = <<>> /\ waiting' /\ (requests' # <<>> => Wanted(Head(requests))')
    <3>1. CASE pc = "setTime"
      BY <1>1, <2>1, <2>3, <3>1 DEF SendCommand, Wanted, Encoded, Seconds
    <3>2. CASE pc # "setTime"
      BY <1>1, <2>1, <2>3, <3>2 DEF SendCommand, Wanted
    <3> QED
      BY <3>1, <3>2
  <2>5. pc = "readBack" => Applied(now)
    BY <1>0, <2>1 DEF Exchange
  <2>6. pc' = "readBack" => Applied(sentAt)'
    BY <2>1, <2>5 DEF Applied, deviceVars, Encoded, Seconds
  <2> QED
    BY <2>4, <2>6 DEF Exchange
<1>2. ASSUME ~Asking'
      PROVE  Exchange'
  BY <1>2 DEF Exchange, Asking
<1>3. ASSUME NEW o \in ReadOutcomes, NEW cmd, Ends(o, cmd), Asking, o.ok,
             pc' # "readBack"
      PROVE  Exchange'
  <2>1. requests' = <<>> /\ replies' = <<>>
    BY <1>0, <1>3, Returned DEF Ends
  <2> QED
    BY <1>3, <2>1 DEF Exchange
<1>4. CASE GetTimeReturns
  <2>1. PICK o \in ReadOutcomes :
          /\ Ends(o, "getTime")
          /\ IF TimeAccepted(o) /\ op = "read"
             THEN pc' = "disconnect" /\ outcome' = "ok"
             ELSE Proceed(TimeAccepted(o), "setTime")
    BY <1>4 DEF GetTimeReturns
  <2>2. Asking /\ (pc' = "disconnect" \/ (TimeAccepted(o) /\ pc' = "setTime"))
    BY <1>4, <2>1 DEF GetTimeReturns, Proceed, Asking
  <2> QED
    BY <1>2, <1>3, <2>1, <2>2 DEF Asking, TimeAccepted, Accepted
<1>5. CASE SetTimeReturns
  <2>1. PICK o \in ReadOutcomes :
          Ends(o, "setTime") /\ Proceed(Accepted(o, {"OK"}, 0), "readBack")
    BY <1>5 DEF SetTimeReturns
  <2>2. pc = "setTime" /\ Asking /\ UNCHANGED <<deviceVars, before>>
    BY <1>5 DEF SetTimeReturns, Asking
  <2>3. CASE Accepted(o, {"OK"}, 0)
    <3>1. /\ pc' = "readBack" /\ ~waiting' /\ requests' = <<>> /\ replies' = <<>>
          /\ replies # <<>> /\ Head(replies).code = "OK"
      BY <1>0, <2>1, <2>2, <2>3, Returned DEF Ends, Proceed, Accepted
    <3>2. Applied(now)
      BY <1>0, <2>2, <3>1 DEF Exchange, Told
    <3>3. Applied(now)'
      BY <2>2, <3>2 DEF Applied, deviceVars, Encoded, Seconds
    <3> QED
      BY <3>1, <3>3 DEF Exchange
  <2>4. CASE ~Accepted(o, {"OK"}, 0)
    BY <1>2, <2>1, <2>4 DEF Proceed, Asking
  <2> QED
    BY <2>3, <2>4
<1>6. CASE ReadBackReturns \/ Disconnect
  BY <1>2, <1>6 DEF ReadBackReturns, Disconnect, Asking
<1> QED
  BY <1>1, <1>4, <1>5, <1>6 DEF Server

LEMMA DeviceExchange ==
  ASSUME ExchangeIInv,
         DeviceHandles \/ DeviceIgnores \/ ConnectionDrops \/ PieceArrives \/ Tick
  PROVE  Exchange'
<1>0. /\ TypeOK /\ WireTypeOK /\ InFlightBound /\ Course /\ Exchange
      /\ UNCHANGED <<pc, sentAt, before, obeys, waiting>>
  BY DEF ExchangeIInv, CourseIInv, TypeOK, FlightInv, DeviceHandles, Handle,
         DeviceIgnores, Ignore, ConnectionDrops, Drop, PieceArrives, Tick,
         deviceVars, serverVars, wireVars
<1> SUFFICES ASSUME Asking PROVE Exchange'
  BY <1>0 DEF Exchange, Asking
<1>1. late = 0 /\ conn # "closed"
  BY <1>0 DEF Course, Asking
<1>2. /\ requests # <<>> => /\ Tail(requests) = <<>> /\ replies = <<>>
                           /\ Wanted(Head(requests))
      /\ replies # <<>> => Tail(replies) = <<>> /\ requests = <<>>
  BY <1>0, <1>1, AloneUnderWay DEF Exchange
<1>3. Encoded(before)' = Encoded(before)
  BY <1>0 DEF Encoded, Seconds
<1>4. ASSUME pc = "readBack", UNCHANGED <<now, skew>>, taken => taken'
      PROVE  Applied(IF waiting THEN sentAt ELSE now)'
  BY <1>0, <1>3, <1>4 DEF Exchange, Applied
<1>5. CASE DeviceHandles
  <2> DEFINE q == Head(requests)
  <2>1. requests # <<>> /\ Wanted(q) /\ UNCHANGED now
    BY <1>2, <1>5 DEF DeviceHandles
  <2>2. q.cmd # "setTime" => UNCHANGED <<taken, skew>>
    BY <1>5 DEF DeviceHandles
  <2>3. pc = "readBack" => Applied(IF waiting THEN sentAt ELSE now)'
    BY <1>4, <2>1, <2>2 DEF Wanted
  <2>4. ASSUME NEW a, NEW cost, Handle(a, cost)
        PROVE  /\ requests' = <<>>
               /\ replies' # <<>> => /\ Head(replies').code = a.code
                                     /\ Head(replies').data = a.data
    BY <1>2, <2>1, <2>4, FirstReply
  <2>5. CASE /\ Handle([code |-> "OK", data |-> ProperData(q), size |-> 0], 0)
             /\ IF q.cmd = "setTime"
                THEN taken' = TRUE /\ SetTo(q.start)
                ELSE UNCHANGED <<taken, skew>>
    <3>1. /\ requests' = <<>>
          /\ replies' # <<>> => Head(replies').data = ProperData(q)
      BY <2>4, <2>5
    <3>2. CASE pc = "setTime"
      <4>1. taken' /\ (obeys => now + skew' = Encoded(before) * Second)
        <5>1. taken' /\ SetTo(Encoded(before))
          BY <2>1, <2>5, <3>2 DEF Wanted
        <5> QED
          BY <1>0, <5>1, Numbers DEF SetTo
      <4>2. before <= now
        BY <1>0 DEF Course
      <4>3. Applied(now)'
        <5>1. obeys => /\ skew' \in Int
                       /\ Encoded(before) * Second <= now + skew'
                       /\ skew' <= Encoded(before) * Second - before
          <6>1. skew' \in Int
            BY <1>0, <1>5, TypeStep DEF Next, TypeOK
          <6> QED
            BY <1>0, <4>1, <4>2, <6>1, Numbers
        <5> QED
          BY <1>0, <1>3, <2>1, <4>1, <5>1 DEF Applied
      <4> QED
        BY <1>0, <3>1, <3>2, <4>3 DEF Exchange, Told
    <3>3. CASE pc # "setTime"
      <4>1. q.cmd = "getTime" /\ skew' = skew
        BY <2>1, <2>2, <3>3 DEF Wanted
      <4>2. ProperData(q) = <<Seconds(now + skew)>>
        BY <4>1 DEF ProperData
      <4>3. ShownSince(Seconds(now + skew), sentAt)
        <5>1. now + skew \in Nat /\ sentAt <= now
          BY <1>0, Numbers DEF TypeOK, Course
        <5>2. /\ Seconds(now + skew) * Second <= now + skew
              /\ now + skew < Seconds(now + skew) * Second + Second
              /\ Seconds(now + skew) * Second \in Int
          BY <5>1, Cut, Distribute
        <5> QED
          BY <1>0, <5>1, <5>2, Numbers DEF ShownSince
      <4>4. replies' # <<>> => Told(Head(replies))'
        <5>1. \A d : <<d>>[1] = d
          OBVIOUS
        <5>2. replies' # <<>> => Head(replies').data[1] = Seconds(now + skew)
          BY <3>1, <4>2, <5>1
        <5>3. replies' # <<>> => ShownSince(Head(replies').data[1], sentAt)
          BY <4>3, <5>2
        <5> QED
          BY <1>0, <2>1, <3>3, <4>1, <5>3 DEF Told, ShownSince
      <4> QED
        BY <1>0, <2>3, <3>1, <4>4 DEF Exchange
    <3> QED
      BY <3>2, <3>3
  <2>6. CASE \E code \in {"ERROR"} \cup (IF q.cmd = "getTime" THEN {"OK"} ELSE {}) :
               Handle([code |-> code, data |-> <<>>, size |-> 0], 1)
    <3>1. PICK code \in {"ERROR"} \cup (IF q.cmd = "getTime" THEN {"OK"} ELSE {}) :
             Handle([code |-> code, data |-> <<>>, size |-> 0], 1)
      BY <2>6
    <3>2. /\ requests' = <<>>
          /\ replies' # <<>> => Head(replies').data = <<>> /\ Head(replies').code = code
      BY <2>4, <3>1
    <3>3. pc = "setTime" => code = "ERROR"
      BY <2>1, <3>1 DEF Wanted
    <3> QED
      BY <1>0, <2>3, <3>2, <3>3 DEF Exchange, Told
  <2> QED
    BY <1>5, <2>5, <2>6 DEF DeviceHandles
<1>6. CASE DeviceIgnores
  <2>1. /\ requests # <<>> /\ requests' = <<>> /\ replies' = <<>>
        /\ UNCHANGED <<now, taken>>
    BY <1>2, <1>6 DEF DeviceIgnores, Ignore
  <2>2. pc = "readBack" => UNCHANGED skew
    BY <1>2, <1>6, <2>1 DEF DeviceIgnores, Wanted
  <2> QED
    BY <1>0, <1>4, <2>1, <2>2 DEF Exchange
<1>7. CASE ConnectionDrops
  <2>1. UNCHANGED <<now, skew, taken, replies>> /\ requests' = <<>>
    BY <1>7 DEF ConnectionDrops, Drop, deviceVars
  <2>2. replies # <<>> => Told(Head(replies))'
    BY <1>0, <1>3, <2>1 DEF Exchange, Told, Applied, ShownSince
  <2> QED
    BY <1>0, <1>4, <2>1, <2>2 DEF Exchange
<1>8. CASE Tick
  <2>1. now' = now + 1 /\ UNCHANGED <<skew, taken, replies, requests>>
    BY <1>8 DEF Tick, wireVars
  <2>2. ASSUME Applied(now) PROVE Applied(now)'
    BY <1>0, <1>3, <2>1, <2>2, Numbers DEF Applied
  <2>3. ASSUME replies # <<>> PROVE Told(Head(replies))'
    <3>1. CASE pc = "setTime"
      BY <1>0, <2>1, <2>2, <2>3, <3>1 DEF Exchange, Told
    <3>2. CASE pc # "setTime"
      <4>1. ASSUME Head(replies).data # <<>>
            PROVE  ShownSince(Head(replies).data[1], sentAt)'
        <5>1. Head(replies).data[1] \in Nat
          <6>0. Head(replies) \in Replies
            BY <1>0, <2>3, HeadTailProperties DEF WireTypeOK
          <6>1. Head(replies).data \in Seq(Nat)
            BY <6>0 DEF Replies
          <6>2. \A q \in Seq(Nat) : q # <<>> => q[1] \in Nat
            OBVIOUS
          <6> QED
            BY <4>1, <6>1, <6>2, Zenon
        <5>2. Head(replies).data[1] * Second \in Int
          <6>1. \A x \in Int : x * Second \in Int
            BY Distribute, Zenon
          <6>2. Head(replies).data[1] \in Int
            BY <5>1
          <6> QED
            BY <6>1, <6>2, Zenon
        <5>3. ShownSince(Head(replies).data[1], sentAt)
          BY <1>0, <2>3, <3>2, <4>1 DEF Exchange, Told
        <5>4. now + skew <= now + 1 + skew
          BY <1>0, Numbers
        <5> QED
          BY <1>0, <2>1, <5>2, <5>3, <5>4, Numbers DEF ShownSince
      <4> QED
        BY <1>0, <2>1, <3>2, <4>1 DEF Told
    <3> QED
      BY <3>1, <3>2
  <2>4. pc = "readBack" => Applied(IF waiting THEN sentAt ELSE now)'
    <3>1. ASSUME Applied(sentAt) PROVE Applied(sentAt)'
      BY <1>0, <1>3, <2>1, <3>1 DEF Applied
    <3> QED
      BY <1>0, <2>2, <3>1 DEF Exchange
  <2>5. requests' # <<>> => Wanted(Head(requests))'
    BY <1>0, <1>2, <1>3, <2>1 DEF Wanted
  <2> QED
    BY <1>0, <2>1, <2>3, <2>4, <2>5 DEF Exchange
<1>9. CASE PieceArrives
  BY <1>0, <1>3, <1>9 DEF PieceArrives, wireVars, deviceVars, Exchange, Asking,
                          Wanted, Told, Applied, ShownSince
<1> QED
  BY <1>5, <1>6, <1>7, <1>8, <1>9

LEMMA ExchangeStep == ExchangeIInv /\ [Next]_vars => ExchangeIInv'
<1>1. ASSUME ExchangeIInv, UNCHANGED vars
      PROVE  Exchange'
  BY <1>1 DEF vars, wireVars, deviceVars, serverVars, ExchangeIInv, Exchange,
              Asking, Wanted, Told, Applied, ShownSince, Encoded, Seconds
<1> QED
  BY <1>1, CourseStep, DeviceExchange, ServerExchange
  DEF ExchangeIInv, Next, Finished

LEMMA ExchangeInit == Init => ExchangeIInv
BY CourseInit DEF ExchangeIInv, Exchange, Init, WireInit

-----------------------------------------------------------------------------
(* What a success says.  It is judged when the last answer is read, and    *)
(* holds from there on: nothing but the CMD_EXIT is under way any more.    *)

Exits == {q \in Requests : q.cmd = "exit"}

OnlyExit == outcome = "ok" => requests \in Seq(Exits)

Results == ConfirmedAfterWrite /\ QuickSyncApplied

SyncIInv == ExchangeIInv /\ OnlyExit /\ Results

\* A reading that is in sync bounds how far the clocks are apart.
LEMMA ReadingHonest ==
  ASSUME TypeOK, NEW reading \in Nat, ShownSince(reading, sentAt),
         sentAt <= now, InSync(Drift(reading))
  PROVE  /\ skew > -(Tolerance + 1) * Second
         /\ skew < (Tolerance + 2) * Second + (now - sentAt)
<1>1. /\ now \in Nat /\ sentAt \in Nat /\ skew \in Int
      /\ Second \in Nat \ {0} /\ Tolerance \in Nat
  BY Numbers
<1>2. /\ reading * Second - now < Tolerance * Second + Second
      /\ reading * Second - now > -(Tolerance * Second) - Second
  BY <1>1, InSyncBounds
<1>3. /\ (Tolerance + 2) * Second = Tolerance * Second + Second + Second
      /\ -(Tolerance + 1) * Second = -(Tolerance * Second) - Second
      /\ Tolerance * Second \in Int /\ reading * Second \in Int
  BY <1>1, Distribute
<1> QED
  BY <1>1, <1>2, <1>3 DEF ShownSince

\* A clock that was set to the time written shows no less when it is read back.
LEMMA ReadingApplied ==
  ASSUME TypeOK, NEW reading \in Nat, ShownSince(reading, sentAt),
         Applied(sentAt), obeys, before <= now,
         now - before <= Tolerance * Second
  PROVE  InSync(Drift(reading))
<1>0. /\ now \in Nat /\ sentAt \in Nat /\ before \in Nat /\ skew \in Int
      /\ Second \in Nat \ {0} /\ Tolerance * Second \in Int
      /\ reading * Second \in Int
      /\ Encoded(before) \in Nat /\ Encoded(before) * Second \in Int
      /\ Encoded(before) * Second <= before
      /\ before < Encoded(before) * Second + Second
  BY Numbers, Distribute
<1>1. reading * Second - now <= 0
  BY <1>0 DEF ShownSince, Applied
<1>2. reading * Second > (Encoded(before) - 1) * Second
  <2>1. (Encoded(before) - 1) * Second = Encoded(before) * Second - Second
    BY <1>0, Distribute
  <2> QED
    BY <1>0, <2>1 DEF ShownSince, Applied
<1>3. reading * Second >= Encoded(before) * Second
  <2>1. reading > Encoded(before) - 1
    BY <1>0, <1>2, Monotone
  <2>2. reading >= Encoded(before)
    BY <1>0, <2>1
  <2> QED
    BY <1>0, <2>2, Monotone
<1>4. reading * Second - now > -(Tolerance * Second) - Second
  BY <1>0, <1>3
<1> QED
  BY <1>0, <1>1, <1>4, BehindInSync

\* What is known when a time has been read.
LEMMA AnswerRead ==
  ASSUME ExchangeIInv, NEW o \in ReadOutcomes, Ends(o, "getTime"),
         TimeAccepted(o), pc = "getTime" \/ pc = "readBack"
  PROVE  /\ requests' = <<>>
         /\ o.data[1] \in Nat /\ ShownSince(o.data[1], sentAt)
         /\ sentAt <= now /\ before <= now
         /\ pc = "readBack" => Applied(sentAt)
<1>0. CourseIInv /\ TypeOK /\ Course /\ Exchange
  BY DEF ExchangeIInv, CourseIInv
<1>1. Asking /\ waiting /\ Return(o, "getTime")
  BY DEF Asking, Ends, Return
<1>2. o.ok /\ o.data # <<>> /\ o.data[1] \in Nat
  BY <1>0, TimeRead
<1>3. /\ requests = <<>> /\ requests' = requests
      /\ replies # <<>> /\ o.data = Head(replies).data
  BY <1>0, <1>1, <1>2, Returned
<1>4. ShownSince(o.data[1], sentAt) /\ (pc = "readBack" => Applied(sentAt))
  BY <1>0, <1>1, <1>2, <1>3 DEF Exchange, Told
<1> QED
  BY <1>0, <1>2, <1>3, <1>4 DEF Course

LEMMA ServerResults ==
  ASSUME SyncIInv, Server
  PROVE  OnlyExit' /\ Results'
<1>0. /\ CourseIInv /\ TypeOK /\ WireTypeOK /\ InFlightBound /\ Course
      /\ Exchange /\ OnlyExit /\ Results
      /\ UNCHANGED <<now, skew, obeys, taken, op>>
  BY DEF SyncIInv, ExchangeIInv, CourseIInv, TypeOK, FlightInv, Server,
         SendCommand, GetTimeReturns, SetTimeReturns, ReadBackReturns,
         Disconnect, deviceVars
<1>1. ASSUME outcome' # "ok"
      PROVE  OnlyExit' /\ Results'
  BY <1>1 DEF OnlyExit, Results, ConfirmedAfterWrite,
              QuickSyncApplied, Synced
<1>2. CASE SendCommand \/ SetTimeReturns
  <2>1. Asking /\ outcome' \in {outcome, "failed"}
    BY <1>2 DEF SendCommand, SetTimeReturns, Proceed, Asking
  <2> QED
    BY <1>0, <1>1, <2>1 DEF Course
<1>3. ASSUME NEW o \in ReadOutcomes, Ends(o, "getTime"), TimeAccepted(o),
             pc = "getTime" \/ pc = "readBack"
      PROVE  /\ requests' \in Seq(Exits)
             /\ o.data[1] \in Nat /\ ShownSince(o.data[1], sentAt)
             /\ before <= now
             /\ pc = "readBack" => Applied(sentAt)
  <2>1. <<>> \in Seq(Exits)
    OBVIOUS
  <2>2. requests' = <<>>
    BY <1>3, AnswerRead DEF SyncIInv
  <2> QED
    BY <1>3, <2>1, <2>2, AnswerRead, Zenon DEF SyncIInv
<1>4. CASE GetTimeReturns
  <2>1. PICK o \in ReadOutcomes :
          /\ Ends(o, "getTime")
          /\ Clock(o)
          /\ IF TimeAccepted(o) /\ op = "read"
             THEN pc' = "disconnect" /\ outcome' = "ok"
             ELSE Proceed(TimeAccepted(o), "setTime")
    BY <1>4 DEF GetTimeReturns
  <2>2. pc = "getTime" /\ outcome # "ok"
    BY <1>0, <1>4 DEF GetTimeReturns, Course, Asking
  <2>3. CASE TimeAccepted(o) /\ op = "read"
    <3>1. /\ requests' \in Seq(Exits) /\ drift' = Drift(o.data[1])
      BY <1>3, <2>1, <2>2, <2>3 DEF Clock
    <3>3. op' # "sync"
      BY <1>0, <2>3
    <3>4. OnlyExit'
      BY <3>1 DEF OnlyExit
    <3>5. Results'
      BY <1>0, <3>3 DEF Results, ConfirmedAfterWrite,
                              QuickSyncApplied, Synced, InSync
    <3> QED
      BY <3>4, <3>5
  <2>4. CASE ~(TimeAccepted(o) /\ op = "read")
    BY <1>1, <2>1, <2>2, <2>4 DEF Proceed
  <2> QED
    BY <2>3, <2>4
<1>5. CASE ReadBackReturns
  <2>1. PICK o \in ReadOutcomes :
          /\ Ends(o, "getTime")
          /\ Clock(o)
          /\ outcome' = IF TimeAccepted(o) THEN "ok" ELSE "failed"
    BY <1>5 DEF ReadBackReturns
  <2>2. pc = "readBack" /\ UNCHANGED before
    BY <1>5 DEF ReadBackReturns
  <2>3. CASE TimeAccepted(o)
    <3>1. /\ requests' \in Seq(Exits) /\ drift' = Drift(o.data[1])
          /\ o.data[1] \in Nat /\ ShownSince(o.data[1], sentAt)
          /\ before <= now /\ Applied(sentAt)
      BY <1>3, <2>1, <2>2, <2>3 DEF Clock
    <3>4. obeys /\ now - before <= Tolerance * Second => InSync(drift')
      BY <1>0, <3>1, ReadingApplied
    <3>5. taken
      BY <3>1 DEF Applied
    <3>6. OnlyExit'
      BY <3>1 DEF OnlyExit
    <3>7. Results'
      BY <1>0, <2>2, <3>4, <3>5
      DEF Results, ConfirmedAfterWrite, QuickSyncApplied, InSync
    <3> QED
      BY <3>6, <3>7
  <2>4. CASE ~TimeAccepted(o)
    BY <1>1, <2>1, <2>4
  <2> QED
    BY <2>3, <2>4
<1>6. CASE Disconnect
  <2>1. UNCHANGED <<before, drift, outcome>> /\ pc' = "done" /\ Close
    BY <1>6 DEF Disconnect
  <2>2. Results'
    BY <1>0, <2>1 DEF Results, ConfirmedAfterWrite, InSync,
                      QuickSyncApplied, Synced
  <2>3. ASSUME outcome = "ok" PROVE requests' \in Seq(Exits)
    <3> DEFINE q == [cmd |-> "exit", start |-> 0, n |-> 0,
                     id |-> NextReplyId(replyID), fresh |-> FALSE]
    <3>1. q \in Exits
      BY <1>0, NextReplyIdType DEF Exits, Requests, Cmds, WireTypeOK
    <3>2. requests \in Seq(Exits) /\ StaleClosed(Exits)
      BY <1>0, <2>3 DEF OnlyExit, StaleClosed, Exits, Requests
    <3>3. Append(Superseded(requests), q) \in Seq(Exits)
      BY <3>1, <3>2, SupersededIn, AppendProperties
    <3> QED
      BY <2>1, <3>2, <3>3 DEF Close
  <2> QED
    BY <2>1, <2>2, <2>3 DEF OnlyExit
<1> QED
  BY <1>2, <1>4, <1>5, <1>6 DEF Server

LEMMA DeviceResults ==
  ASSUME SyncIInv,
         DeviceHandles \/ DeviceIgnores \/ ConnectionDrops \/ PieceArrives \/ Tick
  PROVE  OnlyExit' /\ Results'
<1>0. /\ TypeOK /\ OnlyExit /\ Results
      /\ UNCHANGED <<op, pc, before, drift, outcome, obeys>>
  BY DEF SyncIInv, ExchangeIInv, CourseIInv, DeviceHandles, DeviceIgnores,
         ConnectionDrops, PieceArrives, Tick, deviceVars, serverVars
<1> SUFFICES ASSUME outcome = "ok" PROVE OnlyExit' /\ Results'
  BY <1>0 DEF OnlyExit, Results, ConfirmedAfterWrite,
              QuickSyncApplied, Synced
<1>1. requests \in Seq(Exits)
  BY <1>0 DEF OnlyExit
<1>2. requests # <<>> => /\ Head(requests).cmd = "exit"
                         /\ Tail(requests) \in Seq(Exits)
  BY <1>1, HeadTailProperties DEF Exits
<1>3. <<>> \in Seq(Exits)
  OBVIOUS
<1>4. requests' \in Seq(Exits) /\ UNCHANGED <<skew, taken>> /\ now' >= now
      /\ now' \in Nat
  <2>1. now \in Nat
    BY <1>0, Numbers
  <2>2. CASE DeviceHandles
    <3>1. requests # <<>> /\ requests' = Tail(requests) /\ now' = now
      BY <2>2 DEF DeviceHandles, Handle
    <3>2. UNCHANGED <<skew, taken>>
      BY <1>2, <2>2 DEF DeviceHandles
    <3> QED
      BY <1>2, <2>1, <3>1, <3>2
  <2>3. CASE DeviceIgnores
    BY <1>2, <2>1, <2>3 DEF DeviceIgnores, Ignore
  <2>4. CASE ConnectionDrops
    <3>1. requests' = <<>> /\ UNCHANGED <<now, skew, taken>>
      BY <2>4 DEF ConnectionDrops, Drop, deviceVars
    <3>2. requests' \in Seq(Exits)
      BY <1>3, <3>1, Zenon
    <3> QED
      BY <2>1, <3>1, <3>2
  <2>5. CASE Tick
    BY <1>1, <2>1, <2>5 DEF Tick, wireVars
  <2>6. CASE PieceArrives
    BY <1>1, <2>1, <2>6 DEF PieceArrives, wireVars, deviceVars
  <2> QED
    BY <2>2, <2>3, <2>4, <2>5, <2>6
<1>5. now' - before <= Tolerance * Second => now - before <= Tolerance * Second
  <2>1. Tolerance \in Nat /\ now \in Nat /\ before \in Nat
    BY <1>0, Numbers
  <2>2. Tolerance * Second \in Int
    BY <2>1, Distribute
  <2> QED
    BY <1>4, <2>1, <2>2
<1>6. Results'
  BY <1>0, <1>4, <1>5 DEF Results, ConfirmedAfterWrite,
                          InSync, QuickSyncApplied, Synced
<1> QED
  BY <1>4, <1>6 DEF OnlyExit

LEMMA SyncStep == SyncIInv /\ [Next]_vars => SyncIInv'
<1>1. ASSUME SyncIInv, UNCHANGED vars
      PROVE  OnlyExit' /\ Results'
  BY <1>1 DEF vars, wireVars, deviceVars, serverVars, SyncIInv, OnlyExit, Results,
              ConfirmedAfterWrite, InSync, QuickSyncApplied, Synced
<1> QED
  BY <1>1, ExchangeStep, ServerResults, DeviceResults DEF SyncIInv, Next, Finished

LEMMA SyncInit == Init => SyncIInv
BY ExchangeInit DEF Init, SyncIInv, OnlyExit, Results, ConfirmedAfterWrite,
                    QuickSyncApplied, Synced

LEMMA SyncHolds == Spec => []SyncIInv
BY SyncInit, SyncStep, PTL DEF Spec

\* A sync that reports success reports on a write the device has taken.
THEOREM ConfirmsTheWrite == Spec => []ConfirmedAfterWrite
<1>1. SyncIInv => ConfirmedAfterWrite
  BY DEF SyncIInv, Results
<1> QED
  BY <1>1, SyncHolds, PTL

\* However many pieces its answer came in, a clock that is reported in sync is
\* as near as the time the answer took can tell, and not ahead after a write
\* that the device obeys.
THEOREM HonestAboutSync == Spec => InSyncHonest
<1> DEFINE Honest ==
      SaidInSync => /\ skew > -(Tolerance + 1) * Second
                    /\ skew < (Tolerance + 2) * Second + (now - sentAt)
                    /\ op = "sync" /\ obeys => skew <= 0
<1>1. SyncIInv /\ [Next]_vars => Honest
  <2> SUFFICES ASSUME SyncIInv, [Next]_vars, SaidInSync
               PROVE  /\ skew > -(Tolerance + 1) * Second
                      /\ skew < (Tolerance + 2) * Second + (now - sentAt)
                      /\ op = "sync" /\ obeys => skew <= 0
    OBVIOUS
  <2>0. ExchangeIInv /\ TypeOK
    BY DEF SyncIInv, ExchangeIInv, CourseIInv
  <2>1. outcome = "none" /\ outcome' = "ok" /\ InSync(drift')
    BY DEF SaidInSync
  <2>2. CASE GetTimeReturns
    <3>1. PICK o \in ReadOutcomes :
            /\ Ends(o, "getTime")
            /\ Clock(o)
            /\ IF TimeAccepted(o) /\ op = "read"
               THEN pc' = "disconnect" /\ outcome' = "ok"
               ELSE Proceed(TimeAccepted(o), "setTime")
      BY <2>2 DEF GetTimeReturns
    <3>2. TimeAccepted(o) /\ op = "read" /\ pc = "getTime"
      BY <2>1, <2>2, <3>1 DEF GetTimeReturns, Proceed
    <3>3. /\ o.data[1] \in Nat /\ ShownSince(o.data[1], sentAt)
          /\ sentAt <= now /\ InSync(Drift(o.data[1]))
      BY <2>0, <2>1, <3>1, <3>2, AnswerRead DEF Clock, InSync
    <3> QED
      BY <2>0, <3>2, <3>3, ReadingHonest
  <2>3. CASE ReadBackReturns
    <3>1. PICK o \in ReadOutcomes :
            /\ Ends(o, "getTime")
            /\ Clock(o)
            /\ outcome' = IF TimeAccepted(o) THEN "ok" ELSE "failed"
      BY <2>3 DEF ReadBackReturns
    <3>2. TimeAccepted(o) /\ pc = "readBack"
      BY <2>1, <2>3, <3>1 DEF ReadBackReturns
    <3>3. /\ o.data[1] \in Nat /\ ShownSince(o.data[1], sentAt)
          /\ sentAt <= now /\ InSync(Drift(o.data[1])) /\ Applied(sentAt)
      BY <2>0, <2>1, <3>1, <3>2, AnswerRead DEF Clock, InSync
    <3>4. obeys => skew <= 0
      <4>1. obeys => skew <= Encoded(before) * Second - before
        BY <3>3 DEF Applied
      <4>2. /\ Encoded(before) * Second \in Int /\ Encoded(before) * Second <= before
            /\ before \in Nat /\ skew \in Int
        BY <2>0, Numbers
      <4> QED
        BY ONLY <4>1, <4>2
    <3> QED
      BY <2>0, <3>3, <3>4, ReadingHonest
  <2>4. ~(SendCommand \/ SetTimeReturns \/ Disconnect)
    BY <2>1 DEF SendCommand, SetTimeReturns, Proceed, Disconnect
  <2>5. ~(DeviceHandles \/ DeviceIgnores \/ ConnectionDrops \/ PieceArrives
          \/ Tick \/ UNCHANGED vars)
    BY <2>1 DEF DeviceHandles, DeviceIgnores, ConnectionDrops, PieceArrives,
                Tick, serverVars, vars
  <2> QED
    BY <2>2, <2>3, <2>4, <2>5 DEF Next, Server, Finished
<1> QED
  BY <1>1, SyncHolds, PTL DEF Spec, InSyncHonest

\* A sync of a device that obeys, done within the tolerance, reports in sync.
THEOREM AppliesQuickSync == Spec => []QuickSyncApplied
<1>1. SyncIInv => QuickSyncApplied
  BY DEF SyncIInv, Results
<1> QED
  BY <1>1, SyncHolds, PTL

-----------------------------------------------------------------------------
(* The short requests together.  A behaviour of MCRequests is one of       *)
(* ClockSync or of DeviceInfo, and the other part stays where it began.    *)
(* The theorems of DeviceInfoProofs are about another instance of the same *)
(* module, so its definitions are first found to be those of Info.         *)

InfoP == INSTANCE DeviceInfoProofs WITH pc <- infoPc

LEMMA SameWire ==
  /\ \A f : Info!IsFragment(f) <=> InfoP!IsFragment(f)
  /\ \A f : Info!Fragment(f) = InfoP!Fragment(f)
  /\ \A r : Info!NextReplyId(r) = InfoP!NextReplyId(r)
  /\ \A s : Info!Superseded(s) = InfoP!Superseded(s)
  /\ Info!ReadOutcomes = InfoP!ReadOutcomes
<1>1. \A f : Info!IsFragment(f) <=> InfoP!IsFragment(f)
  BY DEF Info!IsFragment, InfoP!IsFragment
<1>2. \A f : Info!Fragment(f) = InfoP!Fragment(f)
  BY DEF Info!Fragment, InfoP!Fragment
<1>3. \A r : Info!NextReplyId(r) = InfoP!NextReplyId(r)
  BY DEF Info!NextReplyId, InfoP!NextReplyId
<1>4. \A s : Info!Superseded(s) = InfoP!Superseded(s)
  BY DEF Info!Superseded, InfoP!Superseded
<1>5. \A s : Info!Suffixes(s) = InfoP!Suffixes(s)
  BY DEF Info!Suffixes, InfoP!Suffixes
<1>6. \A s : Info!AfterRead(s) = InfoP!AfterRead(s)
  BY <1>2, <1>5 DEF Info!AfterRead, InfoP!AfterRead
<1>7. \A f, t : Info!Success(f, t) = InfoP!Success(f, t)
  BY DEF Info!Success, InfoP!Success
<1>8. \A t, l, c : Info!Failure(t, l, c) = InfoP!Failure(t, l, c)
  BY DEF Info!Failure, InfoP!Failure
<1>9. Info!FrameArrives = InfoP!FrameArrives
  BY <1>1, <1>6, <1>7 DEF Info!FrameArrives, InfoP!FrameArrives
<1>10. Info!BadMagic = InfoP!BadMagic
  BY <1>1, <1>6, <1>8 DEF Info!BadMagic, InfoP!BadMagic
<1>11. Info!DeadlineBeforeFrame = InfoP!DeadlineBeforeFrame
  BY <1>8 DEF Info!DeadlineBeforeFrame, InfoP!DeadlineBeforeFrame
<1>12. Info!DeadlineInsideFrame = InfoP!DeadlineInsideFrame
  BY <1>2, <1>8 DEF Info!DeadlineInsideFrame, InfoP!DeadlineInsideFrame
<1>13. Info!ConnectionError = InfoP!ConnectionError
  BY <1>8 DEF Info!ConnectionError, InfoP!ConnectionError
<1>14. Info!ReadOutcomes = InfoP!ReadOutcomes
  BY <1>9, <1>10, <1>11, <1>12, <1>13 DEF Info!ReadOutcomes, InfoP!ReadOutcomes
<1> QED
  BY <1>1, <1>2, <1>3, <1>4, <1>14

LEMMA SameSteps ==
  /\ \A c, a, b : Info!Write(c, a, b) <=> InfoP!Write(c, a, b)
  /\ \A o, c : Info!Return(o, c) <=> InfoP!Return(o, c)
  /\ \A o, cs, u : Info!Accepted(o, cs, u) <=> InfoP!Accepted(o, cs, u)
  /\ \A a, c : Info!Handle(a, c) <=> InfoP!Handle(a, c)
  /\ Info!Ignore <=> InfoP!Ignore
  /\ Info!Drop <=> InfoP!Drop
  /\ Info!Close <=> InfoP!Close
  /\ Info!WireInit <=> InfoP!WireInit
<1>1. \A c, a, b : Info!Write(c, a, b) <=> InfoP!Write(c, a, b)
  BY SameWire DEF Info!Write, InfoP!Write
<1>2. \A o, c : Info!Return(o, c) <=> InfoP!Return(o, c)
  BY DEF Info!Return, InfoP!Return
<1>3. \A o, cs, u : Info!Accepted(o, cs, u) <=> InfoP!Accepted(o, cs, u)
  BY DEF Info!Accepted, InfoP!Accepted
<1>4. \A a, c : Info!Handle(a, c) <=> InfoP!Handle(a, c)
  BY DEF Info!Handle, InfoP!Handle
<1>5. Info!Ignore <=> InfoP!Ignore
  BY DEF Info!Ignore, InfoP!Ignore
<1>6. Info!Drop <=> InfoP!Drop
  BY DEF Info!Drop, InfoP!Drop
<1>7. Info!Close <=> InfoP!Close
  BY SameWire DEF Info!Close, InfoP!Close
<1>8. Info!WireInit <=> InfoP!WireInit
  BY SameWire DEF Info!WireInit, InfoP!WireInit
<1> QED
  BY <1>1, <1>2, <1>3, <1>4, <1>5, <1>6, <1>7, <1>8

LEMMA InfoIsInfo ==
  /\ Info!Init <=> InfoP!Init
  /\ Info!Next <=> InfoP!Next
  /\ Info!TypeOK <=> InfoP!TypeOK
  /\ Info!OwnOptions <=> InfoP!OwnOptions
  /\ Info!FieldsLag <=> InfoP!FieldsLag
<1>1. /\ Info!Options = InfoP!Options /\ Info!Blank = InfoP!Blank
      /\ Info!ConfigName = InfoP!ConfigName /\ Info!Name = InfoP!Name
      /\ Info!Serial = InfoP!Serial /\ Info!Firmware = InfoP!Firmware
      /\ Info!Codes = InfoP!Codes
  BY DEF Info!Options, InfoP!Options, Info!Blank, InfoP!Blank, Info!ConfigName,
         InfoP!ConfigName, Info!Name, InfoP!Name, Info!Serial, InfoP!Serial,
         Info!Platform, InfoP!Platform, Info!Firmware, InfoP!Firmware, Info!Codes, InfoP!Codes
<1>2. Info!Init <=> InfoP!Init
  BY <1>1, SameSteps DEF Info!Init, InfoP!Init
<1>3. /\ \A q : Info!ProperAnswer(q) = InfoP!ProperAnswer(q)
      /\ Info!Refusal = InfoP!Refusal
  BY <1>1 DEF Info!ProperAnswer, InfoP!ProperAnswer, Info!Refusal, InfoP!Refusal
<1>4. \A o : Info!Value(o) = InfoP!Value(o)
  BY <1>1, SameSteps DEF Info!Value, InfoP!Value, Info!ParseOption, InfoP!ParseOption
<1>5. Info!SendCommand <=> InfoP!SendCommand
  BY SameSteps DEF Info!SendCommand, InfoP!SendCommand, Info!OptionOf, InfoP!OptionOf
<1>6. Info!GetOptionReturns <=> InfoP!GetOptionReturns
  BY <1>1, <1>4, SameWire, SameSteps DEF Info!GetOptionReturns, InfoP!GetOptionReturns
<1>7. Info!Disconnect <=> InfoP!Disconnect
  BY <1>1, SameSteps DEF Info!Disconnect, InfoP!Disconnect
<1>8. Info!DeviceHandles <=> InfoP!DeviceHandles
  BY <1>3, SameSteps DEF Info!DeviceHandles, InfoP!DeviceHandles
<1>9. Info!DeviceIgnores <=> InfoP!DeviceIgnores
  BY SameSteps DEF Info!DeviceIgnores, InfoP!DeviceIgnores
<1>10. Info!ConnectionDrops <=> InfoP!ConnectionDrops
  BY SameSteps DEF Info!ConnectionDrops, InfoP!ConnectionDrops
<1>11. Info!Finished <=> InfoP!Finished
  BY DEF Info!Finished, InfoP!Finished, Info!vars, InfoP!vars, Info!wireVars, InfoP!wireVars
<1>12. Info!Next <=> InfoP!Next
  BY <1>5, <1>6, <1>7, <1>8, <1>9, <1>10, <1>11 DEF Info!Next, InfoP!Next
<1>13. Info!TypeOK <=> InfoP!TypeOK
  <2>1. Info!WireTypeOK <=> InfoP!WireTypeOK
    BY <1>1 DEF Info!WireTypeOK, InfoP!WireTypeOK, Info!Requests, InfoP!Requests,
                Info!Replies, InfoP!Replies, Info!Cmds, InfoP!Cmds, Info!ReplyIds, InfoP!ReplyIds
  <2> QED
    BY <1>1, <2>1 DEF Info!TypeOK, InfoP!TypeOK
<1>14. Info!OwnOptions <=> InfoP!OwnOptions
  <2>1. Info!Missing = InfoP!Missing
    BY <1>1 DEF Info!Missing, InfoP!Missing
  <2>2. \A S : Info!Cardinality(S) = InfoP!Cardinality(S)
    BY DEF Info!Cardinality, InfoP!Cardinality
  <2> QED
    BY <1>1, <2>1, <2>2 DEF Info!OwnOptions, InfoP!OwnOptions
<1>15. Info!FieldsLag <=> InfoP!FieldsLag
  BY <1>1 DEF Info!FieldsLag, InfoP!FieldsLag
<1> QED
  BY <1>2, <1>12, <1>13, <1>14, <1>15

mcVars == <<part, vars, infoVars>>

\* The part that a behaviour is not about stays where it began.
ClockIdle ==
  /\ now = Start /\ skew \in {rtc - Start : rtc \in RTCs}
  /\ obeys \in BOOLEAN /\ taken = FALSE /\ op = "read" /\ pc = "getTime"
  /\ sentAt = Start /\ deadline = Start /\ before = 0 /\ drift = 0 /\ outcome = "none"

InfoIdle ==
  /\ blank = {} /\ asked = Info!Serial /\ infoPc = "ask"
  /\ field = [k \in Info!Options |-> Info!Blank]

LEMMA OnePart == MCSpec => [](part = "clock") \/ [](part = "info")
<1>1. MCInit => part = "clock" \/ part = "info"
  BY DEF MCInit
<1>2. part = "clock" /\ [MCNext]_mcVars => (part = "clock")'
  BY DEF MCNext, ClockStep, InfoStep, mcVars
<1>3. part = "info" /\ [MCNext]_mcVars => (part = "info")'
  BY DEF MCNext, ClockStep, InfoStep, mcVars
<1> QED
  BY <1>1, <1>2, <1>3, PTL DEF MCSpec, mcVars

LEMMA ClockPart == MCSpec /\ [](part = "clock") => Spec /\ []InfoIdle
<1>1. MCInit /\ part = "clock" => Init /\ InfoIdle
  BY DEF MCInit, Info!Init, InfoIdle
<1>2. part = "clock" /\ [MCNext]_mcVars => [Next]_vars /\ UNCHANGED infoVars
  BY DEF MCNext, ClockStep, InfoStep, mcVars
<1>3. InfoIdle /\ UNCHANGED infoVars => InfoIdle'
  BY DEF InfoIdle, infoVars
<1> QED
  BY <1>1, <1>2, <1>3, PTL DEF MCSpec, mcVars, Spec

LEMMA InfoPart == MCSpec /\ [](part = "info") => InfoP!Spec /\ []ClockIdle
<1>1. MCInit /\ part = "info" => InfoP!Init /\ ClockIdle
  BY InfoIsInfo DEF MCInit, Init, ClockIdle
<1>2. part = "info" /\ [MCNext]_mcVars => [InfoP!Next]_(InfoP!vars) /\ UNCHANGED <<deviceVars, serverVars>>
  <2> SUFFICES ASSUME part = "info", [MCNext]_mcVars
               PROVE  [InfoP!Next]_(InfoP!vars) /\ UNCHANGED <<deviceVars, serverVars>>
    OBVIOUS
  <2>1. CASE InfoStep
    BY <2>1, InfoIsInfo DEF InfoStep
  <2>2. CASE UNCHANGED mcVars
    BY <2>2 DEF mcVars, vars, wireVars, infoVars, InfoP!vars, InfoP!wireVars, deviceVars, serverVars
  <2> QED
    BY <2>1, <2>2 DEF MCNext, ClockStep
<1>3. ClockIdle /\ UNCHANGED <<deviceVars, serverVars>> => ClockIdle'
  BY DEF ClockIdle, deviceVars, serverVars
<1> QED
  BY <1>1, <1>2, <1>3, PTL DEF MCSpec, mcVars, InfoP!Spec

\* In the clock's requests and the device info alike, the variables of both
\* keep their types, for every tolerance, latency and run of the clocks.
THEOREM RequestsTypeCorrect == MCSpec => []RequestsTypeOK
<1>1. WireTypeOK <=> Info!WireTypeOK
  BY DEF WireTypeOK, Info!WireTypeOK, Requests, Info!Requests, Replies, Info!Replies,
         Cmds, Info!Cmds, Codes, Info!Codes, ReplyIds, Info!ReplyIds
<1>2. TypeOK /\ InfoIdle => RequestsTypeOK
  BY <1>1 DEF TypeOK, InfoIdle, RequestsTypeOK, Info!TypeOK, Info!Options, Info!Serial
<1>3. InfoP!TypeOK /\ ClockIdle => RequestsTypeOK
  <2> SUFFICES ASSUME InfoP!TypeOK, ClockIdle PROVE TypeOK /\ Info!TypeOK
    BY DEF RequestsTypeOK
  <2>1. Info!TypeOK /\ WireTypeOK
    BY <1>1, InfoIsInfo DEF Info!TypeOK
  <2>2. Start \in Nat /\ MaxTime \in Nat /\ Start <= MaxTime /\ RTCs \subseteq Nat
    BY ClockAssumption
  <2>3. skew \in Int /\ now + skew >= 0
    BY <2>2 DEF ClockIdle
  <2>4. /\ Start \in Start .. MaxTime /\ 0 \in 0 .. MaxTime
        /\ Start \in Start .. (MaxTime + MaxLatency)
    BY <2>2, ClockAssumption
  <2>5. /\ now \in Start .. MaxTime /\ sentAt \in Start .. MaxTime
        /\ deadline \in Start .. (MaxTime + MaxLatency)
        /\ before \in 0 .. MaxTime /\ drift \in Int
    BY <2>4 DEF ClockIdle
  <2>6. taken \in BOOLEAN /\ obeys \in BOOLEAN
    BY DEF ClockIdle
  <2>7. /\ op \in {"read", "sync"} /\ outcome \in {"none", "ok", "failed"}
        /\ pc \in {"getTime", "setTime", "readBack", "disconnect", "done"}
    BY DEF ClockIdle
  <2> QED
    BY <2>1, <2>3, <2>5, <2>6, <2>7 DEF TypeOK
<1>4. InfoP!Spec => []InfoP!TypeOK
  BY WireAssumption, InfoP!TypeCorrect DEF InfoP!WireAssumption
<1> QED
  BY <1>2, <1>3, <1>4, OnePart, ClockPart, InfoPart, TypeCorrect, PTL

\* Whatever the device does, a field of the device info never has the value of
\* an option read after it, and lags by no more than the answers that were late.
THEOREM InfoLagsBehind == MCSpec => []FieldsLag
<1>1. InfoIdle => FieldsLag
  BY DEF InfoIdle, FieldsLag, Info!FieldsLag, Info!Options, Info!Blank,
         Info!Serial, Info!Name, Info!Platform, Info!Firmware
<1>2. InfoP!FieldsLag => FieldsLag
  BY InfoIsInfo DEF FieldsLag
<1>3. InfoP!Spec => []InfoP!FieldsLag
  BY WireAssumption, InfoP!LagsBehind DEF InfoP!WireAssumption
<1> QED
  BY <1>1, <1>2, <1>3, OnePart, ClockPart, InfoPart, PTL

\* Without a late answer the device info is right, and a failed read of an option
\* costs its own field only, for any number of faults.
THEOREM InfoFailsAlone == MCSpec => []OwnOptions
<1>1. InfoIdle => OwnOptions
  BY DEF InfoIdle, OwnOptions, Info!OwnOptions
<1>2. InfoP!OwnOptions => OwnOptions
  BY InfoIsInfo DEF OwnOptions
<1>3. InfoP!Spec => []InfoP!OwnOptions
  BY WireAssumption, InfoP!FailsAlone DEF InfoP!WireAssumption
<1> QED
  BY <1>1, <1>2, <1>3, OnePart, ClockPart, InfoPart, PTL

=============================================================================
