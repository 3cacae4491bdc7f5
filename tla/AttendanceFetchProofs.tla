----------------------- MODULE AttendanceFetchProofs -----------------------
(***************************************************************************)
(* Theorems about AttendanceFetch, for every size of the log and of the    *)
(* chunks, every wrap of the reply ids and any number of faults.           *)
(***************************************************************************)
EXTENDS FetchRestart, FetchSession, ZKWireProofs

LEMMA LeastType ==
  ASSUME NEW a \in Nat, NEW b \in Nat
  PROVE  Least(a, b) \in Nat /\ Least(a, b) <= a /\ Least(a, b) <= b
BY DEF Least

LEMMA PieceType ==
  ASSUME stored \in Nat, NEW from \in Nat, NEW n \in Nat
  PROVE  Piece(from, n) \in Seq(Nat)
<1>1. Least(from + n, stored) \in Nat /\ Least(from + n, stored) <= stored
  BY LeastType
<1>2. \A i \in from + 1 .. Least(from + n, stored) : Log[i] \in Nat
  BY <1>1 DEF Log
<1> QED
  BY <1>1, <1>2, SubSeqProperties DEF Piece

\* Whatever the device answers is an answer.
LEMMA AnswerType ==
  ASSUME TypeOK, NEW q \in Requests
  PROVE  /\ ProperAnswer(q) \in Answers
         /\ FaultyAnswers(q) \subseteq Answers
<1>1. ASSUME NEW code \in Codes, NEW data \in Seq(Nat), NEW len \in Nat
      PROVE  Answer(code, data, len) \in Answers
  BY DEF Answer, Answers
<1>2. /\ q.start \in Nat /\ q.n \in Nat /\ q.cmd \in Cmds
      /\ stored \in Nat /\ stored - 1 \in Nat /\ cursor \in Nat
      /\ PlainChunk \in Nat /\ FreeSizesUnits \in Nat
  BY FetchAssumption DEF TypeOK, Requests
<1>3. /\ <<>> \in Seq(Nat) /\ <<0>> \in Seq(Nat) /\ <<0, 0>> \in Seq(Nat)
      /\ [i \in 1 .. FreeSizesUnits |-> 0] \in Seq(Nat)
      /\ Log \in Seq(Nat)
      /\ Piece(q.start, q.n) \in Seq(Nat)
      /\ Piece(0, PlainChunk) \in Seq(Nat)
      /\ Piece(cursor, PlainChunk) \in Seq(Nat)
  <2>1. <<>> \in Seq(Nat) /\ <<0>> \in Seq(Nat) /\ <<0, 0>> \in Seq(Nat)
    OBVIOUS
  <2>2. [i \in 1 .. FreeSizesUnits |-> 0] \in Seq(Nat)
    BY <1>2
  <2>3. Log \in Seq(Nat)
    BY <1>2 DEF Log
  <2>4. /\ Piece(q.start, q.n) \in Seq(Nat)
        /\ Piece(0, PlainChunk) \in Seq(Nat)
        /\ Piece(cursor, PlainChunk) \in Seq(Nat)
    BY <1>2, PieceType
  <2> QED
    BY <2>1, <2>2, <2>3, <2>4
<1>4. {"OK", "DATA", "PREPARE", "ERROR"} \subseteq Codes
  BY DEF Codes
<1>5. ProperAnswer(q) \in Answers
  BY <1>1, <1>2, <1>3, <1>4 DEF ProperAnswer
<1>6. ASSUME NEW a \in FaultyAnswers(q)
      PROVE  a \in Answers
  <2> DEFINE p == ProperAnswer(q)
  <2>1. CASE a = Answer("ERROR", <<>>, 0)
    BY <1>1, <1>3, <1>4, <2>1
  <2>2. CASE p.data # <<>> /\ a = [p EXCEPT !.data = Front(p.data)]
    <3>1. p.data \in Seq(Nat)
      BY <1>5 DEF Answers
    <3>2. Front(p.data) \in Seq(Nat)
      <4>1. \A i \in 1 .. Len(p.data) - 1 : p.data[i] \in Nat
        BY <3>1, ElementOfSeq
      <4> QED
        BY <3>1, <4>1, SubSeqProperties DEF Front
    <3> QED
      BY <1>5, <2>2, <3>2 DEF Answers
  <2>3. CASE a = [p EXCEPT !.size = Negative]
    BY <1>5, <2>3 DEF Answers, Negative
  <2> QED
    BY <1>6, <2>1, <2>2, <2>3 DEF FaultyAnswers
<1> QED
  BY <1>5, <1>6

LEMMA InitType == Init => TypeOK
<1> SUFFICES ASSUME Init PROVE TypeOK
  OBVIOUS
<1>1. WireTypeOK
  BY WireInitType DEF Init
<1>2. stored \in Nat \ {0}
  BY FetchAssumption DEF Init
<1>3. out \in Seq(Nat)
  BY DEF Init
<1> QED
  BY <1>1, <1>2, <1>3 DEF Init, TypeOK, Exchanges, Cmds

LEMMA SizesReadType ==
  ASSUME NEW o \in Outcomes, NEW cmd
  PROVE  SizesRead(o, cmd) \subseteq Nat
BY FetchAssumption DEF SizesRead, Outcomes

-----------------------------------------------------------------------------
(* Type correctness.  A read-buffer request has a length that is a natural *)
(* number because the chunk loop runs only while bytes are missing.        *)

Before == {"getTime", "disable", "freeSizes", "prepareBuffer"}

ChunkLoop ==
  /\ pc \in Before => out = <<>>
  /\ pc = "readBuffer" => Len(out) < size

TypeInv == TypeOK /\ ChunkLoop

LEMMA ChunkType ==
  ASSUME TypeInv, pc = "readBuffer"
  PROVE  Start \in Nat /\ ChunkLen \in Nat
<1>1. Len(out) \in Nat /\ size \in Nat /\ Len(out) < size
  BY DEF TypeInv, ChunkLoop, TypeOK
<1>2. size - Len(out) \in Nat /\ MaxChunk \in Nat
  BY <1>1, FetchAssumption
<1> QED
  BY <1>1, <1>2, LeastType DEF Start, ChunkLen

LEMMA CmdOfType ==
  ASSUME NEW label \in Exchanges
  PROVE  CmdOf(label) \in Cmds
BY DEF Exchanges, CmdOf, Cmds

LEMMA SendType ==
  ASSUME TypeInv, SendCommand
  PROVE  TypeInv'
<1>1. WireTypeOK'
  <2>1. CASE pc = "readBuffer"
    BY <2>1, ChunkType, WriteType DEF SendCommand, TypeInv, TypeOK, Cmds
  <2>2. CASE pc # "readBuffer"
    BY <2>2, CmdOfType, WriteType DEF SendCommand, TypeInv, TypeOK
  <2> QED
    BY <2>1, <2>2
<1> QED
  BY <1>1 DEF SendCommand, deviceVars, fetchVars, TypeInv, TypeOK, ChunkLoop

LEMMA DeviceHandlesType ==
  ASSUME TypeInv, DeviceHandles
  PROVE  TypeInv'
<1> DEFINE q == Head(requests)
<1>1. q \in Requests
  BY HeadTailProperties DEF TypeInv, TypeOK, WireTypeOK, DeviceHandles
<1>2. PICK a \in {ProperAnswer(q)} \cup FaultyAnswers(q) :
        /\ Handle(a, IF a = ProperAnswer(q) THEN 0 ELSE 1)
        /\ enabled' \in {enabled, TRUE, FALSE}
        /\ cursor' \in {cursor, Len(a.data), cursor + Len(a.data)}
  BY DEF DeviceHandles
<1>3. a \in Answers
  BY <1>1, AnswerType DEF TypeInv
<1>4. WireTypeOK'
  BY <1>2, <1>3, HandleType DEF TypeInv, TypeOK
<1>5. cursor' \in Nat
  BY <1>2, <1>3 DEF TypeInv, TypeOK, Answers
<1>6. enabled' \in BOOLEAN
  BY <1>2 DEF TypeInv, TypeOK
<1> QED
  BY <1>4, <1>5, <1>6 DEF DeviceHandles, fetchVars, TypeInv, TypeOK, ChunkLoop

LEMMA DeviceFailsType ==
  ASSUME TypeInv, DeviceIgnores \/ ConnectionDrops
  PROVE  TypeInv'
<1>1. WireTypeOK'
  BY IgnoreType, DropType DEF DeviceIgnores, ConnectionDrops, TypeInv, TypeOK
<1> QED
  BY <1>1 DEF DeviceIgnores, ConnectionDrops, deviceVars, fetchVars, TypeInv,
              TypeOK, ChunkLoop

\* The exchanges whose answer decides nothing but the next exchange, the clock
\* or the record count.
LEMMA SmallReturnsType ==
  ASSUME TypeInv,
         \/ GetDeviceTimeReturns
         \/ DisableReturns
         \/ ReadRecordsReturns
         \/ FreeDataReturns
         \/ EnableReturns
  PROVE  TypeInv'
<1>1. WireTypeOK'
  BY ReturnType DEF GetDeviceTimeReturns, DisableReturns, ReadRecordsReturns,
                    FreeDataReturns, EnableReturns, TypeInv, TypeOK, Cmds
<1>2. /\ pc' \in Exchanges \cup {"disconnect", "done"}
      /\ pc' \in Before => out' = <<>>
      /\ pc' # "readBuffer"
  BY DEF GetDeviceTimeReturns, DisableReturns, ReadRecordsReturns,
         FreeDataReturns, EnableReturns, TypeInv, TypeOK, ChunkLoop, Before,
         Exchanges, Cmds
<1>3. /\ clock' \in {"none", "read", "unread"}
      /\ count' \in {"none", "unknown", "device", "junk"}
      /\ outcome' \in {"none", "ok", "failed"}
      /\ UNCHANGED <<deviceVars, size, out, fetchErr>>
  BY DEF GetDeviceTimeReturns, DisableReturns, ReadRecordsReturns,
         FreeDataReturns, EnableReturns, TypeInv, TypeOK
<1> QED
  BY <1>1, <1>2, <1>3 DEF deviceVars, TypeInv, TypeOK, ChunkLoop

LEMMA PrepareBufferType ==
  ASSUME TypeInv, PrepareBufferReturns
  PROVE  TypeInv'
<1>1. PICK o \in ReadOutcomes :
        /\ Return(o, "prepareBuffer")
        /\ \/ /\ out' = o.data
              /\ pc' = IF out' # <<>> THEN "enable" ELSE "attLog"
              /\ size' = size
           \/ /\ size' \in SizesRead(o, "prepareBuffer")
              /\ pc' = IF size' > 0 THEN "readBuffer" ELSE "attLog"
              /\ out' = out
           \/ /\ pc' = "attLog"
              /\ size' = size /\ out' = out
  BY DEF PrepareBufferReturns
<1>2. o \in Outcomes
  BY ReadOutcomesType DEF TypeInv, TypeOK
<1>3. WireTypeOK'
  BY <1>1, ReturnType DEF TypeInv, TypeOK, Cmds
<1>4. size' \in Nat /\ out' \in Seq(Nat)
  BY <1>1, <1>2, SizesReadType DEF Outcomes, TypeInv, TypeOK
<1>5. pc' \in {"enable", "attLog", "readBuffer"}
  BY <1>1
<1>6. pc' = "readBuffer" => Len(out') < size'
  <2>1. out = <<>> /\ Len(<<>>) = 0
    BY DEF PrepareBufferReturns, TypeInv, ChunkLoop, Before
  <2> QED
    BY <1>1, <1>4, <2>1
<1> QED
  BY <1>3, <1>4, <1>5, <1>6
  DEF PrepareBufferReturns, deviceVars, TypeInv, TypeOK, ChunkLoop, Before,
      Exchanges, Cmds

LEMMA ReadBufferType ==
  ASSUME TypeInv, ReadBufferReturns
  PROVE  TypeInv'
<1>1. PICK o \in ReadOutcomes :
        /\ Return(o, "readBuffer")
        /\ \/ /\ out' = out \o o.data
              /\ pc' = IF ChunkEnds(o.data) THEN "freeData" ELSE "readBuffer"
           \/ out' = <<>> /\ pc' = "attLog"
  BY DEF ReadBufferReturns
<1>2. o.data \in Seq(Nat)
  BY ReadOutcomesType DEF Outcomes, TypeInv, TypeOK
<1>3. WireTypeOK'
  BY <1>1, ReturnType DEF TypeInv, TypeOK, Cmds
<1>4. /\ out \o o.data \in Seq(Nat)
      /\ Len(out \o o.data) = Len(out) + Len(o.data)
      /\ Len(out) \in Nat /\ Len(o.data) \in Nat /\ size \in Nat
  BY <1>2, ConcatProperties DEF TypeInv, TypeOK
<1>5. out' \in Seq(Nat)
  <2>1. <<>> \in Seq(Nat)
    OBVIOUS
  <2> QED
    BY <1>1, <1>4, <2>1, Zenon
<1>6. pc' = "readBuffer" => Len(out') < size
  BY <1>1, <1>4 DEF ChunkEnds, Start
<1>7. pc' \in {"freeData", "readBuffer", "attLog"}
  BY <1>1
<1> QED
  BY <1>3, <1>5, <1>6, <1>7
  DEF ReadBufferReturns, deviceVars, TypeInv, TypeOK, ChunkLoop, Before,
      Exchanges, Cmds

LEMMA AttLogType ==
  ASSUME TypeInv, AttLogReturns
  PROVE  TypeInv'
<1>1. PICK o \in ReadOutcomes :
        /\ Return(o, "attLog")
        /\ fetchErr' \in {fetchErr, TRUE}
        /\ pc' \in {"enable", "data", "plainFree"}
        /\ \/ out' = out /\ size' = size
           \/ /\ \E records \in SizesRead(o, "attLog") : size' = records + 1
              /\ out' = o.data
  BY DEF AttLogReturns, PlainLen
<1>2. o \in Outcomes
  BY ReadOutcomesType DEF TypeInv, TypeOK
<1>3. WireTypeOK'
  BY <1>1, ReturnType DEF TypeInv, TypeOK, Cmds
<1>4. size' \in Nat
  BY <1>1, <1>2, SizesReadType DEF TypeInv, TypeOK
<1>5. out' \in Seq(Nat)
  BY <1>1, <1>2 DEF Outcomes, TypeInv, TypeOK
<1>6. fetchErr' \in BOOLEAN
  BY <1>1 DEF TypeInv, TypeOK
<1> QED
  BY <1>1, <1>3, <1>4, <1>5, <1>6
  DEF AttLogReturns, deviceVars, TypeInv, TypeOK, ChunkLoop, Before, Exchanges,
      Cmds

LEMMA DataType ==
  ASSUME TypeInv, DataReturns
  PROVE  TypeInv'
<1>1. PICK o \in ReadOutcomes :
        /\ Return(o, "data")
        /\ fetchErr' \in {fetchErr, TRUE}
        /\ pc' \in {"enable", "data", "plainFree"}
        /\ out' = <<>> \/ out' = out \o o.data
  BY DEF DataReturns
<1>2. o.data \in Seq(Nat)
  BY ReadOutcomesType DEF Outcomes, TypeInv, TypeOK
<1>3. WireTypeOK'
  BY <1>1, ReturnType DEF TypeInv, TypeOK, Cmds
<1>4. out \o o.data \in Seq(Nat) /\ <<>> \in Seq(Nat)
  BY <1>2, ConcatProperties DEF TypeInv, TypeOK
<1>5. out' \in Seq(Nat)
  BY <1>1, <1>4, Zenon
<1>6. fetchErr' \in BOOLEAN
  BY <1>1 DEF TypeInv, TypeOK
<1> QED
  BY <1>1, <1>3, <1>5, <1>6
  DEF DataReturns, deviceVars, TypeInv, TypeOK, ChunkLoop, Before, Exchanges,
      Cmds

LEMMA PlainFreeType ==
  ASSUME TypeInv, PlainFreeReturns
  PROVE  TypeInv'
<1>1. WireTypeOK'
  BY ReturnType DEF PlainFreeReturns, TypeInv, TypeOK, Cmds
<1>2. out' \in Seq(Nat)
  <2>0. Len(out) \in Nat /\ size \in Nat
    BY DEF TypeInv, TypeOK
  <2>1. Least(Len(out), size) \in Nat /\ Least(Len(out), size) <= Len(out)
    BY <2>0, LeastType
  <2>2. \A i \in 1 .. Least(Len(out), size) : out[i] \in Nat
    BY <2>1, ElementOfSeq DEF TypeInv, TypeOK
  <2> QED
    BY <2>1, <2>2, SubSeqProperties DEF PlainFreeReturns
<1> QED
  BY <1>1, <1>2 DEF PlainFreeReturns, deviceVars, TypeInv, TypeOK, ChunkLoop,
                    Before, Exchanges, Cmds

LEMMA DisconnectType ==
  ASSUME TypeInv, Disconnect
  PROVE  TypeInv'
<1>1. WireTypeOK'
  BY CloseType DEF Disconnect, TypeInv, TypeOK
<1> QED
  BY <1>1 DEF Disconnect, deviceVars, TypeInv, TypeOK, ChunkLoop, Before

LEMMA TypeInvStep == TypeInv /\ [Next]_vars => TypeInv'
<1> SUFFICES ASSUME TypeInv, [Next]_vars PROVE TypeInv'
  OBVIOUS
<1>1. CASE Server
  BY <1>1, SendType, SmallReturnsType, PrepareBufferType, ReadBufferType,
     AttLogType, DataType, PlainFreeType, DisconnectType DEF Server
<1>2. CASE Device
  BY <1>2, DeviceHandlesType, DeviceFailsType DEF Device
<1>3. CASE UNCHANGED vars
  BY <1>3 DEF vars, wireVars, deviceVars, fetchVars, TypeInv, TypeOK,
              WireTypeOK, ChunkLoop
<1> QED
  BY <1>1, <1>2, <1>3 DEF Next, Finished

\* The variables of a fetch keep their types, whatever the device does.
THEOREM TypeCorrect == Spec => []TypeOK
<1>1. Init => TypeInv
  BY InitType DEF Init, TypeInv, ChunkLoop
<1> QED
  BY <1>1, TypeInvStep, PTL DEF Spec, TypeInv

-----------------------------------------------------------------------------
(* What is under way: InFlightBound is inductive together with the facts   *)
(* that a lost connection carries no request and that the session is       *)
(* closed by the last step only.                                           *)

ClosedLast == conn = "closed" => pc = "done"

FlightIInv == TypeInv /\ FlightInv /\ ClosedLast

LEMMA ServerFlight ==
  ASSUME FlightIInv, Server
  PROVE  FlightInv' /\ ClosedLast'
<1>0. TypeInv /\ WireTypeOK /\ FlightInv /\ ClosedLast
  BY DEF FlightIInv, TypeInv, TypeOK
<1>1. CASE SendCommand
  <2>1. conn # "closed" /\ conn' = conn
    BY <1>0, <1>1 DEF SendCommand, Write, ClosedLast, Exchanges, Cmds
  <2>2. ASSUME pc = "readBuffer" PROVE FlightInv'
    <3>1. "readBuffer" \in Cmds /\ Start \in Nat /\ ChunkLen \in Nat
      BY <1>0, <2>2, ChunkType DEF Cmds
    <3>2. Write("readBuffer", Start, ChunkLen)
      BY <1>1, <2>2 DEF SendCommand
    <3> QED
      BY <1>0, <2>1, <3>1, <3>2, WriteFlight
  <2>3. ASSUME pc # "readBuffer" PROVE FlightInv'
    <3>1. CmdOf(pc) \in Cmds
      BY <1>1, CmdOfType DEF SendCommand
    <3>2. Write(CmdOf(pc), 0, 0)
      BY <1>1, <2>3 DEF SendCommand
    <3> QED
      BY <1>0, <2>1, <3>1, <3>2, WriteFlight
  <2> QED
    BY <1>0, <1>1, <2>1, <2>2, <2>3 DEF ClosedLast, SendCommand, fetchVars
<1>2. ASSUME NEW o \in ReadOutcomes, NEW cmd, Return(o, cmd), pc # "done"
      PROVE  FlightInv' /\ ClosedLast'
  <2>1. conn # "closed" /\ conn' = conn
    BY <1>0, <1>2 DEF Return, ClosedLast
  <2> QED
    BY <1>0, <1>2, <2>1, ReturnFlight DEF ClosedLast
<1>3. CASE Disconnect
  BY <1>0, <1>3, CloseFlight DEF Disconnect, ClosedLast
<1>4. CASE \/ GetDeviceTimeReturns \/ DisableReturns \/ ReadRecordsReturns
           \/ PrepareBufferReturns \/ ReadBufferReturns \/ FreeDataReturns
           \/ AttLogReturns \/ DataReturns \/ PlainFreeReturns
           \/ EnableReturns
  <2>1. pc # "done" /\ \E o \in ReadOutcomes, cmd \in Cmds : Return(o, cmd)
    BY <1>4 DEF GetDeviceTimeReturns, DisableReturns, ReadRecordsReturns,
                PrepareBufferReturns, ReadBufferReturns, FreeDataReturns,
                AttLogReturns, DataReturns, PlainFreeReturns, EnableReturns, Cmds
  <2> QED
    BY <1>2, <2>1
<1> QED
  BY <1>1, <1>3, <1>4 DEF Server

LEMMA DeviceFlight ==
  ASSUME FlightIInv, Device
  PROVE  FlightInv' /\ ClosedLast'
<1>0. TypeInv /\ WireTypeOK /\ FlightInv /\ ClosedLast
  BY DEF FlightIInv, TypeInv, TypeOK
<1>1. CASE DeviceHandles
  <2> DEFINE q == Head(requests)
  <2>1. q \in Requests
    BY <1>0, <1>1, HeadTailProperties DEF WireTypeOK, DeviceHandles
  <2>2. PICK a \in {ProperAnswer(q)} \cup FaultyAnswers(q), cost \in {0, 1} :
          Handle(a, cost)
    BY <1>1 DEF DeviceHandles
  <2>3. a \in Answers
    BY <1>0, <2>1, AnswerType DEF TypeInv
  <2>4. pc' = pc /\ conn' = conn
    BY <1>1, <2>2 DEF DeviceHandles, Handle, fetchVars
  <2> QED
    BY <1>0, <2>2, <2>3, <2>4, HandleFlight DEF ClosedLast
<1>2. CASE DeviceIgnores
  BY <1>0, <1>2, IgnoreFlight DEF DeviceIgnores, Ignore, fetchVars, ClosedLast
<1>3. CASE ConnectionDrops
  BY <1>0, <1>3, DropFlight DEF ConnectionDrops, Drop, fetchVars, ClosedLast
<1> QED
  BY <1>1, <1>2, <1>3 DEF Device

LEMMA FlightStep == FlightIInv /\ [Next]_vars => FlightIInv'
<1> SUFFICES ASSUME FlightIInv, [Next]_vars PROVE FlightIInv'
  OBVIOUS
<1>1. TypeInv'
  BY TypeInvStep DEF FlightIInv
<1>2. CASE Server
  BY <1>1, <1>2, ServerFlight DEF FlightIInv
<1>3. CASE Device
  BY <1>1, <1>3, DeviceFlight DEF FlightIInv
<1>4. CASE UNCHANGED vars
  BY <1>1, <1>4 DEF vars, wireVars, fetchVars, FlightIInv, FlightInv,
                    InFlightBound, InFlight, DropLosesRequests, ClosedLast
<1> QED
  BY <1>2, <1>3, <1>4 DEF Next, Finished

LEMMA FlightInit == Init => FlightIInv
<1> SUFFICES ASSUME Init PROVE FlightIInv
  OBVIOUS
<1>1. TypeInv
  BY InitType DEF Init, TypeInv, ChunkLoop
<1>2. FlightInv
  BY DEF Init, WireInit, FlightInv, InFlightBound, InFlight, DropLosesRequests
<1>3. ClosedLast
  BY DEF Init, WireInit, ClosedLast
<1> QED
  BY <1>1, <1>2, <1>3 DEF FlightIInv

\* However the device behaves, no more frames are under way than exchanges
\* gave up on an answer, besides the current one: this is how far the answers
\* of a session can shift against its commands.
THEOREM FlightBounded == Spec => []InFlightBound
BY FlightInit, FlightStep, PTL DEF Spec, FlightIInv, FlightInv

-----------------------------------------------------------------------------
(* Reply ids (see IdsInv)                                                  *)

IdsIInv == FlightIInv /\ IdsInv

\* The exchanges, by what they have in common: a command written, an outcome
\* returned.
ReturnStep ==
  \/ GetDeviceTimeReturns \/ DisableReturns \/ ReadRecordsReturns
  \/ PrepareBufferReturns \/ ReadBufferReturns \/ FreeDataReturns
  \/ AttLogReturns \/ DataReturns \/ PlainFreeReturns \/ EnableReturns

LEMMA ReturnStepReturns ==
  ASSUME ReturnStep
  PROVE  pc \in Exchanges /\ \E o \in ReadOutcomes : Return(o, CmdOf(pc))
BY DEF ReturnStep, GetDeviceTimeReturns, DisableReturns, ReadRecordsReturns,
       PrepareBufferReturns, ReadBufferReturns, FreeDataReturns,
       AttLogReturns, DataReturns, PlainFreeReturns, EnableReturns, CmdOf, Exchanges

LEMMA IdsStep == IdsIInv /\ [Next]_vars => IdsIInv'
<1> SUFFICES ASSUME IdsIInv, [Next]_vars PROVE IdsInv'
  BY FlightStep DEF IdsIInv
<1>0. WireTypeOK /\ FlightInv /\ IdsInv /\ ClosedLast
  BY DEF IdsIInv, FlightIInv, TypeInv, TypeOK
<1>1. pc # "done" => conn # "closed"
  BY <1>0 DEF ClosedLast
<1>2. CASE SendCommand
  <2>1. conn # "closed" /\ \E cmd, start, n : Write(cmd, start, n)
    BY <1>1, <1>2 DEF SendCommand, Exchanges
  <2> QED
    BY <1>0, <2>1, IdsWrite
<1>3. CASE ReturnStep
  <2>1. conn # "closed"
    BY <1>1, <1>3, ReturnStepReturns DEF Exchanges
  <2> QED
    BY <1>0, <1>3, <2>1, ReturnStepReturns, IdsReturn
<1>4. CASE Disconnect
  BY <1>0, <1>4, IdsClose DEF Disconnect
<1>5. CASE DeviceHandles \/ DeviceIgnores
  <2>1. Ignore \/ \E a, cost : Handle(a, cost)
    BY <1>5 DEF DeviceHandles, DeviceIgnores
  <2> QED
    BY <1>0, <2>1, IdsHandle, IdsIgnore, IdsClosed
<1>6. CASE ConnectionDrops
  BY <1>0, <1>6, IdsDrop DEF ConnectionDrops
<1>7. CASE UNCHANGED vars
  BY <1>0, <1>7 DEF vars, wireVars, IdsInv, IdContinues
<1> QED
  BY <1>2, <1>3, <1>4, <1>5, <1>6, <1>7
  DEF Next, Server, ReturnStep, Device, Finished

\* Until an answer is late, the ids that the session derives from the answers
\* are those the device expects, at the wrap as anywhere.
THEOREM IdsKept == Spec => []ReplyIdsInStep
<1>1. Init => IdsIInv
  BY FlightInit, IdsStart DEF Init, IdsIInv
<1>2. IdsIInv => ReplyIdsInStep
  BY DEF IdsIInv, IdsInv, ReplyIdsInStep
<1> QED
  BY <1>1, <1>2, IdsStep, PTL DEF Spec

-----------------------------------------------------------------------------
(* The record count: up to readRecords only three commands have been        *)
(* written, and the answers of the other two are at most one unit long.     *)

EarlyCmds == {"getTime", "disable", "freeSizes"}

EarlyRequests == {q \in Requests : q.cmd \in EarlyCmds}
EarlyReplies ==
  {f \in Replies : /\ f.ans \in EarlyCmds \cup {"fragment"}
                   /\ f.ans \in {"getTime", "disable"} => Len(f.data) <= 1}

EarlyFrames ==
  pc \in EarlyCmds =>
    requests \in Seq(EarlyRequests) /\ replies \in Seq(EarlyReplies)

CountIInv == TypeInv /\ EarlyFrames /\ CountNeverJunk

LEMMA EarlyClosed ==
  /\ StaleClosed(EarlyRequests)
  /\ StaleClosed(EarlyReplies)
  /\ ReadClosed(EarlyReplies)
<1>1. StaleClosed(EarlyRequests)
  BY DEF StaleClosed, EarlyRequests, Requests
<1>2. StaleClosed(EarlyReplies)
  BY DEF StaleClosed, EarlyReplies, Replies
<1>3. ASSUME NEW f \in EarlyReplies
      PROVE  Fragment(f) \in EarlyReplies
  <2>1. Fragment(f) \in Replies
    BY FragmentType DEF EarlyReplies
  <2> QED
    BY <2>1 DEF EarlyReplies, Fragment
<1>4. ASSUME NEW f \in EarlyReplies, IsFragment(f)
      PROVE  Shorter(f) \in EarlyReplies
  <2>1. f \in Replies /\ f.data \in Seq(Nat)
    BY DEF EarlyReplies, Replies
  <2>2. SubSeq(f.data, 5, Len(f.data)) \in Seq(Nat)
    <3>1. \A i \in 5 .. Len(f.data) : f.data[i] \in Nat
      BY <2>1, ElementOfSeq
    <3> QED
      BY <2>1, <3>1, SubSeqProperties
  <2>3. Shorter(f) \in Replies /\ Shorter(f).ans = "fragment"
    BY <1>4, <2>1, <2>2 DEF Shorter, Replies, IsFragment
  <2> QED
    BY <2>3 DEF EarlyReplies
<1> QED
  BY <1>1, <1>2, <1>3, <1>4 DEF ReadClosed

\* What a device answers to one of the three commands.
LEMMA EarlyAnswer ==
  ASSUME TypeOK, NEW q \in EarlyRequests, q.cmd # "freeSizes",
         NEW a \in {ProperAnswer(q)} \cup FaultyAnswers(q)
  PROVE  Len(a.data) <= 1
<1> DEFINE p == ProperAnswer(q)
<1>1. p.data \in {<<>>, <<0>>}
  BY DEF EarlyRequests, EarlyCmds, ProperAnswer, Answer
<1>2. CASE a = p
  <2>1. Len(<<>>) = 0 /\ Len(<<0>>) = 1
    OBVIOUS
  <2>2. a.data = <<>> \/ a.data = <<0>>
    BY <1>1, <1>2, Zenon
  <2>3. CASE a.data = <<>>
    BY <2>1, <2>3
  <2>4. CASE a.data = <<0>>
    BY <2>1, <2>4
  <2> QED
    BY <2>2, <2>3, <2>4
<1>3. CASE a = Answer("ERROR", <<>>, 0)
  BY <1>3 DEF Answer
<1>4. CASE p.data # <<>> /\ a = [p EXCEPT !.data = Front(p.data)]
  <2>1. p \in Answers
    BY AnswerType DEF EarlyRequests
  <2>2. a.data = Front(<<0>>)
    BY <1>1, <1>4, <2>1 DEF Answers
  <2>3. Front(<<0>>) = <<>>
    BY SubSeqEmpty DEF Front
  <2> QED
    BY <2>2, <2>3
<1> QED
  BY <1>2, <1>3, <1>4 DEF FaultyAnswers

LEMMA CountSend ==
  ASSUME CountIInv, SendCommand
  PROVE  EarlyFrames' /\ CountNeverJunk'
<1>1. pc' = pc /\ count' = count
  BY DEF SendCommand, fetchVars
<1>2. ASSUME pc \in EarlyCmds PROVE EarlyFrames'
  <2>1. requests \in Seq(EarlyRequests) /\ replies \in Seq(EarlyReplies)
    BY <1>2 DEF CountIInv, EarlyFrames
  <2>2. Superseded(requests) \in Seq(EarlyRequests)
    BY <2>1, EarlyClosed, SupersededIn
  <2>3. Superseded(replies) \in Seq(EarlyReplies)
    BY <2>1, EarlyClosed, SupersededIn
  <2> DEFINE q == [cmd |-> pc, start |-> 0, n |-> 0,
                   id |-> NextReplyId(replyID), fresh |-> TRUE]
  <2>4. Write(pc, 0, 0)
    BY <1>2 DEF SendCommand, CmdOf, EarlyCmds
  <2>5. NextReplyId(replyID) \in ReplyIds
    BY NextReplyIdType DEF CountIInv, TypeInv, TypeOK, WireTypeOK
  <2>6. q \in EarlyRequests
    BY <1>2, <2>5 DEF EarlyRequests, EarlyCmds, Requests, Cmds
  <2>7. Append(Superseded(requests), q) \in Seq(EarlyRequests)
    BY <2>2, <2>6, AppendProperties
  <2>8. requests' \in Seq(EarlyRequests) /\ replies' \in Seq(EarlyReplies)
    BY <2>1, <2>3, <2>4, <2>7 DEF Write
  <2> QED
    BY <2>8 DEF EarlyFrames
<1> QED
  BY <1>1, <1>2 DEF CountIInv, EarlyFrames, CountNeverJunk

LEMMA CountHandles ==
  ASSUME CountIInv, DeviceHandles
  PROVE  EarlyFrames' /\ CountNeverJunk'
<1>1. pc' = pc /\ count' = count
  BY DEF DeviceHandles, fetchVars
<1>2. ASSUME pc \in EarlyCmds PROVE EarlyFrames'
  <2> DEFINE q == Head(requests)
  <2>1. /\ requests \in Seq(EarlyRequests) /\ requests # <<>>
        /\ replies \in Seq(EarlyReplies)
    BY <1>2 DEF CountIInv, EarlyFrames, DeviceHandles
  <2>2. q \in EarlyRequests /\ Tail(requests) \in Seq(EarlyRequests)
    BY <2>1, HeadTailProperties
  <2>3. PICK a \in {ProperAnswer(q)} \cup FaultyAnswers(q), cost \in {0, 1} :
          Handle(a, cost)
    BY DEF DeviceHandles
  <2>4. TypeOK /\ q \in Requests /\ q.cmd \in EarlyCmds
    BY <2>2 DEF CountIInv, TypeInv, EarlyRequests
  <2>5. a \in Answers
    BY <2>4, AnswerType
  <2>6. q.cmd # "freeSizes" => Len(a.data) <= 1
    BY <2>2, <2>4, EarlyAnswer
  <2> DEFINE f == [ans |-> q.cmd, code |-> a.code, data |-> a.data,
                   size |-> a.size, id |-> q.id, fresh |-> q.fresh]
  <2>7. f \in Replies
    BY <2>4, <2>5 DEF Answers, Requests, Replies
  <2>8. f \in EarlyReplies
    BY <2>4, <2>6, <2>7 DEF EarlyReplies, EarlyCmds
  <2>9. Append(replies, f) \in Seq(EarlyReplies)
    BY <2>1, <2>8, AppendProperties
  <2>10. requests' \in Seq(EarlyRequests) /\ replies' \in Seq(EarlyReplies)
    BY <2>1, <2>2, <2>3, <2>9 DEF Handle
  <2> QED
    BY <2>10 DEF EarlyFrames
<1> QED
  BY <1>1, <1>2 DEF CountIInv, EarlyFrames, CountNeverJunk

LEMMA CountDeviceFails ==
  ASSUME CountIInv, DeviceIgnores \/ ConnectionDrops
  PROVE  EarlyFrames' /\ CountNeverJunk'
<1>1. pc' = pc /\ count' = count /\ replies' = replies
  BY DEF DeviceIgnores, ConnectionDrops, Ignore, Drop, fetchVars
<1>2. ASSUME pc \in EarlyCmds PROVE requests' \in Seq(EarlyRequests)
  <2>1. requests \in Seq(EarlyRequests)
    BY <1>2 DEF CountIInv, EarlyFrames
  <2>2. CASE DeviceIgnores
    BY <2>1, <2>2, HeadTailProperties DEF DeviceIgnores, Ignore
  <2>3. CASE ConnectionDrops
    <3>1. <<>> \in Seq(EarlyRequests)
      OBVIOUS
    <3> QED
      BY <2>3, <3>1, Zenon DEF ConnectionDrops, Drop
  <2> QED
    BY <2>2, <2>3
<1> QED
  BY <1>1, <1>2 DEF CountIInv, EarlyFrames, CountNeverJunk

\* The outcomes of the first three exchanges.
LEMMA EarlyOutcome ==
  ASSUME CountIInv, pc \in EarlyCmds, NEW o \in ReadOutcomes
  PROVE  /\ o.rest \in Seq(EarlyReplies)
         /\ o.ok => /\ o.ans \in EarlyCmds
                    /\ o.ans # "freeSizes" => Len(o.data) <= 1
<1>1. replies \in Seq(EarlyReplies)
  BY DEF CountIInv, EarlyFrames
<1>2. o.rest \in Seq(EarlyReplies)
  BY <1>1, EarlyClosed, OutcomeIn
<1>3. o.ok => \E f \in EarlyReplies : /\ ~IsFragment(f)
                                      /\ o.ans = f.ans /\ o.data = f.data
  BY <1>1, EarlyClosed, OutcomeIn
<1> QED
  BY <1>2, <1>3 DEF EarlyReplies, IsFragment, EarlyCmds

LEMMA CountReturns ==
  ASSUME CountIInv,
         GetDeviceTimeReturns \/ DisableReturns \/ ReadRecordsReturns
  PROVE  EarlyFrames' /\ CountNeverJunk'
<1>1. CASE GetDeviceTimeReturns \/ DisableReturns
  <2>1. pc \in EarlyCmds /\ count' = count
    BY <1>1 DEF GetDeviceTimeReturns, DisableReturns, EarlyCmds
  <2>2. PICK o \in ReadOutcomes, cmd \in Cmds : Return(o, cmd)
    BY <1>1 DEF GetDeviceTimeReturns, DisableReturns, Cmds
  <2>3. requests' \in Seq(EarlyRequests) /\ replies' \in Seq(EarlyReplies)
    BY <2>1, <2>2, EarlyOutcome DEF CountIInv, EarlyFrames, Return
  <2> QED
    BY <2>1, <2>3 DEF CountIInv, EarlyFrames, CountNeverJunk
<1>2. CASE ReadRecordsReturns
  <2>1. PICK o \in ReadOutcomes :
          count' = IF ~SizesAccepted(o) THEN "unknown"
                   ELSE IF o.ans = "freeSizes" /\ ~CountNegative(o) THEN "device"
                   ELSE "junk"
    BY <1>2 DEF ReadRecordsReturns
  <2>2. pc = "freeSizes" /\ pc' = "prepareBuffer"
    BY <1>2 DEF ReadRecordsReturns
  <2>3. o.ok /\ o.ans # "freeSizes" => Len(o.data) <= 1
    BY <2>2, EarlyOutcome DEF EarlyCmds
  <2>4. Len(o.data) \in Nat
    BY ReadOutcomesType DEF Outcomes, CountIInv, TypeInv, TypeOK
  <2>5. SizesAccepted(o) => o.ans = "freeSizes" /\ ~CountNegative(o)
    BY <2>3, <2>4, FetchAssumption DEF SizesAccepted, Accepted
  <2> QED
    BY <2>1, <2>2, <2>5 DEF EarlyFrames, EarlyCmds, CountNeverJunk
<1> QED
  BY <1>1, <1>2

LEMMA CountStep == CountIInv /\ [Next]_vars => CountIInv'
<1> SUFFICES ASSUME CountIInv, [Next]_vars PROVE CountIInv'
  OBVIOUS
<1>1. TypeInv'
  BY TypeInvStep DEF CountIInv
<1>2. CASE Device
  BY <1>1, <1>2, CountHandles, CountDeviceFails DEF Device, CountIInv
<1>3. CASE SendCommand
  BY <1>1, <1>3, CountSend DEF CountIInv
<1>4. CASE GetDeviceTimeReturns \/ DisableReturns \/ ReadRecordsReturns
  BY <1>1, <1>4, CountReturns DEF CountIInv
<1>5. CASE \/ PrepareBufferReturns \/ ReadBufferReturns \/ FreeDataReturns
           \/ AttLogReturns \/ DataReturns \/ PlainFreeReturns
           \/ EnableReturns \/ Disconnect
  <2>1. pc' \notin EarlyCmds /\ count' = count
    BY <1>5 DEF PrepareBufferReturns, ReadBufferReturns, FreeDataReturns,
                AttLogReturns, DataReturns, PlainFreeReturns, EnableReturns,
                Disconnect, EarlyCmds
  <2> QED
    BY <1>1, <2>1 DEF CountIInv, EarlyFrames, CountNeverJunk
<1>6. CASE UNCHANGED vars
  BY <1>1, <1>6 DEF vars, wireVars, fetchVars, CountIInv, EarlyFrames,
                    CountNeverJunk
<1> QED
  BY <1>2, <1>3, <1>4, <1>5, <1>6 DEF Next, Server, Finished

\* Whatever is late, lost or refused, the number that the grid detection takes
\* for the device's record count is the device's answer to that question.
THEOREM CountHonest == Spec => []CountNeverJunk
<1>1. Init => CountIInv
  <2> SUFFICES ASSUME Init PROVE CountIInv
    OBVIOUS
  <2>1. TypeInv
    BY InitType DEF Init, TypeInv, ChunkLoop
  <2>2. requests \in Seq(EarlyRequests) /\ replies \in Seq(EarlyReplies)
    BY DEF Init, WireInit
  <2> QED
    BY <2>1, <2>2 DEF Init, CountIInv, EarlyFrames, CountNeverJunk
<1> QED
  BY <1>1, CountStep, PTL DEF Spec, CountIInv

-----------------------------------------------------------------------------
(* The payload.  While no answer has been late, the frame under way is the *)
(* command of the present exchange or its answer, and what an answer       *)
(* carries of the log continues what has been collected.                   *)

\* s is the part of the log behind its first units.
PartAfter(from, s) ==
  from + Len(s) <= stored /\ \A i \in 1 .. Len(s) : s[i] = from + i

Behind == IF pc \in {"readBuffer", "data"} THEN Len(out) ELSE 0

Asks(q) == q.cmd = CmdOf(pc) /\ (pc = "readBuffer" => q.start = Len(out))

Carries(f) ==
  /\ \/ pc \in {"readBuffer", "attLog", "data"}
     \/ pc = "prepareBuffer" /\ f.code = "DATA"
     => PartAfter(Behind, f.data)
  /\ pc \in {"attLog", "data"} /\ firmware = "plain" =>
       cursor = Behind + Len(f.data)

Collecting ==
  late = 0 =>
    /\ PartAfter(0, out)
    /\ pc \in Exchanges /\ requests # <<>> => Asks(Head(requests))
    /\ pc \in Exchanges /\ replies # <<>> => Carries(Head(replies))
    /\ pc = "data" /\ firmware = "plain" /\ replies = <<>> => cursor = Len(out)

PayloadIInv == FlightIInv /\ Collecting

LEMMA Slice ==
  ASSUME NEW s \in Seq(Nat), NEW m \in Nat, NEW k \in Nat, m + k <= Len(s)
  PROVE  /\ Len(SubSeq(s, m + 1, m + k)) = k
         /\ \A i \in 1 .. k : SubSeq(s, m + 1, m + k)[i] = s[m + i]
<1>1. \A i \in m + 1 .. m + k : s[i] \in Nat
  BY ElementOfSeq
<1>2. /\ Len(SubSeq(s, m + 1, m + k)) =
           IF m + 1 <= m + k THEN m + k - (m + 1) + 1 ELSE 0
      /\ \A i \in 1 .. m + k - (m + 1) + 1 :
           SubSeq(s, m + 1, m + k)[i] = s[m + 1 + i - 1]
  BY <1>1, SubSeqProperties
<1>3. /\ m + k - (m + 1) + 1 = k
      /\ \A i \in 1 .. k : m + 1 + i - 1 = m + i
      /\ m + 1 <= m + k <=> k # 0
  OBVIOUS
<1> QED
  BY <1>2, <1>3

LEMMA PartOfPiece ==
  ASSUME stored \in Nat, NEW from \in Nat, from <= stored, NEW n \in Nat
  PROVE  PartAfter(from, Piece(from, n))
<1> DEFINE k == Least(from + n, stored) - from
<1>1. k \in Nat /\ from + k = Least(from + n, stored) /\ from + k <= stored
  BY DEF Least
<1>2. Log \in Seq(Nat) /\ Len(Log) = stored
  BY DEF Log
<1>3. \A i \in 1 .. k : from + i \in 1 .. stored /\ Log[from + i] = from + i
  BY <1>1 DEF Log
<1>4. Piece(from, n) = SubSeq(Log, from + 1, from + k)
  BY <1>1 DEF Piece
<1> HIDE DEF k
<1>5. from + k <= Len(Log)
  BY <1>1, <1>2
<1>6. /\ Len(SubSeq(Log, from + 1, from + k)) = k
      /\ \A i \in 1 .. k : SubSeq(Log, from + 1, from + k)[i] = Log[from + i]
  BY ONLY <1>1, <1>2, <1>5, from \in Nat, Slice
<1> QED
  BY <1>1, <1>3, <1>4, <1>6 DEF PartAfter

LEMMA PartOfFront ==
  ASSUME stored \in Nat, NEW from \in Nat, NEW s \in Seq(Nat), s # <<>>,
         PartAfter(from, s)
  PROVE  PartAfter(from, Front(s))
<1> DEFINE k == Len(s) - 1
<1>1. Len(s) \in Nat /\ k \in Nat /\ 0 + k <= Len(s) /\ Len(s) = k + 1
  BY EmptySeq
<1>2. Front(s) = SubSeq(s, 0 + 1, 0 + k)
  BY <1>1 DEF Front
<1> HIDE DEF k
<1>3. /\ Len(SubSeq(s, 0 + 1, 0 + k)) = k
      /\ \A i \in 1 .. k : SubSeq(s, 0 + 1, 0 + k)[i] = s[0 + i]
  BY <1>1, Slice
<1> QED
  BY <1>1, <1>2, <1>3 DEF PartAfter

LEMMA PartsJoin ==
  ASSUME stored \in Nat, NEW s \in Seq(Nat), NEW t \in Seq(Nat),
         PartAfter(0, s), PartAfter(Len(s), t)
  PROVE  PartAfter(0, s \o t)
<1>1. /\ Len(s) \in Nat /\ Len(t) \in Nat
      /\ Len(s \o t) = Len(s) + Len(t)
      /\ \A i \in 1 .. Len(s) + Len(t) :
           (s \o t)[i] = IF i <= Len(s) THEN s[i] ELSE t[i - Len(s)]
  BY ConcatProperties
<1>2. ASSUME NEW i \in 1 .. Len(s) + Len(t) PROVE (s \o t)[i] = 0 + i
  <2>1. CASE i <= Len(s)
    BY <1>1, <2>1 DEF PartAfter
  <2>2. CASE i > Len(s)
    <3>1. i - Len(s) \in 1 .. Len(t)
      BY <1>1, <2>2
    <3>2. t[i - Len(s)] = Len(s) + (i - Len(s))
      BY <3>1 DEF PartAfter
    <3> QED
      BY <1>1, <2>2, <3>2
  <2> QED
    BY <1>1, <2>1, <2>2
<1> QED
  BY <1>1, <1>2 DEF PartAfter

LEMMA EmptyPart ==
  ASSUME stored \in Nat, NEW from \in Nat, from <= stored
  PROVE  PartAfter(from, <<>>)
BY DEF PartAfter

LEMMA PartCut ==
  ASSUME stored \in Nat, NEW s \in Seq(Nat), PartAfter(0, s), NEW n \in Nat
  PROVE  PartAfter(0, SubSeq(s, 1, Least(Len(s), n)))
<1> DEFINE k == Least(Len(s), n)
<1>1. k \in Nat /\ k <= Len(s) /\ Len(s) \in Nat
  <2>1. Len(s) \in Nat
    OBVIOUS
  <2> QED
    BY <2>1, LeastType
<1> HIDE DEF k
<1>2. SubSeq(s, 1, k) = SubSeq(s, 0 + 1, 0 + k)
  BY <1>1
<1>3. /\ Len(SubSeq(s, 1, k)) = k
      /\ \A i \in 1 .. k : SubSeq(s, 1, k)[i] = s[0 + i]
  BY <1>1, <1>2, Slice
<1> QED
  BY <1>1, <1>3 DEF PartAfter, k

\* Whatever the device answers, and be it a cut answer, continues the log.
LEMMA AnswerParts ==
  ASSUME TypeOK, PartAfter(0, out), NEW q \in Requests, Asks(q),
         pc \in PayloadCmds,
         pc = "data" /\ firmware = "plain" => cursor = Len(out),
         NEW a \in {ProperAnswer(q)} \cup FaultyAnswers(q),
         pc = "prepareBuffer" => a.code = "DATA"
  PROVE  PartAfter(Behind, a.data)
<1> DEFINE p == ProperAnswer(q)
<1>1. /\ stored \in Nat /\ Len(out) \in Nat /\ Len(out) <= stored
      /\ Behind \in Nat /\ Behind <= stored
      /\ q.start \in Nat /\ q.n \in Nat /\ PlainChunk \in Nat /\ cursor \in Nat
  BY FetchAssumption DEF TypeOK, PartAfter, Behind, Requests
<1>2. q.cmd = pc /\ (pc = "readBuffer" => q.start = Len(out))
  BY DEF Asks, CmdOf, PayloadCmds
<1>3. PartAfter(Behind, <<>>)
  BY <1>1, EmptyPart
<1>4. ASSUME pc = "prepareBuffer" => p.code = "DATA"
      PROVE  PartAfter(Behind, p.data)
  <2>1. CASE pc = "prepareBuffer"
    <3>1. p.data = Log /\ Behind = 0
      BY <1>2, <1>4, <2>1 DEF ProperAnswer, Answer, Behind
    <3>2. PartAfter(0, Log)
      BY <1>1 DEF PartAfter, Log
    <3> QED
      BY <3>1, <3>2
  <2>2. CASE pc = "readBuffer"
    <3>1. p.data = Piece(Len(out), q.n) /\ Behind = Len(out)
      BY <1>2, <2>2 DEF ProperAnswer, Answer, Behind
    <3> QED
      BY <1>1, <3>1, PartOfPiece
  <2>3. CASE pc = "attLog"
    <3>1. (p.data = Piece(0, PlainChunk) \/ p.data = <<>>) /\ Behind = 0
      BY <1>2, <2>3 DEF ProperAnswer, Answer, Behind
    <3> QED
      BY <1>1, <1>3, <3>1, PartOfPiece
  <2>4. CASE pc = "data"
    <3>1. (p.data = Piece(Len(out), PlainChunk) \/ p.data = <<>>) /\ Behind = Len(out)
      BY <1>2, <2>4 DEF ProperAnswer, Answer, Behind
    <3> QED
      BY <1>1, <1>3, <3>1, PartOfPiece
  <2> QED
    BY <2>1, <2>2, <2>3, <2>4 DEF PayloadCmds
<1>5. CASE a = p
  BY <1>4, <1>5
<1>6. CASE a = Answer("ERROR", <<>>, 0)
  BY <1>3, <1>6 DEF Answer
<1>7. CASE p.data # <<>> /\ a = [p EXCEPT !.data = Front(p.data)]
  <2>1. p \in Answers
    BY AnswerType
  <2>2. p.data \in Seq(Nat) /\ a.data = Front(p.data) /\ a.code = p.code
    BY <1>7, <2>1 DEF Answers
  <2>3. PartAfter(Behind, p.data)
    BY <1>4, <2>2
  <2> QED
    BY <1>1, <1>7, <2>2, <2>3, PartOfFront
<1>8. q.cmd # "freeSizes"
  BY <1>2 DEF PayloadCmds
<1> QED
  BY <1>5, <1>6, <1>7, <1>8 DEF FaultyAnswers

LEMMA CollectSend ==
  ASSUME PayloadIInv, SendCommand
  PROVE  Collecting'
<1> SUFFICES ASSUME late = 0 PROVE Collecting'
  BY DEF SendCommand, Write, Collecting
<1>1. /\ WireTypeOK /\ InFlightBound /\ Collecting /\ pc \in Exchanges
      /\ ~waiting /\ conn # "closed"
  BY DEF PayloadIInv, FlightIInv, TypeInv, TypeOK, FlightInv, SendCommand,
         Write, ClosedLast, Exchanges
<1>2. requests = <<>> /\ replies = <<>>
  BY <1>1, AloneUnderWay
<1>3. UNCHANGED <<deviceVars, fetchVars>>
  BY DEF SendCommand
<1>4. replies' = <<>> /\ (requests' # <<>> => Asks(Head(requests')))
  <2>1. CASE pc = "readBuffer"
    <3>1. Write("readBuffer", Start, ChunkLen)
      BY <2>1 DEF SendCommand
    <3> QED
      BY <1>2, <2>1, <3>1, FirstWrite DEF Asks, CmdOf, Start
  <2>2. CASE pc # "readBuffer"
    <3>1. Write(CmdOf(pc), 0, 0)
      BY <2>2 DEF SendCommand
    <3> QED
      BY <1>2, <2>2, <3>1, FirstWrite DEF Asks
  <2> QED
    BY <2>1, <2>2
<1> QED
  BY <1>1, <1>2, <1>3, <1>4
  DEF Collecting, deviceVars, fetchVars, PartAfter, Asks, CmdOf

LEMMA CollectHandles ==
  ASSUME PayloadIInv, DeviceHandles
  PROVE  Collecting'
<1> DEFINE q == Head(requests)
<1>0. /\ TypeOK /\ WireTypeOK /\ InFlightBound /\ Collecting /\ ClosedLast
      /\ q \in Requests /\ requests # <<>> /\ conn # "broken"
  BY HeadTailProperties DEF PayloadIInv, FlightIInv, TypeInv, TypeOK, FlightInv,
                            WireTypeOK, DeviceHandles, Handle
<1>1. PICK a \in {ProperAnswer(q)} \cup FaultyAnswers(q), cost \in {0, 1} :
        /\ Handle(a, cost)
        /\ cursor' = IF firmware = "plain" /\ q.cmd = "attLog" THEN Len(a.data)
                     ELSE IF firmware = "plain" /\ q.cmd = "data"
                       THEN cursor + Len(a.data)
                     ELSE cursor
  BY DEF DeviceHandles
<1>2. UNCHANGED <<late, firmware, stored, fetchVars>>
  BY <1>1 DEF DeviceHandles, Handle
<1> SUFFICES ASSUME late = 0 PROVE Collecting'
  BY <1>2 DEF Collecting
<1>3. PartAfter(0, out)'
  BY <1>0, <1>2 DEF Collecting, PartAfter, fetchVars
<1>4. CASE pc \notin Exchanges
  BY <1>2, <1>3, <1>4 DEF Collecting, fetchVars, Exchanges
<1>5. CASE pc \in Exchanges
  <2>1. conn = "up"
    BY <1>0, <1>5 DEF ClosedLast, WireTypeOK, Exchanges
  <2>2. Tail(requests) = <<>> /\ replies = <<>> /\ Asks(q)
    BY <1>0, <1>5, <2>1, AloneUnderWay DEF Collecting
  <2>3. /\ requests' = <<>> /\ replies' # <<>>
        /\ Head(replies').data = a.data /\ Head(replies').code = a.code
    BY <1>0, <1>1, <2>1, <2>2, FirstReply
  <2>4. pc = "data" /\ firmware = "plain" => cursor = Len(out)
    BY <1>0, <2>2 DEF Collecting
  <2>5. ASSUME \/ pc \in {"readBuffer", "attLog", "data"}
               \/ pc = "prepareBuffer" /\ a.code = "DATA"
        PROVE  PartAfter(Behind, a.data)
    <3>1. PartAfter(0, out)
      BY <1>0 DEF Collecting
    <3> QED
      BY <1>0, <2>2, <2>4, <2>5, <3>1, AnswerParts DEF PayloadCmds
  <2>6. pc \in {"attLog", "data"} /\ firmware = "plain" =>
          cursor' = Behind + Len(a.data)
    <3>1. Len(a.data) \in Nat
      BY <1>0, AnswerType DEF Answers
    <3>2. pc \in {"attLog", "data"} => q.cmd = pc
      BY <2>2 DEF Asks, CmdOf
    <3>3. CASE pc = "attLog"
      BY <1>1, <3>1, <3>2, <3>3 DEF Behind
    <3>4. CASE pc = "data"
      BY <1>1, <2>4, <3>1, <3>2, <3>4 DEF Behind
    <3> QED
      BY <3>3, <3>4
  <2>7. Carries(Head(replies))'
    BY <1>2, <2>3, <2>5, <2>6 DEF Carries, Behind, PartAfter, fetchVars
  <2> QED
    BY <1>3, <2>3, <2>7 DEF Collecting
<1> QED
  BY <1>4, <1>5

LEMMA CollectDeviceFails ==
  ASSUME PayloadIInv, DeviceIgnores \/ ConnectionDrops
  PROVE  Collecting'
<1>0. /\ WireTypeOK /\ InFlightBound /\ Collecting /\ ClosedLast
      /\ UNCHANGED <<late, deviceVars, fetchVars, replies>>
  BY DEF PayloadIInv, FlightIInv, TypeInv, TypeOK, FlightInv, DeviceIgnores,
         ConnectionDrops, Ignore, Drop
<1> SUFFICES ASSUME late = 0 PROVE Collecting'
  BY <1>0 DEF Collecting
<1>1. pc \in Exchanges => requests' = <<>>
  <2>1. CASE DeviceIgnores
    <3>1. requests # <<>> /\ requests' = Tail(requests)
      BY <2>1 DEF DeviceIgnores, Ignore
    <3>2. pc \in Exchanges => conn # "closed"
      BY <1>0 DEF ClosedLast, Exchanges
    <3> QED
      BY <1>0, <3>1, <3>2, AloneUnderWay
  <2>2. CASE ConnectionDrops
    BY <2>2 DEF ConnectionDrops, Drop
  <2> QED
    BY <2>1, <2>2
<1> QED
  BY <1>0, <1>1 DEF Collecting, deviceVars, fetchVars, PartAfter, Carries, Behind

\* What an exchange leaves: as long as nothing is late the connection is idle
\* again, and a success returned the one answer.
LEMMA FetchReturned ==
  ASSUME FlightIInv, pc \in Exchanges,
         NEW o \in ReadOutcomes, NEW cmd, Return(o, cmd)
  PROVE  /\ late' = 0 => late = 0 /\ requests' = <<>> /\ replies' = <<>>
         /\ o \in Outcomes /\ o.data \in Seq(Nat)
         /\ o.ok => /\ replies # <<>>
                    /\ o.ans = Head(replies).ans /\ o.code = Head(replies).code
                    /\ o.data = Head(replies).data /\ o.size = Head(replies).size
<1>1. /\ WireTypeOK /\ FlightInv /\ conn # "closed"
  BY DEF FlightIInv, TypeInv, TypeOK, ClosedLast, Exchanges
<1>2. o \in Outcomes /\ late \in Nat /\ late' = late + o.late /\ o.late \in {0, 1}
  BY <1>1, ReadOutcomesType DEF Outcomes, WireTypeOK, Return
<1>3. ASSUME late' = 0
      PROVE  late = 0 /\ requests = <<>> /\ o.rest = <<>>
  <2>1. late = 0 /\ o.late = 0
    BY <1>2, <1>3
  <2>2. InFlight <= late + 1
    BY <1>1 DEF Return, FlightInv, InFlightBound
  <2>3. Len(requests) + Len(o.rest) <= 0
    BY <1>1, <2>1, <2>2, OutcomeFlight DEF FlightInv
  <2>4. /\ requests \in Seq(Requests) /\ o.rest \in Seq(Replies)
    BY <1>1, <1>2 DEF WireTypeOK, Outcomes
  <2>5. Len(requests) \in Nat /\ Len(o.rest) \in Nat
    BY <2>4
  <2>6. Len(requests) = 0 /\ Len(o.rest) = 0
    BY <2>3, <2>5
  <2> QED
    BY <2>1, <2>4, <2>6, EmptySeq
<1> QED
  BY <1>2, <1>3, OkOutcome DEF Return, Outcomes

LEMMA CollectReturns ==
  ASSUME PayloadIInv, ReturnStep
  PROVE  Collecting'
<1>0. /\ FlightIInv /\ TypeOK /\ Collecting /\ UNCHANGED deviceVars
      /\ pc \in Exchanges /\ stored \in Nat /\ out \in Seq(Nat) /\ size \in Nat
  BY ReturnStepReturns
  DEF PayloadIInv, FlightIInv, TypeInv, TypeOK, ReturnStep, GetDeviceTimeReturns,
      DisableReturns, ReadRecordsReturns, PrepareBufferReturns, ReadBufferReturns,
      FreeDataReturns, AttLogReturns, DataReturns, PlainFreeReturns, EnableReturns
<1> SUFFICES ASSUME late' = 0 PROVE Collecting'
  BY DEF Collecting
<1>1. late = 0 /\ requests' = <<>> /\ replies' = <<>>
  BY <1>0, ReturnStepReturns, FetchReturned
<1>2. /\ PartAfter(0, out) /\ PartAfter(0, <<>>)
      /\ replies # <<>> => Carries(Head(replies))
  BY <1>0, <1>1, EmptyPart DEF Collecting
<1>3. ASSUME PartAfter(0, out'), pc' = "data" /\ firmware = "plain" => cursor = Len(out')
      PROVE  Collecting'
  BY <1>0, <1>1, <1>3 DEF Collecting, PartAfter, deviceVars
<1>4. CASE UNCHANGED out /\ pc' # "data"
  BY <1>2, <1>3, <1>4
<1>5. CASE PrepareBufferReturns
  <2>1. PICK o \in ReadOutcomes :
          /\ Return(o, "prepareBuffer")
          /\ (Accepted(o, {"DATA"}, 0) /\ out' = o.data) \/ UNCHANGED out
    BY <1>5 DEF PrepareBufferReturns
  <2>2. pc = "prepareBuffer" /\ pc' # "data"
    BY <1>5 DEF PrepareBufferReturns
  <2>3. Accepted(o, {"DATA"}, 0) => PartAfter(0, o.data)
    BY <1>0, <1>2, <2>1, <2>2, FetchReturned DEF Accepted, Carries, Behind
  <2> QED
    BY <1>2, <1>3, <2>1, <2>2, <2>3
<1>6. CASE ReadBufferReturns
  <2>1. PICK o \in ReadOutcomes :
          /\ Return(o, "readBuffer")
          /\ (o.ok /\ out' = out \o o.data) \/ out' = <<>>
    BY <1>6 DEF ReadBufferReturns, Accepted
  <2>2. pc = "readBuffer" /\ pc' # "data"
    BY <1>6 DEF ReadBufferReturns
  <2>3. o.data \in Seq(Nat) /\ (o.ok => PartAfter(Len(out), o.data))
    BY <1>0, <1>2, <2>1, <2>2, FetchReturned DEF Carries, Behind
  <2>4. o.ok => PartAfter(0, out \o o.data)
    BY <1>0, <1>2, <2>3, PartsJoin
  <2> QED
    BY <1>2, <1>3, <2>1, <2>2, <2>4
<1>7. CASE AttLogReturns
  <2>1. PICK o \in ReadOutcomes :
          /\ Return(o, "attLog")
          /\ (Accepted(o, {"PREPARE", "OK"}, 1) /\ out' = o.data)
               \/ (UNCHANGED out /\ pc' # "data")
    BY <1>7 DEF AttLogReturns
  <2>2. pc = "attLog"
    BY <1>7 DEF AttLogReturns
  <2>3. Accepted(o, {"PREPARE", "OK"}, 1) =>
          PartAfter(0, o.data) /\ (firmware = "plain" => cursor = Len(o.data))
    <3>1. o.data \in Seq(Nat) /\ Len(o.data) \in Nat
      BY <1>0, <2>1, FetchReturned
    <3> QED
      BY <1>0, <1>2, <2>1, <2>2, <3>1, FetchReturned DEF Accepted, Carries, Behind
  <2> QED
    BY <1>2, <1>3, <2>1, <2>3
<1>8. CASE DataReturns
  <2>1. PICK o \in ReadOutcomes :
          /\ Return(o, "data")
          /\ (o.ok /\ out' = out \o o.data) \/ (out' = <<>> /\ pc' # "data")
    BY <1>8 DEF DataReturns
  <2>2. pc = "data"
    BY <1>8 DEF DataReturns
  <2>3. /\ o.data \in Seq(Nat)
        /\ o.ok => /\ PartAfter(Len(out), o.data)
                   /\ firmware = "plain" => cursor = Len(out) + Len(o.data)
    BY <1>0, <1>2, <2>1, <2>2, FetchReturned DEF Carries, Behind
  <2>4. o.ok => PartAfter(0, out \o o.data)
    BY <1>0, <1>2, <2>3, PartsJoin
  <2>5. Len(out \o o.data) = Len(out) + Len(o.data)
    BY <1>0, <2>3, ConcatProperties
  <2> QED
    BY <1>2, <1>3, <2>1, <2>3, <2>4, <2>5
<1>9. CASE PlainFreeReturns
  <2>1. out' = SubSeq(out, 1, Least(Len(out), size)) /\ pc' # "data"
    BY <1>9 DEF PlainFreeReturns
  <2> QED
    BY <1>0, <1>2, <1>3, <2>1, PartCut
<1>10. CASE \/ GetDeviceTimeReturns \/ DisableReturns \/ ReadRecordsReturns
            \/ FreeDataReturns \/ EnableReturns
  <2>1. UNCHANGED out /\ pc' # "data"
    BY <1>10 DEF GetDeviceTimeReturns, DisableReturns, ReadRecordsReturns,
                 FreeDataReturns, EnableReturns
  <2> QED
    BY <1>4, <2>1
<1> QED
  BY <1>5, <1>6, <1>7, <1>8, <1>9, <1>10 DEF ReturnStep

LEMMA CollectStep == PayloadIInv /\ [Next]_vars => PayloadIInv'
<1> SUFFICES ASSUME PayloadIInv, [Next]_vars PROVE Collecting'
  BY FlightStep DEF PayloadIInv
<1>1. CASE SendCommand
  BY <1>1, CollectSend
<1>2. CASE ReturnStep
  BY <1>2, CollectReturns
<1>3. CASE Disconnect
  BY <1>3 DEF Disconnect, Close, deviceVars, PayloadIInv, Collecting, PartAfter,
              Exchanges
<1>4. CASE Device
  BY <1>4, CollectHandles, CollectDeviceFails DEF Device
<1>5. CASE UNCHANGED vars
  BY <1>5 DEF vars, wireVars, deviceVars, fetchVars, PayloadIInv, Collecting,
              PartAfter, Asks, Carries, Behind, CmdOf
<1> QED
  BY <1>1, <1>2, <1>3, <1>4, <1>5 DEF Next, Server, ReturnStep, Finished

LEMMA CollectInit == Init => PayloadIInv
<1> SUFFICES ASSUME Init PROVE Collecting
  BY FlightInit DEF PayloadIInv
<1>1. PartAfter(0, out)
  BY FlightInit, EmptyPart DEF Init, FlightIInv, TypeInv, TypeOK
<1> QED
  BY <1>1 DEF Init, WireInit, Collecting

\* A part of the log from its first unit on is a prefix of it.
LEMMA PartIsPrefix ==
  ASSUME stored \in Nat, NEW s \in Seq(Nat), PartAfter(0, s)
  PROVE  IsPrefix(s, Log)
<1>1. Len(s) \in Nat /\ Len(s) <= stored /\ \A i \in 1 .. Len(s) : s[i] = i
  BY DEF PartAfter
<1>2. Log \in Seq(Nat) /\ Len(Log) = stored
  BY DEF Log
<1>3. \A i \in 1 .. Len(s) : Log[i] = i
  BY <1>1 DEF Log
<1>4. /\ \A i \in 1 .. Len(s) : s[i] \in Nat
      /\ \A i \in 1 .. Len(s) : Log[i] \in Nat
  BY <1>1, <1>3
<1> DEFINE u == SubSeq(s, 1, Len(s))
           v == SubSeq(Log, 1, Len(s))
<1>5. /\ u \in Seq(Nat) /\ v \in Seq(Nat)
      /\ Len(u) = Len(v)
      /\ \A i \in 1 .. Len(s) - 1 + 1 : u[i] = s[1 + i - 1] /\ v[i] = Log[1 + i - 1]
      /\ Len(u) = Len(s)
  BY <1>1, <1>4, SubSeqProperties
<1>6. \A i \in 1 .. Len(u) : u[i] = v[i]
  <2>1. ASSUME NEW i \in 1 .. Len(s) PROVE u[i] = v[i]
    <3>1. i \in 1 .. Len(s) - 1 + 1 /\ 1 + i - 1 = i
      BY <1>1
    <3>2. u[i] = s[i] /\ v[i] = Log[i]
      BY <1>5, <3>1
    <3> QED
      BY <1>1, <1>3, <3>2
  <2> QED
    BY <1>5, <2>1
<1>7. u = v
  <2> HIDE DEF u, v
  <2> QED
    BY <1>5, <1>6, SeqEqual
<1> QED
  BY <1>1, <1>2, <1>7 DEF IsPrefix

\* Whichever path served a fetch, and whatever was refused, cut or lost: unless
\* an answer was late, what it returns is the beginning of the stored log.
THEOREM ReturnsPrefix == Spec => []PayloadPrefix
<1>1. PayloadIInv => PayloadPrefix
  BY PartIsPrefix DEF PayloadIInv, FlightIInv, TypeInv, TypeOK, Collecting,
                      PayloadPrefix
<1> QED
  BY <1>1, CollectInit, CollectStep, PTL DEF Spec

-----------------------------------------------------------------------------
(* Tolerance.  An exchange whose command was hit by no fault succeeds with *)
(* the answer of a device that has nothing wrong with it, unless an answer *)
(* was late or the connection was lost; so a fetch whose payload commands  *)
(* were not hit goes the way its firmware calls for.                       *)

\* f is that answer to the present exchange.
Whole(f) ==
  /\ f.ans = CmdOf(pc)
  /\ pc = "getTime" => f.code = "OK" /\ Len(f.data) = 1
  /\ pc = "freeSizes" => /\ f.code = "OK" /\ Len(f.data) = FreeSizesUnits
                          /\ f.size = 0
  /\ pc = "prepareBuffer" =>
       CASE firmware = "buffered" ->
              f.code = "PREPARE" /\ Len(f.data) = 2 /\ f.size = stored
         [] firmware = "inline"   -> f.code = "DATA" /\ f.data = Log
         [] OTHER                 -> f.code = "ERROR"
  /\ pc = "readBuffer" => f.code = "DATA" /\ f.data = Piece(Len(out), ChunkLen)
  /\ pc = "attLog" /\ firmware = "plain" =>
       /\ f.code = "PREPARE" /\ f.data = Piece(0, PlainChunk)
       /\ f.size = stored - 1
  /\ pc = "data" /\ firmware = "plain" => f.data = Piece(Len(out), PlainChunk)

Spared == pc \in Exchanges /\ CmdOf(pc) \notin faulted

Fetched == IF firmware = "plain" /\ stored <= 2 THEN <<>> ELSE Log

\* How far a fetch is whose payload commands were not hit.
Progress ==
  /\ ~fetchErr
  /\ pc \in {"disconnect", "done"} => outcome = "ok"
  /\ pc = "readBuffer" => firmware = "buffered" /\ size = stored
  /\ pc = "freeData" => firmware = "buffered" /\ out = Log
  /\ pc = "attLog" => firmware = "plain" /\ out = <<>>
  /\ pc \in {"data", "plainFree"} => firmware = "plain" /\ stored > 2 /\ size = stored
  /\ pc = "data" => Len(out) < stored
  /\ pc = "plainFree" => out = Log
  /\ pc \in {"enable", "disconnect", "done"} => out = Fetched

Tolerant ==
  late = 0 /\ "conn" \notin faulted =>
    /\ conn # "broken"
    /\ Spared /\ waiting => requests # <<>> \/ replies # <<>>
    /\ Spared /\ replies # <<>> => Whole(Head(replies))
    /\ pc = "readBuffer" /\ requests # <<>> => Head(requests).n = ChunkLen
    /\ clock = "unread" => "getTime" \in faulted
    /\ count = "unknown" => "freeSizes" \in faulted
    /\ faulted \cap PayloadCmds = {} => Progress

TolerantIInv == PayloadIInv /\ Tolerant

LEMMA TolerantSend ==
  ASSUME TolerantIInv, SendCommand
  PROVE  Tolerant'
<1>0. UNCHANGED <<late, faulted, conn, deviceVars, fetchVars>>
  BY DEF SendCommand, Write
<1> SUFFICES ASSUME late = 0, "conn" \notin faulted PROVE Tolerant'
  BY <1>0 DEF Tolerant
<1>1. /\ WireTypeOK /\ InFlightBound /\ Tolerant /\ pc \in Exchanges
      /\ ~waiting /\ conn # "closed"
  BY DEF TolerantIInv, PayloadIInv, FlightIInv, TypeInv, TypeOK, FlightInv,
         SendCommand, Write, ClosedLast, Exchanges
<1>2. conn = "up"
  BY <1>1 DEF Tolerant, WireTypeOK
<1>3. requests = <<>> /\ replies = <<>>
  BY <1>1, AloneUnderWay
<1>4. replies' = <<>> /\ requests' # <<>>
  BY <1>2, <1>3, FirstWrite DEF SendCommand
<1>5. pc = "readBuffer" => Head(requests').n = ChunkLen
  BY <1>3, <1>4, FirstWrite DEF SendCommand
<1>6. Progress => Progress'
  BY <1>0 DEF deviceVars, fetchVars, Progress, Fetched, Log
<1>7. ChunkLen' = ChunkLen /\ Spared' = Spared
  BY <1>0 DEF fetchVars, ChunkLen, Start, Least, Spared, CmdOf
<1> QED
  BY <1>0, <1>1, <1>4, <1>5, <1>6, <1>7 DEF Tolerant, fetchVars

LEMMA TolerantHandles ==
  ASSUME TolerantIInv, DeviceHandles
  PROVE  Tolerant'
<1> DEFINE q == Head(requests)
           p == ProperAnswer(q)
<1>1. PICK a \in {p} \cup FaultyAnswers(q) : Handle(a, IF a = p THEN 0 ELSE 1)
  BY DEF DeviceHandles
<1>2. /\ UNCHANGED <<late, conn, waiting, firmware, stored, fetchVars>>
      /\ faulted \subseteq faulted'
      /\ a # p => q.cmd \in faulted'
  BY <1>1 DEF DeviceHandles, Handle
<1> SUFFICES ASSUME late = 0, "conn" \notin faulted PROVE Tolerant'
  BY <1>2 DEF Tolerant
<1>3. /\ TypeOK /\ WireTypeOK /\ InFlightBound /\ Collecting /\ ClosedLast /\ Tolerant
      /\ q \in Requests /\ requests # <<>> /\ conn # "broken"
  BY HeadTailProperties
  DEF TolerantIInv, PayloadIInv, FlightIInv, TypeInv, TypeOK, FlightInv,
      WireTypeOK, DeviceHandles, Handle
<1>4. Progress => Progress'
  BY <1>2 DEF fetchVars, Progress, Fetched, Log
<1>5. CASE pc \notin Exchanges
  BY <1>2, <1>3, <1>4, <1>5 DEF Tolerant, Spared, fetchVars, Exchanges
<1>6. CASE pc \in Exchanges
  <2>1. conn = "up"
    BY <1>3, <1>6 DEF ClosedLast, WireTypeOK, Exchanges
  <2>2. /\ Tail(requests) = <<>> /\ replies = <<>> /\ Asks(q)
        /\ pc = "readBuffer" => q.n = ChunkLen
    BY <1>3, <1>6, <2>1, AloneUnderWay DEF Collecting, Tolerant
  <2>3. /\ requests' = <<>> /\ replies' # <<>>
        /\ Head(replies').ans = q.cmd /\ Head(replies').code = a.code
        /\ Head(replies').data = a.data /\ Head(replies').size = a.size
    BY <1>1, <1>3, <2>1, <2>2, FirstReply
  <2>4. pc = "data" /\ firmware = "plain" => cursor = Len(out)
    BY <1>3, <2>2 DEF Collecting
  <2>5. Spared' => a = p
    BY <1>2, <2>2 DEF Spared, Asks, fetchVars, CmdOf
  <2>6. ASSUME a = p PROVE Whole(Head(replies'))
    <3>1. /\ q.cmd = CmdOf(pc) /\ (pc = "readBuffer" => q.start = Len(out))
          /\ firmware \in {"buffered", "inline", "plain"}
      BY <1>3, <2>2 DEF Asks, TypeOK
    <3>2. Len(<<0>>) = 1 /\ Len(<<0, 0>>) = 2
      OBVIOUS
    <3>3. Len([i \in 1 .. FreeSizesUnits |-> 0]) = FreeSizesUnits
      BY FetchAssumption
    <3>4. CASE pc \in {"getTime", "freeSizes"}
      BY <2>3, <2>6, <3>1, <3>2, <3>3, <3>4 DEF Whole, ProperAnswer, Answer, CmdOf
    <3>5. CASE pc = "prepareBuffer"
      BY <2>3, <2>6, <3>1, <3>2, <3>5 DEF Whole, ProperAnswer, Answer, CmdOf
    <3>6. CASE pc \in {"readBuffer", "attLog", "data"}
      BY <2>2, <2>3, <2>4, <2>6, <3>1, <3>6 DEF Whole, ProperAnswer, Answer, CmdOf
    <3>7. CASE pc \in {"disable", "freeData", "plainFree", "enable"}
      BY <2>3, <3>1, <3>7 DEF Whole
    <3> QED
      BY <1>6, <3>4, <3>5, <3>6, <3>7 DEF Exchanges
  <2>7. Spared' => Whole(Head(replies))'
    BY <1>2, <2>5, <2>6 DEF Whole, CmdOf, Piece, Log, ChunkLen, Start, Least, fetchVars
  <2> QED
    BY <1>2, <1>3, <1>4, <2>3, <2>7 DEF Tolerant, Spared, fetchVars, CmdOf
<1> QED
  BY <1>5, <1>6

LEMMA TolerantDeviceFails ==
  ASSUME TolerantIInv, DeviceIgnores \/ ConnectionDrops
  PROVE  Tolerant'
<1>1. CASE ConnectionDrops
  BY <1>1 DEF ConnectionDrops, Drop, Tolerant
<1>2. CASE DeviceIgnores
  <2> DEFINE q == Head(requests)
  <2>1. /\ UNCHANGED <<late, conn, waiting, replies, deviceVars, fetchVars>>
        /\ requests # <<>> /\ requests' = Tail(requests)
        /\ faulted' = faulted \cup {q.cmd}
    BY <1>2 DEF DeviceIgnores, Ignore
  <2> SUFFICES ASSUME late = 0, "conn" \notin faulted PROVE Tolerant'
    BY <2>1 DEF Tolerant
  <2>2. /\ WireTypeOK /\ InFlightBound /\ Collecting /\ ClosedLast /\ Tolerant
    BY DEF TolerantIInv, PayloadIInv, FlightIInv, TypeInv, TypeOK, FlightInv
  <2>3. pc \in Exchanges => conn # "closed"
    BY <2>2 DEF ClosedLast, Exchanges
  <2>4. pc \in Exchanges => requests' = <<>> /\ q.cmd = CmdOf(pc)
    BY <2>1, <2>2, <2>3, AloneUnderWay DEF Collecting, Asks
  <2>5. ~Spared'
    BY <2>1, <2>4 DEF Spared, fetchVars, CmdOf
  <2>6. Progress => Progress'
    BY <2>1 DEF deviceVars, fetchVars, Progress, Fetched, Log
  <2>7. pc = "readBuffer" => requests' = <<>>
    BY <2>4 DEF Exchanges
  <2> QED
    BY <2>1, <2>2, <2>5, <2>6, <2>7 DEF Tolerant, fetchVars
<1> QED
  BY <1>1, <1>2

\* A part of the log that is as long as the log is the log.
LEMMA WholeLog ==
  ASSUME stored \in Nat, NEW s \in Seq(Nat), PartAfter(0, s), Len(s) >= stored
  PROVE  s = Log
<1>1. Log \in Seq(Nat) /\ Len(Log) = stored /\ \A i \in 1 .. stored : Log[i] = i
  BY DEF Log
<1>2. Len(s) = stored /\ \A i \in 1 .. stored : s[i] = i
  BY DEF PartAfter
<1> QED
  BY <1>1, <1>2, SeqEqual

LEMMA PieceLen ==
  ASSUME stored \in Nat, NEW from \in Nat, from <= stored, NEW n \in Nat
  PROVE  /\ Piece(from, n) \in Seq(Nat)
         /\ Len(Piece(from, n)) = Least(from + n, stored) - from
<1> DEFINE k == Least(from + n, stored) - from
<1>1. k \in Nat /\ from + k = Least(from + n, stored) /\ from + k <= stored
  BY DEF Least
<1>2. Log \in Seq(Nat) /\ Len(Log) = stored
  BY DEF Log
<1>3. Piece(from, n) = SubSeq(Log, from + 1, from + k)
  BY <1>1 DEF Piece
<1>4. from + k <= Len(Log)
  BY <1>1, <1>2
<1> HIDE DEF k
<1>5. Len(SubSeq(Log, from + 1, from + k)) = k
  BY <1>1, <1>2, <1>4, Slice
<1> QED
  BY <1>3, <1>5, PieceType DEF k

\* The outcome of an exchange that nothing hit.
LEMMA SparedReturns ==
  ASSUME TolerantIInv, Spared, late' = 0, "conn" \notin faulted,
         NEW o \in ReadOutcomes, NEW cmd, Return(o, cmd)
  PROVE  /\ o.ok /\ o.data \in Seq(Nat) /\ Len(o.data) \in Nat
         /\ \E f \in Replies : /\ Whole(f) /\ o.ans = f.ans /\ o.code = f.code
                               /\ o.data = f.data /\ o.size = f.size
<1>0. /\ FlightIInv /\ WireTypeOK /\ Tolerant /\ pc \in Exchanges
  BY DEF TolerantIInv, PayloadIInv, FlightIInv, TypeInv, TypeOK, Spared
<1>1. /\ late = 0 /\ o \in Outcomes /\ o.data \in Seq(Nat)
  BY <1>0, FetchReturned
<1>2. o.late = 0
  BY <1>1 DEF Return, Outcomes
<1>3. /\ conn # "broken" /\ (requests # <<>> \/ replies # <<>>)
      /\ replies # <<>> => Whole(Head(replies))
  BY <1>0, <1>1 DEF Tolerant, Return
<1>4. CmdOf(pc) # "fragment"
  BY <1>0 DEF CmdOf, Exchanges
<1>5. o.ok
  BY <1>2, <1>3, <1>4, NoFailure DEF Whole, IsFragment
<1>6. /\ replies # <<>> /\ Head(replies) \in Replies
      /\ o.ans = Head(replies).ans /\ o.code = Head(replies).code
      /\ o.data = Head(replies).data /\ o.size = Head(replies).size
  BY <1>0, <1>5, FetchReturned, HeadTailProperties DEF WireTypeOK
<1> QED
  BY <1>1, <1>3, <1>5, <1>6

\* Where a returned exchange leaves the fetch.
LEMMA PrepareProgress ==
  ASSUME TolerantIInv, PrepareBufferReturns, late' = 0, "conn" \notin faulted,
         faulted \cap PayloadCmds = {}, Progress
  PROVE  Progress'
<1>0. /\ TypeOK /\ pc = "prepareBuffer" /\ Spared /\ out = <<>> /\ stored \in Nat \ {0}
      /\ UNCHANGED <<firmware, stored, fetchErr>>
  BY DEF TolerantIInv, PayloadIInv, FlightIInv, TypeInv, TypeOK, ChunkLoop, Before,
         PrepareBufferReturns, Spared, CmdOf, Exchanges, PayloadCmds, deviceVars
<1>1. PICK o \in ReadOutcomes :
        /\ Return(o, "prepareBuffer")
        /\ \/ /\ Accepted(o, {"DATA"}, 0)
              /\ out' = o.data
              /\ pc' = IF out' # <<>> THEN "enable" ELSE "attLog"
              /\ UNCHANGED size
           \/ /\ Accepted(o, {"OK", "PREPARE"}, 2)
              /\ size' \in SizesRead(o, "prepareBuffer")
              /\ pc' = IF size' > 0 THEN "readBuffer" ELSE "attLog"
              /\ UNCHANGED out
           \/ /\ ~Accepted(o, {"DATA"}, 0)
              /\ ~Accepted(o, {"OK", "PREPARE"}, 2)
              /\ pc' = "attLog"
              /\ UNCHANGED <<size, out>>
  BY DEF PrepareBufferReturns
<1>2. PICK f \in Replies : /\ Whole(f) /\ o.ans = f.ans /\ o.code = f.code
                           /\ o.data = f.data /\ o.size = f.size
  BY <1>0, <1>1, SparedReturns
<1>3. o.ok /\ Len(o.data) \in Nat /\ o.ans = "prepareBuffer"
  BY <1>0, <1>1, <1>2, SparedReturns DEF Whole, CmdOf
<1>4. CASE firmware = "buffered"
  <2>1. o.code = "PREPARE" /\ Len(o.data) = 2 /\ o.size = stored
    BY <1>0, <1>2, <1>4 DEF Whole
  <2>2. pc' = "readBuffer" /\ size' = stored
    BY <1>0, <1>1, <1>3, <2>1 DEF Accepted, SizesRead
  <2> QED
    BY <1>0, <1>4, <2>2 DEF Progress
<1>5. CASE firmware = "inline"
  <2>1. o.code = "DATA" /\ o.data = Log
    BY <1>0, <1>2, <1>5 DEF Whole
  <2>2. Log # <<>>
    <3>1. Len(Log) = stored /\ Len(<<>>) = 0
      BY <1>0 DEF Log
    <3> QED
      BY <1>0, <3>1
  <2>3. pc' = "enable" /\ out' = Log
    BY <1>1, <1>3, <2>1, <2>2 DEF Accepted
  <2> QED
    BY <1>0, <1>5, <2>3 DEF Progress, Fetched, Log
<1>6. CASE firmware = "plain"
  <2>1. o.code = "ERROR"
    BY <1>0, <1>2, <1>6 DEF Whole
  <2>2. pc' = "attLog" /\ out' = out
    BY <1>1, <2>1 DEF Accepted
  <2> QED
    BY <1>0, <1>6, <2>2 DEF Progress
<1> QED
  BY <1>0, <1>4, <1>5, <1>6 DEF TypeOK

LEMMA ReadBufferProgress ==
  ASSUME TolerantIInv, ReadBufferReturns, late' = 0, "conn" \notin faulted,
         faulted \cap PayloadCmds = {}, Progress
  PROVE  Progress'
<1>0. /\ TypeInv /\ pc = "readBuffer" /\ Spared /\ stored \in Nat \ {0}
      /\ UNCHANGED <<firmware, stored, fetchErr, size>>
      /\ out \in Seq(Nat) /\ Len(out) \in Nat
      /\ firmware = "buffered" /\ size = stored /\ Len(out) < stored
      /\ ~fetchErr
  BY DEF TolerantIInv, PayloadIInv, FlightIInv, TypeInv, TypeOK, ChunkLoop,
         ReadBufferReturns, Spared, CmdOf, Exchanges, PayloadCmds, Progress, deviceVars
<1>1. PICK o \in ReadOutcomes :
        /\ Return(o, "readBuffer")
        /\ Accepted(o, {"DATA", "OK"}, 0) =>
             /\ out' = out \o o.data
             /\ pc' = IF ChunkEnds(o.data) THEN "freeData" ELSE "readBuffer"
  BY DEF ReadBufferReturns
<1>2. o.ok /\ o.code = "DATA" /\ o.data = Piece(Len(out), ChunkLen)
      /\ Len(o.data) \in Nat
  BY <1>0, <1>1, SparedReturns DEF Whole
<1>3. out' = out \o o.data /\ pc' = IF ChunkEnds(o.data) THEN "freeData" ELSE "readBuffer"
  BY <1>1, <1>2 DEF Accepted
<1>4. ChunkLen \in Nat /\ ChunkLen <= stored - Len(out)
  <2>1. stored - Len(out) \in Nat /\ MaxChunk \in Nat
    BY <1>0, FetchAssumption
  <2> QED
    BY <1>0, <2>1, LeastType DEF ChunkLen, Start
<1>5. Len(o.data) = ChunkLen
  <2>1. Len(o.data) = Least(Len(out) + ChunkLen, stored) - Len(out)
    BY <1>0, <1>2, <1>4, PieceLen
  <2>2. Len(out) + ChunkLen <= stored
    BY <1>0, <1>4
  <2> QED
    BY <1>0, <1>4, <2>1, <2>2 DEF Least
<1>6. PartAfter(Len(out), o.data) /\ o.data \in Seq(Nat)
  BY <1>0, <1>2, <1>4, PartOfPiece, PieceLen
<1>7. ASSUME ChunkEnds(o.data) PROVE out' = Log
  <2>1. Len(out) + Len(o.data) >= stored
    BY <1>0, <1>4, <1>5, <1>7 DEF ChunkEnds, Start
  <2>2. late = 0
    BY <1>0, <1>1, FetchReturned DEF TolerantIInv, PayloadIInv, Exchanges
  <2>3. PartAfter(0, out)
    BY <2>2 DEF TolerantIInv, PayloadIInv, Collecting
  <2>4. /\ PartAfter(0, out \o o.data) /\ out \o o.data \in Seq(Nat)
        /\ Len(out \o o.data) = Len(out) + Len(o.data)
    BY <1>0, <1>6, <2>3, PartsJoin, ConcatProperties
  <2> QED
    BY <1>0, <1>3, <2>1, <2>4, WholeLog
<1> QED
  BY <1>0, <1>3, <1>7 DEF Progress, Log

LEMMA AttLogProgress ==
  ASSUME TolerantIInv, AttLogReturns, late' = 0, "conn" \notin faulted,
         faulted \cap PayloadCmds = {}, Progress
  PROVE  Progress'
<1>0. /\ TypeOK /\ pc = "attLog" /\ Spared /\ stored \in Nat \ {0}
      /\ UNCHANGED <<firmware, stored>>
      /\ firmware = "plain" /\ out = <<>> /\ ~fetchErr
  BY DEF TolerantIInv, PayloadIInv, FlightIInv, TypeInv, TypeOK,
         AttLogReturns, Spared, CmdOf, Exchanges, PayloadCmds, Progress, deviceVars
<1>1. PICK o \in ReadOutcomes :
        /\ Return(o, "attLog")
        /\ \/ ~Accepted(o, {"PREPARE", "OK"}, 0)
           \/ o.data = <<>>
           \/ /\ \E records \in SizesRead(o, "attLog") :
                   IF records <= 1
                   THEN pc' = "enable" /\ UNCHANGED <<size, out>>
                   ELSE /\ size' = PlainLen(records)
                        /\ out' = o.data
                        /\ pc' = IF Len(out') < size' THEN "data" ELSE "plainFree"
              /\ UNCHANGED fetchErr
  BY DEF AttLogReturns
<1>2. /\ o.ok /\ o.ans = "attLog" /\ o.code = "PREPARE" /\ o.size = stored - 1
      /\ o.data = Piece(0, PlainChunk) /\ Len(o.data) \in Nat
  BY <1>0, <1>1, SparedReturns DEF Whole, CmdOf
<1>3. /\ o.data \in Seq(Nat) /\ Len(o.data) > 0 /\ PartAfter(0, o.data)
  <2>1. PlainChunk \in Nat \ {0} /\ 0 <= stored /\ 0 \in Nat
    BY <1>0, FetchAssumption
  <2>2. o.data \in Seq(Nat) /\ Len(o.data) = Least(0 + PlainChunk, stored) - 0
    BY <1>0, <1>2, <2>1, PieceLen
  <2>3. PartAfter(0, o.data)
    BY <1>0, <1>2, <2>1, PartOfPiece
  <2> QED
    BY <1>0, <2>1, <2>2, <2>3 DEF Least
<1>4. /\ IF stored - 1 <= 1
         THEN pc' = "enable" /\ UNCHANGED <<size, out>>
         ELSE /\ size' = stored
              /\ out' = o.data
              /\ pc' = IF Len(out') < size' THEN "data" ELSE "plainFree"
      /\ UNCHANGED fetchErr
  <2>1. Accepted(o, {"PREPARE", "OK"}, 0)
    BY <1>2 DEF Accepted
  <2>2. o.data # <<>>
    BY <1>3, EmptySeq
  <2>3. stored - 1 + 1 = stored
    BY <1>0
  <2> QED
    BY <1>1, <1>2, <2>1, <2>2, <2>3 DEF SizesRead, PlainLen
<1>5. CASE stored <= 2
  <2>1. pc' = "enable" /\ out' = <<>>
    BY <1>0, <1>4, <1>5
  <2> QED
    BY <1>0, <1>4, <1>5, <2>1 DEF Progress, Fetched
<1>6. CASE stored > 2
  <2>1. /\ size' = stored /\ out' = o.data
        /\ pc' = IF Len(out') < stored THEN "data" ELSE "plainFree"
    BY <1>0, <1>4, <1>6
  <2>2. Len(o.data) >= stored => o.data = Log
    BY <1>0, <1>3, WholeLog
  <2>3. pc' = "plainFree" => out' = Log
    BY <1>0, <1>2, <2>1, <2>2
  <2> QED
    BY <1>0, <1>4, <1>6, <2>1, <2>3 DEF Progress, Log
<1> QED
  BY <1>0, <1>5, <1>6

LEMMA DataProgress ==
  ASSUME TolerantIInv, DataReturns, late' = 0, "conn" \notin faulted,
         faulted \cap PayloadCmds = {}, Progress
  PROVE  Progress'
<1>0. /\ TypeOK /\ pc = "data" /\ Spared /\ stored \in Nat \ {0}
      /\ UNCHANGED <<firmware, stored, size>>
      /\ out \in Seq(Nat) /\ Len(out) \in Nat
      /\ firmware = "plain" /\ stored > 2 /\ size = stored /\ Len(out) < stored
      /\ ~fetchErr
  BY DEF TolerantIInv, PayloadIInv, FlightIInv, TypeInv, TypeOK,
         DataReturns, Spared, CmdOf, Exchanges, PayloadCmds, Progress, deviceVars
<1>1. PICK o \in ReadOutcomes :
        /\ Return(o, "data")
        /\ o.ok => /\ out' = out \o o.data
                   /\ pc' = IF o.data = <<>> \/ Len(out') >= size
                            THEN "plainFree" ELSE "data"
                   /\ UNCHANGED fetchErr
  BY DEF DataReturns
<1>2. o.ok /\ o.data = Piece(Len(out), PlainChunk) /\ Len(o.data) \in Nat
  BY <1>0, <1>1, SparedReturns DEF Whole
<1>3. o.data \in Seq(Nat) /\ Len(o.data) > 0 /\ PartAfter(Len(out), o.data)
  <2>1. PlainChunk \in Nat \ {0}
    BY FetchAssumption
  <2>2. o.data \in Seq(Nat) /\ Len(o.data) = Least(Len(out) + PlainChunk, stored) - Len(out)
    BY <1>0, <1>2, <2>1, PieceLen
  <2>3. PartAfter(Len(out), o.data)
    BY <1>0, <1>2, <2>1, PartOfPiece
  <2> QED
    BY <1>0, <2>1, <2>2, <2>3 DEF Least
<1>4. PartAfter(0, out \o o.data) /\ out \o o.data \in Seq(Nat)
  <2>1. late = 0
    BY <1>0, <1>1, FetchReturned DEF TolerantIInv, PayloadIInv, Exchanges
  <2>2. PartAfter(0, out)
    BY <2>1 DEF TolerantIInv, PayloadIInv, Collecting
  <2> QED
    BY <1>0, <1>3, <2>2, PartsJoin, ConcatProperties
<1>5. /\ out' = out \o o.data /\ UNCHANGED fetchErr
      /\ pc' = IF Len(out') >= stored THEN "plainFree" ELSE "data"
  <2>1. o.data # <<>>
    BY <1>3, EmptySeq
  <2> QED
    BY <1>0, <1>1, <1>2, <2>1
<1>6. Len(out') >= stored => out' = Log
  BY <1>0, <1>4, <1>5, WholeLog
<1>7. Len(out') \in Nat
  BY <1>4, <1>5
<1>8. /\ pc' \in {"data", "plainFree"} /\ (pc' = "plainFree" => out' = Log)
      /\ pc' = "data" => Len(out') < stored
  BY <1>0, <1>5, <1>6, <1>7
<1>9. Log' = Log
  BY <1>0 DEF Log
<1> QED
  BY <1>0, <1>5, <1>8, <1>9 DEF Progress

\* The exchanges whose outcome decides no more than clock and count.
LEMMA SmallProgress ==
  ASSUME TolerantIInv,
         \/ GetDeviceTimeReturns \/ DisableReturns \/ ReadRecordsReturns
         \/ FreeDataReturns \/ PlainFreeReturns \/ EnableReturns,
         Progress
  PROVE  Progress'
<1>0. /\ TypeOK /\ stored \in Nat \ {0} /\ UNCHANGED <<firmware, stored, size, fetchErr>>
      /\ Log' = Log
  BY DEF TolerantIInv, PayloadIInv, FlightIInv, TypeInv, TypeOK, deviceVars, Log,
         GetDeviceTimeReturns, DisableReturns, ReadRecordsReturns,
         FreeDataReturns, PlainFreeReturns, EnableReturns
<1>1. CASE GetDeviceTimeReturns \/ DisableReturns \/ ReadRecordsReturns
  <2>1. pc' \in {"disable", "freeSizes", "prepareBuffer"}
    BY <1>1 DEF GetDeviceTimeReturns, DisableReturns, ReadRecordsReturns
  <2> QED
    BY <1>0, <2>1 DEF Progress
<1>2. CASE FreeDataReturns
  <2>1. firmware = "buffered" /\ out = Log /\ UNCHANGED out
    BY <1>2 DEF FreeDataReturns, Progress
  <2>2. Log # <<>>
    <3>1. Len(Log) = stored /\ Len(<<>>) = 0
      BY <1>0 DEF Log
    <3> QED
      BY <1>0, <3>1
  <2>3. pc' = "enable"
    BY <1>2, <2>1, <2>2 DEF FreeDataReturns
  <2> QED
    BY <1>0, <2>1, <2>3 DEF Progress, Fetched
<1>3. CASE PlainFreeReturns
  <2>1. /\ firmware = "plain" /\ stored > 2 /\ size = stored /\ out = Log
        /\ pc' = "enable"
        /\ out' = SubSeq(out, 1, Least(Len(out), size))
    BY <1>3 DEF PlainFreeReturns, Progress
  <2>2. Log \in Seq(Nat) /\ Len(Log) = stored /\ PartAfter(0, Log)
    BY <1>0 DEF Log, PartAfter
  <2>3. Least(stored, stored) = stored
    BY <1>0 DEF Least
  <2>4. out' = SubSeq(Log, 1, stored)
    BY <2>1, <2>2, <2>3
  <2>5. \A i \in 1 .. stored : Log[i] \in Nat
    BY DEF Log
  <2>6. out' \in Seq(Nat) /\ Len(out') = stored
    BY <1>0, <2>4, <2>5, SubSeqProperties
  <2>7. PartAfter(0, SubSeq(Log, 1, Least(Len(Log), stored)))
    BY <1>0, <2>2, PartCut
  <2>8. out' = Log
    BY <1>0, <2>2, <2>3, <2>4, <2>6, <2>7, WholeLog
  <2> QED
    BY <1>0, <2>1, <2>8 DEF Progress, Fetched
<1>4. CASE EnableReturns
  <2>1. out = Fetched /\ ~fetchErr /\ UNCHANGED out
    BY <1>4 DEF EnableReturns, Progress
  <2>2. pc' = "disconnect" /\ outcome' = "ok"
    BY <1>4, <2>1 DEF EnableReturns
  <2> QED
    BY <1>0, <2>1, <2>2 DEF Progress, Fetched
<1> QED
  BY <1>1, <1>2, <1>3, <1>4

LEMMA TolerantReturns ==
  ASSUME TolerantIInv, ReturnStep
  PROVE  Tolerant'
<1>0. /\ FlightIInv /\ WireTypeOK /\ Tolerant /\ pc \in Exchanges
  BY ReturnStepReturns
  DEF TolerantIInv, PayloadIInv, FlightIInv, TypeInv, TypeOK
<1>1. PICK o \in ReadOutcomes : Return(o, CmdOf(pc))
  BY ReturnStepReturns
<1>2. faulted \subseteq faulted' /\ conn' = conn /\ ~waiting'
  BY <1>1 DEF Return
<1> SUFFICES ASSUME late' = 0, "conn" \notin faulted PROVE Tolerant'
  BY <1>2 DEF Tolerant
<1>3. late = 0 /\ requests' = <<>> /\ replies' = <<>>
  BY <1>0, <1>1, FetchReturned
<1>4. clock' = "unread" => "getTime" \in faulted'
  <2>1. CASE GetDeviceTimeReturns /\ Spared
    <3>1. PICK u \in ReadOutcomes :
            /\ Return(u, "getTime")
            /\ clock' = IF Accepted(u, Codes \ {"ERROR"}, 1) THEN "read" ELSE "unread"
      BY <2>1 DEF GetDeviceTimeReturns
    <3>2. pc = "getTime"
      BY <2>1 DEF GetDeviceTimeReturns
    <3>3. u.ok /\ u.code = "OK" /\ Len(u.data) = 1
      BY <2>1, <3>1, <3>2, SparedReturns DEF Whole
    <3> QED
      BY <3>1, <3>3 DEF Accepted, Codes
  <2>2. CASE GetDeviceTimeReturns /\ ~Spared
    BY <1>0, <1>2, <2>2 DEF GetDeviceTimeReturns, Spared, CmdOf
  <2>3. CASE ~GetDeviceTimeReturns
    <3>1. UNCHANGED clock
      BY <2>3 DEF ReturnStep, DisableReturns, ReadRecordsReturns,
                  PrepareBufferReturns, ReadBufferReturns, FreeDataReturns,
                  AttLogReturns, DataReturns, PlainFreeReturns, EnableReturns
    <3> QED
      BY <1>0, <1>2, <1>3, <3>1 DEF Tolerant
  <2> QED
    BY <2>1, <2>2, <2>3
<1>5. count' = "unknown" => "freeSizes" \in faulted'
  <2>1. CASE ReadRecordsReturns /\ Spared
    <3>1. PICK u \in ReadOutcomes :
            /\ Return(u, "freeSizes")
            /\ count' = IF ~SizesAccepted(u) THEN "unknown"
                        ELSE IF u.ans = "freeSizes" /\ ~CountNegative(u) THEN "device"
                        ELSE "junk"
      BY <2>1 DEF ReadRecordsReturns
    <3>2. pc = "freeSizes"
      BY <2>1 DEF ReadRecordsReturns
    <3>3. u.ok /\ u.code = "OK" /\ Len(u.data) = FreeSizesUnits /\ u.size = 0
      BY <2>1, <3>1, <3>2, SparedReturns DEF Whole
    <3>4. SizesAccepted(u)
      BY <3>3, FetchAssumption DEF SizesAccepted, Accepted, CountNegative, Negative
    <3> QED
      BY <3>1, <3>4
  <2>2. CASE ReadRecordsReturns /\ ~Spared
    BY <1>0, <1>2, <2>2 DEF ReadRecordsReturns, Spared, CmdOf
  <2>3. CASE ~ReadRecordsReturns
    <3>1. UNCHANGED count
      BY <2>3 DEF ReturnStep, GetDeviceTimeReturns, DisableReturns,
                  PrepareBufferReturns, ReadBufferReturns, FreeDataReturns,
                  AttLogReturns, DataReturns, PlainFreeReturns, EnableReturns
    <3> QED
      BY <1>0, <1>2, <1>3, <3>1 DEF Tolerant
  <2> QED
    BY <2>1, <2>2, <2>3
<1>6. ASSUME faulted \cap PayloadCmds = {} PROVE Progress'
  <2>1. Progress
    BY <1>0, <1>3, <1>6 DEF Tolerant
  <2>2. CASE PrepareBufferReturns
    BY <1>6, <2>1, <2>2, PrepareProgress
  <2>3. CASE ReadBufferReturns
    BY <1>6, <2>1, <2>3, ReadBufferProgress
  <2>4. CASE AttLogReturns
    BY <1>6, <2>1, <2>4, AttLogProgress
  <2>5. CASE DataReturns
    BY <1>6, <2>1, <2>5, DataProgress
  <2> QED
    BY <2>1, <2>2, <2>3, <2>4, <2>5, SmallProgress DEF ReturnStep
<1>7. conn # "broken"
  BY <1>0, <1>3 DEF Tolerant
<1> QED
  BY <1>2, <1>3, <1>4, <1>5, <1>6, <1>7 DEF Tolerant

LEMMA TolerantStep == TolerantIInv /\ [Next]_vars => TolerantIInv'
<1> SUFFICES ASSUME TolerantIInv, [Next]_vars PROVE Tolerant'
  BY CollectStep DEF TolerantIInv
<1>1. CASE SendCommand
  BY <1>1, TolerantSend
<1>2. CASE ReturnStep
  BY <1>2, TolerantReturns
<1>3. CASE Disconnect
  <2>1. /\ pc = "disconnect" /\ pc' = "done" /\ conn' = "closed" /\ ~waiting'
        /\ UNCHANGED <<late, faulted, deviceVars, clock, count, size, out, fetchErr,
                       outcome>>
    BY <1>3 DEF Disconnect, Close
  <2>2. Progress => Progress'
    BY <2>1 DEF deviceVars, Progress, Fetched, Log
  <2> QED
    BY <2>1, <2>2 DEF TolerantIInv, Tolerant, Spared, Exchanges
<1>4. CASE Device
  BY <1>4, TolerantHandles, TolerantDeviceFails DEF Device
<1>5. CASE UNCHANGED vars
  <2>1. Progress' = Progress
    BY <1>5 DEF vars, deviceVars, fetchVars, Progress, Fetched, Log
  <2>2. replies # <<>> => Whole(Head(replies))' = Whole(Head(replies))
    BY <1>5 DEF vars, wireVars, deviceVars, fetchVars, Whole, CmdOf, Piece, Log,
                ChunkLen, Start, Least
  <2>3. ChunkLen' = ChunkLen /\ Spared' = Spared
    BY <1>5 DEF vars, wireVars, fetchVars, ChunkLen, Start, Least, Spared, CmdOf
  <2> QED
    BY <1>5, <2>1, <2>2, <2>3 DEF vars, wireVars, fetchVars, TolerantIInv, Tolerant
<1> QED
  BY <1>1, <1>2, <1>3, <1>4, <1>5 DEF Next, Server, ReturnStep, Finished

\* A fetch survives the failure of everything that is only best effort: it has
\* the whole log unless a payload command was hit, the connection lost or an
\* answer late.
THEOREM SurvivesBestEffort == Spec => []TolerantFetch
<1>1. Init => TolerantIInv
  <2> SUFFICES ASSUME Init PROVE Tolerant
    BY CollectInit DEF TolerantIInv
  <2> QED
    BY DEF Init, WireInit, Tolerant, Progress
<1>2. TolerantIInv => TolerantFetch
  BY DEF TolerantIInv, Tolerant, Progress, Fetched, TolerantFetch
<1> QED
  BY <1>1, <1>2, TolerantStep, PTL DEF Spec

-----------------------------------------------------------------------------
(* Fetches in a row (FetchRestart).  Once a fetch has written its enable   *)
(* command, the commands under way leave the device enabled: they include  *)
(* an enable command with no disable command behind it, or the device is   *)
(* enabled and no disable command is under way.                            *)

EndsEnabled(reqs, on) ==
  \/ \E i \in 1 .. Len(reqs) :
       /\ reqs[i].cmd = "enable"
       /\ \A j \in i + 1 .. Len(reqs) : reqs[j].cmd # "disable"
  \/ on /\ \A j \in 1 .. Len(reqs) : reqs[j].cmd # "disable"

LEMMA EnableAppended ==
  ASSUME NEW reqs \in Seq(Requests), NEW q \in Requests, q.cmd = "enable", NEW on
  PROVE  EndsEnabled(Append(reqs, q), on)
<1>1. /\ Len(Append(reqs, q)) = Len(reqs) + 1 /\ Len(reqs) \in Nat
      /\ Append(reqs, q)[Len(reqs) + 1] = q
  BY AppendProperties
<1>2. \A j \in Len(reqs) + 1 + 1 .. Len(reqs) + 1 : FALSE
  BY <1>1
<1>3. Len(reqs) + 1 \in 1 .. Len(reqs) + 1
  BY <1>1
<1> QED
  BY <1>1, <1>2, <1>3 DEF EndsEnabled

LEMMA OtherAppended ==
  ASSUME NEW reqs \in Seq(Requests), NEW q \in Requests, q.cmd # "disable", NEW on,
         EndsEnabled(reqs, on)
  PROVE  EndsEnabled(Append(reqs, q), on)
<1> DEFINE longer == Append(reqs, q)
<1>1. /\ Len(longer) = Len(reqs) + 1 /\ Len(reqs) \in Nat
      /\ longer[Len(reqs) + 1] = q
      /\ \A i \in 1 .. Len(reqs) : longer[i] = reqs[i]
  BY AppendProperties
<1> HIDE DEF longer
<1>2. ASSUME NEW i \in 1 .. Len(reqs) + 1,
             \A j \in i .. Len(reqs) : reqs[j].cmd # "disable"
      PROVE  \A j \in i .. Len(reqs) + 1 : longer[j].cmd # "disable"
  BY <1>1, <1>2
<1>3. CASE \E i \in 1 .. Len(reqs) :
             /\ reqs[i].cmd = "enable"
             /\ \A j \in i + 1 .. Len(reqs) : reqs[j].cmd # "disable"
  <2>1. PICK i \in 1 .. Len(reqs) :
          /\ reqs[i].cmd = "enable"
          /\ \A j \in i + 1 .. Len(reqs) : reqs[j].cmd # "disable"
    BY <1>3
  <2>2. i + 1 \in 1 .. Len(reqs) + 1 /\ i \in 1 .. Len(reqs) + 1
    BY <1>1
  <2>3. \A j \in i + 1 .. Len(reqs) + 1 : longer[j].cmd # "disable"
    BY <1>2, <2>1, <2>2
  <2>4. longer[i].cmd = "enable"
    BY <1>1, <2>1
  <2> QED
    BY <1>1, <2>2, <2>3, <2>4 DEF EndsEnabled, longer
<1>4. CASE on /\ \A j \in 1 .. Len(reqs) : reqs[j].cmd # "disable"
  <2>1. \A j \in 1 .. Len(reqs) + 1 : longer[j].cmd # "disable"
    BY <1>1, <1>4
  <2> QED
    BY <1>1, <1>4, <2>1 DEF EndsEnabled, longer
<1> QED
  BY <1>3, <1>4 DEF EndsEnabled

LEMMA SupersededEnds ==
  ASSUME NEW reqs \in Seq(Requests), NEW on
  PROVE  EndsEnabled(reqs, on) => EndsEnabled(Superseded(reqs), on)
<1>1. Len(Superseded(reqs)) = Len(reqs) /\ Len(reqs) \in Nat
  BY SupersededType
<1>2. ASSUME NEW i \in 1 .. Len(reqs)
      PROVE  Superseded(reqs)[i].cmd = reqs[i].cmd
  <2>1. reqs[i] \in Requests
    BY ElementOfSeq
  <2> QED
    BY <2>1 DEF Superseded, Requests
<1>3. ASSUME NEW i \in 1 .. Len(reqs), NEW j \in i + 1 .. Len(reqs)
      PROVE  j \in 1 .. Len(reqs)
  BY <1>1
<1> QED
  BY <1>1, <1>2, <1>3 DEF EndsEnabled

\* Handling the oldest request keeps it so: an enable command that is obeyed,
\* a disable command whatever becomes of it, and any other that is ignored.
LEMMA TailEnds ==
  ASSUME NEW reqs \in Seq(Requests), reqs # <<>>, NEW on \in BOOLEAN,
         EndsEnabled(reqs, on), NEW next \in BOOLEAN,
         Head(reqs).cmd = "enable" => next,
         Head(reqs).cmd \notin {"enable", "disable"} => next = on
  PROVE  EndsEnabled(Tail(reqs), next)
<1>1. /\ Len(reqs) \in Nat \ {0} /\ Len(Tail(reqs)) = Len(reqs) - 1
      /\ Head(reqs) = reqs[1]
      /\ \A i \in 1 .. Len(reqs) - 1 : Tail(reqs)[i] = reqs[i + 1]
  BY HeadTailProperties, EmptySeq
<1>2. ASSUME NEW i \in 1 .. Len(reqs),
             \A j \in i + 1 .. Len(reqs) : reqs[j].cmd # "disable"
      PROVE  \A j \in i .. Len(reqs) - 1 : Tail(reqs)[j].cmd # "disable"
  <2>1. ASSUME NEW j \in i .. Len(reqs) - 1 PROVE Tail(reqs)[j].cmd # "disable"
    <3>1. j \in 1 .. Len(reqs) - 1 /\ j + 1 \in i + 1 .. Len(reqs)
      BY <1>1
    <3> QED
      BY <1>1, <1>2, <3>1
  <2> QED
    BY <2>1
<1>3. ASSUME NEW i \in 1 .. Len(reqs), i > 1, reqs[i].cmd = "enable",
             \A j \in i + 1 .. Len(reqs) : reqs[j].cmd # "disable"
      PROVE  EndsEnabled(Tail(reqs), next)
  <2>1. /\ i - 1 \in 1 .. Len(reqs) - 1 /\ i - 1 + 1 = i
        /\ Tail(reqs)[i - 1] = reqs[i - 1 + 1]
    BY <1>1, <1>3
  <2>2. \A j \in i .. Len(reqs) - 1 : Tail(reqs)[j].cmd # "disable"
    BY <1>2, <1>3
  <2> QED
    BY <1>1, <1>3, <2>1, <2>2 DEF EndsEnabled
<1>4. ASSUME next, \A j \in 2 .. Len(reqs) : reqs[j].cmd # "disable"
      PROVE  EndsEnabled(Tail(reqs), next)
  <2>1. 1 \in 1 .. Len(reqs) /\ 1 + 1 = 2
    BY <1>1
  <2>2. \A j \in 1 .. Len(reqs) - 1 : Tail(reqs)[j].cmd # "disable"
    BY <1>2, <1>4, <2>1
  <2> QED
    BY <1>1, <1>4, <2>2 DEF EndsEnabled
<1>5. CASE \E i \in 1 .. Len(reqs) :
             /\ reqs[i].cmd = "enable"
             /\ \A j \in i + 1 .. Len(reqs) : reqs[j].cmd # "disable"
  <2>1. PICK i \in 1 .. Len(reqs) :
          /\ reqs[i].cmd = "enable"
          /\ \A j \in i + 1 .. Len(reqs) : reqs[j].cmd # "disable"
    BY <1>5
  <2>2. CASE i = 1
    BY <1>1, <1>4, <2>1, <2>2
  <2>3. CASE i > 1
    BY <1>3, <2>1, <2>3
  <2> QED
    BY <1>1, <2>2, <2>3
<1>6. CASE on /\ \A j \in 1 .. Len(reqs) : reqs[j].cmd # "disable"
  <2>1. Head(reqs).cmd # "disable"
    BY <1>1, <1>6
  <2>2. next
    BY <1>6, <2>1
  <2>3. \A j \in 2 .. Len(reqs) : reqs[j].cmd # "disable"
    BY <1>1, <1>6
  <2> QED
    BY <1>4, <2>2, <2>3
<1> QED
  BY <1>5, <1>6 DEF EndsEnabled

\* The enable command of the fetch has been written.
EnableWritten == (pc = "enable" /\ waiting) \/ pc \in {"disconnect", "done"}

Spoiled == faulted \cap {"conn", "enable"} # {}

LeavesEnabled ==
  EnableWritten /\ ~Stopped /\ ~Spoiled => EndsEnabled(requests, enabled)

BrokenIsFault == conn = "broken" => "conn" \in faulted

RestartIInv == TypeInv /\ ClosedLast /\ BrokenIsFault /\ LeavesEnabled

LEMMA EndsSend ==
  ASSUME RestartIInv, SendCommand
  PROVE  RestartIInv'
<1>1. TypeInv' /\ ClosedLast' /\ BrokenIsFault'
  BY SendType DEF RestartIInv, SendCommand, Write, fetchVars, ClosedLast, BrokenIsFault
<1> SUFFICES LeavesEnabled'
  BY <1>1 DEF RestartIInv
<1>2. CASE pc # "enable"
  BY <1>2 DEF SendCommand, fetchVars, Exchanges, LeavesEnabled, EnableWritten
<1>3. CASE pc = "enable" /\ conn # "up"
  BY <1>3 DEF SendCommand, Write, RestartIInv, TypeInv, TypeOK, WireTypeOK, ClosedLast,
              BrokenIsFault, LeavesEnabled, Spoiled
<1>4. CASE pc = "enable" /\ conn = "up"
  <2> DEFINE q == [cmd |-> "enable", start |-> 0, n |-> 0,
                   id |-> NextReplyId(replyID), fresh |-> TRUE]
  <2>1. requests' = Append(Superseded(requests), q)
    BY <1>4 DEF SendCommand, Write, CmdOf
  <2>2. q \in Requests /\ q.cmd = "enable"
    BY NextReplyIdType DEF RestartIInv, TypeInv, TypeOK, WireTypeOK, Requests, Cmds
  <2>3. Superseded(requests) \in Seq(Requests)
    BY SupersededType DEF RestartIInv, TypeInv, TypeOK, WireTypeOK
  <2> HIDE DEF q
  <2>4. EndsEnabled(requests', enabled')
    BY <2>1, <2>2, <2>3, EnableAppended
  <2> QED
    BY <2>4 DEF LeavesEnabled
<1> QED
  BY <1>2, <1>3, <1>4

LEMMA EndsReturn ==
  ASSUME RestartIInv, ReturnStep
  PROVE  RestartIInv'
<1>1. TypeInv'
  BY TypeInvStep DEF RestartIInv, ReturnStep, Next, Server
<1>2. /\ pc \in Exchanges /\ waiting /\ ~waiting'
      /\ UNCHANGED <<conn, requests>> /\ faulted \subseteq faulted'
  BY ReturnStepReturns DEF Return
<1>3. UNCHANGED enabled
  BY DEF ReturnStep, GetDeviceTimeReturns, DisableReturns, ReadRecordsReturns,
         PrepareBufferReturns, ReadBufferReturns, FreeDataReturns, AttLogReturns,
         DataReturns, PlainFreeReturns, EnableReturns, deviceVars
<1>4. pc = "enable" \/ pc' \notin {"disconnect", "done"}
  BY DEF ReturnStep, GetDeviceTimeReturns, DisableReturns, ReadRecordsReturns,
         PrepareBufferReturns, ReadBufferReturns, FreeDataReturns, AttLogReturns,
         DataReturns, PlainFreeReturns, EnableReturns
<1>5. ~Stopped
  BY <1>2 DEF Stopped, Exchanges
<1>6. ClosedLast' /\ BrokenIsFault'
  BY <1>2 DEF RestartIInv, ClosedLast, BrokenIsFault, Exchanges
<1>7. LeavesEnabled'
  <2> SUFFICES ASSUME EnableWritten', ~Spoiled'
               PROVE  EndsEnabled(requests, enabled)'
    BY DEF LeavesEnabled
  <2>1. pc = "enable" /\ waiting
    BY <1>2, <1>4 DEF EnableWritten
  <2>2. ~Spoiled
    BY <1>2 DEF Spoiled
  <2> QED
    BY <1>2, <1>3, <1>5, <2>1, <2>2 DEF RestartIInv, LeavesEnabled, EnableWritten
<1> QED
  BY <1>1, <1>6, <1>7 DEF RestartIInv

LEMMA EndsDisconnect ==
  ASSUME RestartIInv, Disconnect
  PROVE  RestartIInv'
<1>1. TypeInv'
  BY DisconnectType DEF RestartIInv
<1>2. ClosedLast' /\ BrokenIsFault'
  BY DEF Disconnect, Close, ClosedLast, BrokenIsFault
<1>3. LeavesEnabled'
  <2> SUFFICES ASSUME ~Spoiled'
               PROVE  EndsEnabled(requests, enabled)'
    BY DEF LeavesEnabled
  <2>1. conn = "up"
    BY DEF Disconnect, Close, RestartIInv, TypeInv, TypeOK, WireTypeOK, BrokenIsFault,
           Spoiled
  <2>2. EndsEnabled(requests, enabled)
    BY DEF Disconnect, Close, RestartIInv, LeavesEnabled, EnableWritten, Stopped, Spoiled
  <2> DEFINE q == [cmd |-> "exit", start |-> 0, n |-> 0,
                   id |-> NextReplyId(replyID), fresh |-> FALSE]
  <2>3. requests' = Append(Superseded(requests), q) /\ enabled' = enabled
    BY <2>1 DEF Disconnect, Close, deviceVars
  <2>4. q \in Requests /\ q.cmd # "disable"
    BY NextReplyIdType DEF RestartIInv, TypeInv, TypeOK, WireTypeOK, Requests, Cmds
  <2>5. requests \in Seq(Requests) /\ Superseded(requests) \in Seq(Requests)
    BY SupersededType DEF RestartIInv, TypeInv, TypeOK, WireTypeOK
  <2> HIDE DEF q
  <2> QED
    BY <2>2, <2>3, <2>4, <2>5, SupersededEnds, OtherAppended
<1> QED
  BY <1>1, <1>2, <1>3 DEF RestartIInv

LEMMA EndsHandled ==
  ASSUME RestartIInv, DeviceHandles \/ DeviceIgnores
  PROVE  RestartIInv'
<1> DEFINE q == Head(requests)
<1>1. TypeInv'
  BY DeviceHandlesType, DeviceFailsType DEF RestartIInv
<1>2. /\ requests # <<>> /\ requests' = Tail(requests)
      /\ UNCHANGED <<conn, waiting, fetchVars>> /\ faulted \subseteq faulted'
  BY DEF DeviceHandles, DeviceIgnores, Handle, Ignore
<1>3. ClosedLast' /\ BrokenIsFault'
  BY <1>2 DEF RestartIInv, ClosedLast, BrokenIsFault, fetchVars
<1>4. /\ requests \in Seq(Requests) /\ enabled \in BOOLEAN /\ enabled' \in BOOLEAN
  BY <1>1 DEF RestartIInv, TypeInv, TypeOK, WireTypeOK
<1>5. /\ q.cmd = "enable" => enabled' \/ "enable" \in faulted'
      /\ q.cmd \notin {"enable", "disable"} => enabled' = enabled
  <2>1. CASE DeviceHandles
    <3>1. PICK a \in {ProperAnswer(q)} \cup FaultyAnswers(q) :
            /\ Handle(a, IF a = ProperAnswer(q) THEN 0 ELSE 1)
            /\ enabled' = IF a # ProperAnswer(q) THEN enabled
                          ELSE IF q.cmd = "disable" THEN FALSE
                          ELSE IF q.cmd = "enable" THEN TRUE
                          ELSE enabled
      BY <2>1 DEF DeviceHandles
    <3>2. a # ProperAnswer(q) => q.cmd \in faulted'
      BY <3>1 DEF Handle
    <3> HIDE DEF q
    <3> QED
      BY <3>1, <3>2
  <2>2. CASE DeviceIgnores
    BY <2>2 DEF DeviceIgnores, Ignore, deviceVars
  <2> QED
    BY <2>1, <2>2
<1>6. LeavesEnabled'
  <2> SUFFICES ASSUME EnableWritten', ~Stopped', ~Spoiled'
               PROVE  EndsEnabled(requests, enabled)'
    BY DEF LeavesEnabled
  <2>1. EndsEnabled(requests, enabled)
    BY <1>2 DEF RestartIInv, LeavesEnabled, EnableWritten, Stopped, Spoiled, fetchVars
  <2>2. "enable" \notin faulted'
    BY DEF Spoiled
  <2>3. /\ Head(requests).cmd = "enable" => enabled'
        /\ Head(requests).cmd \notin {"enable", "disable"} => enabled' = enabled
    BY <1>5, <2>2
  <2>4. EndsEnabled(Tail(requests), enabled')
    BY <1>2, <1>4, <2>1, <2>3, TailEnds
  <2> QED
    BY <1>2, <2>4
<1> QED
  BY <1>1, <1>3, <1>6 DEF RestartIInv

LEMMA EndsStopped ==
  ASSUME RestartIInv, ServerStops
  PROVE  RestartIInv'
<1>1. requests' \in Seq(Requests)
  <2>1. Superseded(requests) \in Seq(Requests)
    BY SupersededType DEF RestartIInv, TypeInv, TypeOK, WireTypeOK
  <2>2. <<>> \in Seq(Requests)
    OBVIOUS
  <2> QED
    BY <2>1, <2>2 DEF ServerStops
<1>2. replies' \in Seq(Replies)
  <2>1. <<>> \in Seq(Replies)
    OBVIOUS
  <2> QED
    BY <2>1 DEF ServerStops
<1>3. TypeInv'
  BY <1>1, <1>2 DEF ServerStops, deviceVars, RestartIInv, TypeInv, TypeOK, WireTypeOK,
                    ChunkLoop, Before
<1>4. ClosedLast' /\ BrokenIsFault' /\ LeavesEnabled'
  BY DEF ServerStops, ClosedLast, BrokenIsFault, LeavesEnabled, Stopped
<1> QED
  BY <1>3, <1>4 DEF RestartIInv

LEMMA EndsAgain ==
  ASSUME RestartIInv, FetchAgain
  PROVE  RestartIInv'
<1>1. UShortMax - 1 \in ReplyIds
  BY WireAssumption DEF ReplyIds
<1>2. NextReplyId(UShortMax - 1) \in ReplyIds
  BY <1>1, NextReplyIdType
<1>3. <<>> \in Seq(Replies) /\ <<>> \in Seq(Nat)
  OBVIOUS
<1>4. WireTypeOK'
  BY <1>2, <1>3 DEF FetchAgain, RestartIInv, TypeInv, TypeOK, WireTypeOK
<1>5. TypeInv'
  BY <1>3, <1>4 DEF FetchAgain, deviceVars, RestartIInv, TypeInv, TypeOK, ChunkLoop,
                    Before, Exchanges
<1>6. ClosedLast' /\ BrokenIsFault' /\ LeavesEnabled'
  BY DEF FetchAgain, ClosedLast, BrokenIsFault, LeavesEnabled, EnableWritten
<1> QED
  BY <1>5, <1>6 DEF RestartIInv

LEMMA RestartStep == RestartIInv /\ [RestartNext]_<<vars, restartVars>> => RestartIInv'
<1> SUFFICES ASSUME RestartIInv, [RestartNext]_<<vars, restartVars>>
             PROVE  RestartIInv'
  OBVIOUS
<1>1. CASE SendCommand \/ ReturnStep \/ Disconnect
  BY <1>1, EndsSend, EndsReturn, EndsDisconnect
<1>2. CASE DeviceHandles \/ DeviceIgnores
  BY <1>2, EndsHandled
<1>3. CASE ConnectionDrops
  BY <1>3, DeviceFailsType DEF ConnectionDrops, Drop, fetchVars, RestartIInv,
     ClosedLast, BrokenIsFault, LeavesEnabled, Spoiled
<1>4. CASE ServerStops \/ FetchAgain
  BY <1>4, EndsStopped, EndsAgain
<1>5. CASE UNCHANGED vars
  <2>1. TypeInv'
    BY <1>5, TypeInvStep DEF RestartIInv
  <2> QED
    BY <1>5, <2>1 DEF vars, wireVars, deviceVars, fetchVars, RestartIInv, ClosedLast,
       BrokenIsFault, LeavesEnabled, EnableWritten, Stopped, Spoiled
<1> QED
  BY <1>1, <1>2, <1>3, <1>4, <1>5
  DEF RestartNext, Next, Server, ReturnStep, Device, Finished

\* A device that a finished fetch leaves disabled has lost its connection or
\* failed the enable command, however often the server was stopped and started
\* before that fetch.
THEOREM EnablesAgain == RestartSpec => []EnabledAfterFetch
<1>1. RestartInit => RestartIInv
  <2> SUFFICES ASSUME RestartInit PROVE RestartIInv
    OBVIOUS
  <2>1. Init
    BY DEF RestartInit
  <2>2. TypeInv
    BY <2>1, InitType DEF Init, TypeInv, ChunkLoop
  <2> QED
    BY <2>1, <2>2 DEF Init, WireInit, RestartIInv, ClosedLast, BrokenIsFault,
       LeavesEnabled, EnableWritten
<1>2. RestartIInv => EnabledAfterFetch
  BY DEF RestartIInv, LeavesEnabled, EnableWritten, Spoiled, EndsEnabled,
         EnabledAfterFetch
<1> QED
  BY <1>1, <1>2, RestartStep, PTL DEF RestartSpec

-----------------------------------------------------------------------------
(* The session of DeviceSessions that a fetch implements (FetchSession).   *)
(* The three steps in which a session is more than used, and its loss.     *)

LEMMA Except ==
  ASSUME NEW a, NEW b
  PROVE  [[r \in {Fetch} |-> a] EXCEPT ![Fetch] = b] = [r \in {Fetch} |-> b]
OBVIOUS

ExitHeld == ExitPending /\ ~SlotLost

LEMMA SessionUnchanged ==
  ASSUME UNCHANGED <<FetchPhase, outcome, SlotLost, FetchSlot, ExitHeld>>
  PROVE  UNCHANGED Session!vars
<1>1. FetchFaults' = FetchFaults
  BY DEF FetchFaults
<1> QED
  BY <1>1 DEF Session!vars, ExitHeld

LEMMA SessionUsed ==
  ASSUME FetchPhase = "use", FetchPhase' = "hangup",
         outcome = "none", outcome' \in {"ok", "failed"},
         UNCHANGED <<SlotLost, FetchSlot, ExitHeld>>
  PROVE  Session!Next
<1>1. /\ outcome' = "ok" => FetchFaults' = FetchFaults
      /\ outcome' = "failed" => FetchFaults < 2 /\ FetchFaults' = FetchFaults + 1
      /\ FetchFaults' = FetchFaults + 1 => FetchFaults' > 0
  BY DEF FetchFaults
<1>2. Session!Use(Fetch)
  BY <1>1, Except DEF Session!Use, Session!Enter, Session!Fault, Session!NoFault,
     Session!faultVars, Session!requestVars, Session!deviceVars, ExitHeld
<1> QED
  BY <1>2 DEF Session!Next, Session!Run

LEMMA SessionHungUp ==
  ASSUME FetchPhase = "hangup", FetchPhase' = "return", ~ExitHeld,
         UNCHANGED <<outcome, SlotLost, FetchSlot>>,
         FetchSlot \in {Fetch, "stale"}, ExitHeld' <=> FetchSlot = Fetch
  PROVE  Session!Next
<1>1. FetchFaults' = FetchFaults
  BY DEF FetchFaults
<1>2. Session!Hangup(Fetch)
  BY <1>1, Except DEF Session!Hangup, Session!Enter, Session!requestVars,
     Session!faultVars, ExitHeld
<1> QED
  BY <1>2 DEF Session!Next, Session!Run

LEMMA SessionEnded ==
  ASSUME UNCHANGED <<FetchPhase, outcome, SlotLost>>, ExitHeld, ~ExitHeld',
         FetchSlot = Fetch, FetchSlot' = "free"
  PROVE  Session!Next
<1>1. FetchFaults' = FetchFaults
  BY DEF FetchFaults
<1>2. Session!HandleExit(Fetch)
  BY <1>1 DEF Session!HandleExit, Session!requestVars, Session!faultVars, ExitHeld
<1> QED
  BY <1>2 DEF Session!Next

LEMMA SessionLost ==
  ASSUME UNCHANGED <<FetchPhase, outcome>>, ~SlotLost, SlotLost',
         FetchPhase \in {"use", "hangup"} \/ ExitHeld,
         FetchSlot = Fetch, FetchSlot' = "stale"
  PROVE  Session!Next
<1>1. FetchFaults < 2 /\ FetchFaults' = FetchFaults + 1 /\ FetchFaults' > 0
  BY DEF FetchFaults
<1>2. Session!Lose(Fetch)
  BY <1>1 DEF Session!Lose, Session!Fault, Session!requestVars, ExitHeld
<1> QED
  BY <1>2 DEF Session!Next

\* CMD_EXIT is the last command written, and written by the last step only.
ExitLast ==
  \A i \in 1 .. Len(requests) :
    requests[i].cmd = "exit" <=> pc = "done" /\ i = Len(requests)

SessionIInv ==
  /\ TypeInv
  /\ pc = "done" <=> conn = "closed"
  /\ BrokenIsFault
  /\ pc \in Exchanges => outcome = "none"
  /\ ~SlotLost => ExitLast

SessionStep == Session!Next \/ UNCHANGED Session!vars

LEMMA SupersededCmd ==
  ASSUME NEW reqs \in Seq(Requests)
  PROVE  /\ Superseded(reqs) \in Seq(Requests) /\ Len(Superseded(reqs)) = Len(reqs)
         /\ \A i \in 1 .. Len(reqs) : Superseded(reqs)[i].cmd = reqs[i].cmd
<1>1. Superseded(reqs) \in Seq(Requests) /\ Len(Superseded(reqs)) = Len(reqs)
  BY SupersededType
<1>2. ASSUME NEW i \in 1 .. Len(reqs)
      PROVE  Superseded(reqs)[i].cmd = reqs[i].cmd
  <2>1. reqs[i] \in Requests
    BY ElementOfSeq
  <2> QED
    BY <2>1 DEF Superseded, Requests
<1> QED
  BY <1>1, <1>2

LEMMA SessionSend ==
  ASSUME SessionIInv, SendCommand
  PROVE  SessionIInv' /\ SessionStep
<1>1. TypeInv' /\ requests \in Seq(Requests)
  BY SendType DEF SessionIInv, TypeInv, TypeOK, WireTypeOK
<1>2. UNCHANGED <<conn, faulted, fetchVars>> /\ pc \in Exchanges
  BY DEF SendCommand, Write
<1>3. UNCHANGED SlotLost
  BY <1>2 DEF SlotLost
<1>4. SessionStep
  <2>1. UNCHANGED <<FetchPhase, outcome, FetchSlot, ExitHeld>>
    BY <1>2, <1>3 DEF fetchVars, FetchPhase, FetchSlot, ExitHeld, ExitPending, Exchanges
  <2> QED
    BY <1>3, <2>1, SessionUnchanged DEF SessionStep
<1>5. ASSUME ~SlotLost PROVE ExitLast'
  <2>1. pc # "done" /\ conn = "up" /\ ExitLast
    BY <1>2, <1>5 DEF SessionIInv, TypeInv, TypeOK, WireTypeOK, BrokenIsFault,
                      SlotLost, Exchanges
  <2>2. PICK q : q.cmd # "exit" /\ requests' = Append(Superseded(requests), q)
    <3>1. \E cmd \in Exchanges : \E start, n :
            requests' = Append(Superseded(requests),
                               [cmd |-> cmd, start |-> start, n |-> n,
                                id |-> NextReplyId(replyID), fresh |-> TRUE])
      BY <2>1 DEF SendCommand, Write, CmdOf, Exchanges
    <3> QED
      BY <3>1 DEF Exchanges
  <2> DEFINE s == Superseded(requests)
  <2>3. /\ s \in Seq(Requests) /\ Len(s) = Len(requests)
        /\ \A i \in 1 .. Len(s) : s[i].cmd # "exit"
    BY <1>1, <2>1, SupersededCmd DEF ExitLast
  <2>4. s \in Seq(Requests \cup {q})
    BY <2>3
  <2> HIDE DEF s
  <2>5. /\ Len(requests') = Len(s) + 1 /\ requests'[Len(s) + 1] = q
        /\ \A i \in 1 .. Len(s) : requests'[i] = s[i]
    BY <2>2, <2>4, AppendProperties DEF s
  <2> QED
    BY <1>2, <2>1, <2>2, <2>3, <2>4, <2>5 DEF ExitLast, fetchVars
<1> QED
  BY <1>1, <1>2, <1>3, <1>4, <1>5 DEF SessionIInv, BrokenIsFault, fetchVars

LEMMA SessionReturn ==
  ASSUME SessionIInv, ReturnStep
  PROVE  SessionIInv' /\ SessionStep
<1>1. TypeInv'
  BY TypeInvStep DEF SessionIInv, ReturnStep, Next, Server
<1>2. /\ pc \in Exchanges /\ UNCHANGED <<conn, requests>>
      /\ faulted' \in {faulted, faulted \cup {CmdOf(pc)}}
  BY ReturnStepReturns DEF Return
<1>3. CmdOf(pc) \notin {"conn", "exit"}
  BY <1>2 DEF CmdOf, Exchanges
<1>4. UNCHANGED SlotLost
  BY <1>2, <1>3 DEF SlotLost
<1>5. \/ pc' \in Exchanges /\ UNCHANGED outcome
      \/ pc' = "disconnect" /\ outcome' \in {"ok", "failed"}
  BY DEF ReturnStep, GetDeviceTimeReturns, DisableReturns, ReadRecordsReturns,
         PrepareBufferReturns, ReadBufferReturns, FreeDataReturns, AttLogReturns,
         DataReturns, PlainFreeReturns, EnableReturns, Exchanges
<1>6. pc # "done" /\ pc' # "done" /\ FetchPhase = "use" /\ outcome = "none"
  BY <1>2, <1>5 DEF SessionIInv, FetchPhase, Exchanges
<1>7. UNCHANGED <<FetchSlot, ExitHeld>>
  BY <1>4, <1>6 DEF FetchSlot, ExitHeld, ExitPending
<1>8. ASSUME pc' \in Exchanges PROVE SessionStep
  <2>1. FetchPhase' = "use"
    BY <1>8 DEF FetchPhase, Exchanges
  <2>2. UNCHANGED outcome
    BY <1>5, <1>8 DEF Exchanges
  <2> QED
    BY <1>4, <1>6, <1>7, <2>1, <2>2, SessionUnchanged DEF SessionStep
<1>9. ASSUME pc' = "disconnect", outcome' \in {"ok", "failed"}
      PROVE  SessionStep
  <2>1. FetchPhase' = "hangup"
    BY <1>9 DEF FetchPhase
  <2> QED
    BY <1>4, <1>6, <1>7, <1>9, <2>1, SessionUsed DEF SessionStep
<1>10. SessionStep
  BY <1>5, <1>8, <1>9
<1>11. ~SlotLost' => ExitLast'
  BY <1>2, <1>4, <1>6 DEF SessionIInv, ExitLast
<1>12. SessionIInv'
  BY <1>1, <1>2, <1>5, <1>6, <1>11 DEF SessionIInv, BrokenIsFault, Exchanges
<1> QED
  BY <1>10, <1>12

LEMMA SessionDisconnect ==
  ASSUME SessionIInv, Disconnect
  PROVE  SessionIInv' /\ SessionStep
<1>1. TypeInv' /\ requests \in Seq(Requests)
  BY DisconnectType DEF SessionIInv, TypeInv, TypeOK, WireTypeOK
<1>2. /\ pc = "disconnect" /\ pc' = "done" /\ conn' = "closed"
      /\ UNCHANGED <<faulted, outcome>>
  BY DEF Disconnect, Close
<1>3. UNCHANGED SlotLost
  BY <1>2 DEF SlotLost
<1>4. ASSUME ~SlotLost
      PROVE  requests' # <<>> /\ ExitLast'
  <2>1. conn = "up" /\ ExitLast
    BY <1>2, <1>4 DEF SessionIInv, TypeInv, TypeOK, WireTypeOK, BrokenIsFault, SlotLost
  <2> DEFINE q == [cmd |-> "exit", start |-> 0, n |-> 0,
                   id |-> NextReplyId(replyID), fresh |-> FALSE]
             s == Superseded(requests)
  <2>2. requests' = Append(s, q) /\ q.cmd = "exit"
    BY <2>1 DEF Disconnect, Close
  <2>3. /\ s \in Seq(Requests) /\ Len(s) = Len(requests) /\ Len(s) \in Nat
        /\ \A i \in 1 .. Len(s) : s[i].cmd # "exit"
    BY <1>1, <1>2, <2>1, SupersededCmd DEF ExitLast
  <2>4. s \in Seq(Requests \cup {q})
    BY <2>3
  <2> HIDE DEF s, q
  <2>5. /\ Len(requests') = Len(s) + 1 /\ requests'[Len(s) + 1] = q
        /\ \A i \in 1 .. Len(s) : requests'[i] = s[i]
    BY <2>2, <2>4, AppendProperties
  <2>6. ASSUME NEW i \in 1 .. Len(requests')
        PROVE  requests'[i].cmd = "exit" <=> i = Len(requests')
    <3>1. i \in 1 .. Len(s) \/ i = Len(s) + 1
      BY <2>3, <2>5
    <3> QED
      BY <2>2, <2>3, <2>5, <3>1
  <2>7. ExitLast'
    BY <1>2, <2>6 DEF ExitLast
  <2>8. requests' # <<>>
    BY <2>3, <2>5
  <2> QED
    BY <2>7, <2>8
<1>5. SessionIInv'
  BY <1>1, <1>2, <1>3, <1>4 DEF SessionIInv, BrokenIsFault, Exchanges
<1>6. FetchPhase = "hangup" /\ FetchPhase' = "return"
  BY <1>2 DEF FetchPhase
<1>7. ~ExitHeld /\ (FetchSlot = IF SlotLost THEN "stale" ELSE Fetch)
  BY <1>2 DEF ExitHeld, ExitPending, FetchSlot
<1>8. ExitHeld' <=> ~SlotLost
  BY <1>2, <1>3, <1>4 DEF ExitHeld, ExitPending
<1>9. UNCHANGED FetchSlot
  BY <1>3, <1>7, <1>8 DEF FetchSlot, ExitHeld
<1>10. Fetch # "stale"
  BY DEF Fetch
<1> QED
  BY <1>2, <1>3, <1>5, <1>6, <1>7, <1>8, <1>9, <1>10, SessionHungUp DEF SessionStep

\* The device takes the oldest request: CMD_EXIT when nothing follows it.
LEMMA SessionHandled ==
  ASSUME SessionIInv, DeviceHandles \/ DeviceIgnores
  PROVE  SessionIInv' /\ SessionStep
<1> DEFINE cmd == Head(requests).cmd
<1>1. TypeInv'
  BY DeviceHandlesType, DeviceFailsType DEF SessionIInv
<1>2. /\ requests # <<>> /\ requests' = Tail(requests)
      /\ UNCHANGED <<conn, fetchVars>> /\ conn # "broken"
      /\ faulted' \in {faulted, faulted \cup {cmd}}
  BY DEF DeviceHandles, DeviceIgnores, Handle, Ignore
<1>3. requests \in Seq(Requests)
  BY DEF SessionIInv, TypeInv, TypeOK, WireTypeOK
<1>4. /\ Len(requests) \in Nat \ {0} /\ Len(requests') = Len(requests) - 1
      /\ requests[1] = Head(requests)
      /\ \A i \in 1 .. Len(requests) - 1 : requests'[i] = requests[i + 1]
      /\ requests' = <<>> <=> Len(requests) = 1
      /\ Head(requests) \in Requests
  <2>1. /\ Tail(requests) \in Seq(Requests) /\ Len(Tail(requests)) = Len(requests) - 1
        /\ Head(requests) \in Requests
        /\ \A i \in 1 .. Len(requests) - 1 : Tail(requests)[i] = requests[i + 1]
    BY <1>2, <1>3, HeadTailProperties
  <2>2. Len(requests) \in Nat \ {0} /\ requests[1] = Head(requests)
    BY <1>2, <1>3, HeadTailProperties, EmptySeq
  <2>3. Tail(requests) = <<>> <=> Len(Tail(requests)) = 0
    BY <2>1, EmptySeq
  <2> QED
    BY <1>2, <2>1, <2>2, <2>3
<1>5. cmd # "conn" /\ (SlotLost => SlotLost')
  BY <1>2, <1>4 DEF SlotLost, Requests, Cmds
<1>6. UNCHANGED <<FetchPhase, outcome, pc>>
  BY <1>2 DEF fetchVars, FetchPhase
<1>7. ASSUME ~SlotLost'
      PROVE  ExitLast'
  <2>1. ExitLast
    BY <1>5, <1>7 DEF SessionIInv
  <2>2. ASSUME NEW i \in 1 .. Len(requests')
        PROVE  requests'[i].cmd = "exit" <=> pc' = "done" /\ i = Len(requests')
    <3>1. i \in 1 .. Len(requests) - 1 /\ i + 1 \in 1 .. Len(requests)
      BY <1>4
    <3>2. requests'[i] = requests[i + 1]
      BY <1>4, <3>1
    <3>3. requests[i + 1].cmd = "exit" <=> pc = "done" /\ i + 1 = Len(requests)
      BY <2>1, <3>1 DEF ExitLast
    <3> QED
      BY <1>4, <1>6, <3>1, <3>2, <3>3
  <2> QED
    BY <2>2 DEF ExitLast
<1>8. SessionIInv'
  BY <1>1, <1>2, <1>5, <1>6, <1>7 DEF SessionIInv, BrokenIsFault
<1>9. ASSUME SlotLost PROVE SessionStep
  <2>1. UNCHANGED <<SlotLost, FetchSlot, ExitHeld>>
    BY <1>5, <1>9 DEF FetchSlot, ExitHeld
  <2> QED
    BY <1>6, <2>1, SessionUnchanged DEF SessionStep
<1>10. ASSUME ~SlotLost PROVE cmd = "exit" <=> pc = "done" /\ requests' = <<>>
  BY <1>4, <1>10 DEF SessionIInv, ExitLast
<1>11. ASSUME ~SlotLost, cmd # "exit" PROVE SessionStep
  <2>1. UNCHANGED SlotLost
    BY <1>2, <1>5, <1>11 DEF SlotLost
  <2>2. pc # "done" \/ requests' # <<>>
    BY <1>10, <1>11
  <2>3. UNCHANGED <<FetchSlot, ExitHeld>>
    BY <1>2, <1>6, <1>11, <2>1, <2>2 DEF FetchSlot, ExitHeld, ExitPending
  <2> QED
    BY <1>6, <1>11, <2>1, <2>3, SessionUnchanged DEF SessionStep
<1>12. ASSUME ~SlotLost, cmd = "exit" PROVE SessionStep
  <2>1. pc = "done" /\ requests' = <<>> /\ pc' = "done" /\ conn' = "closed"
    BY <1>2, <1>6, <1>10, <1>12 DEF SessionIInv
  <2>2. ExitHeld /\ ~ExitHeld' /\ FetchSlot = Fetch
    BY <1>2, <1>12, <2>1 DEF ExitHeld, ExitPending, FetchSlot
  <2>3. FetchSlot' = IF SlotLost' THEN "stale" ELSE "free"
    BY <2>1 DEF FetchSlot, ExitPending
  <2>4. CASE SlotLost'
    BY <1>6, <1>12, <2>2, <2>3, <2>4, SessionLost DEF SessionStep
  <2>5. CASE ~SlotLost'
    <3>1. UNCHANGED SlotLost
      BY <1>12, <2>5 DEF SlotLost
    <3> QED
      BY <1>6, <2>2, <2>3, <2>5, <3>1, SessionEnded DEF SessionStep
  <2> QED
    BY <2>4, <2>5
<1> QED
  BY <1>8, <1>9, <1>11, <1>12

LEMMA SessionDrops ==
  ASSUME SessionIInv, ConnectionDrops
  PROVE  SessionIInv' /\ SessionStep
<1>1. TypeInv'
  BY DeviceFailsType DEF SessionIInv
<1>2. /\ conn = "up" /\ conn' = "broken" /\ faulted' = faulted \cup {"conn"}
      /\ UNCHANGED fetchVars
  BY DEF ConnectionDrops, Drop
<1>3. pc # "done" /\ pc' # "done" /\ SlotLost'
  BY <1>2 DEF SessionIInv, fetchVars, SlotLost
<1>4. SessionIInv'
  BY <1>1, <1>2, <1>3 DEF SessionIInv, BrokenIsFault, fetchVars
<1>5. UNCHANGED <<FetchPhase, outcome>> /\ FetchPhase \in {"use", "hangup"}
  BY <1>2, <1>3 DEF fetchVars, FetchPhase
<1>6. ~ExitHeld /\ ~ExitHeld' /\ FetchSlot' = "stale"
      /\ FetchSlot = IF SlotLost THEN "stale" ELSE Fetch
  BY <1>3 DEF ExitHeld, ExitPending, FetchSlot
<1>7. ASSUME SlotLost PROVE SessionStep
  <2>1. UNCHANGED <<SlotLost, ExitHeld>>
    BY <1>3, <1>6, <1>7 DEF SlotLost, ExitHeld
  <2> QED
    BY <1>5, <1>6, <1>7, <2>1, SessionUnchanged DEF SessionStep
<1>8. ASSUME ~SlotLost PROVE SessionStep
  BY <1>3, <1>5, <1>6, <1>8, SessionLost DEF SessionStep
<1> QED
  BY <1>4, <1>7, <1>8

LEMMA SessionKept == SessionIInv /\ [Next]_vars => SessionIInv' /\ SessionStep
<1> SUFFICES ASSUME SessionIInv, [Next]_vars PROVE SessionIInv' /\ SessionStep
  OBVIOUS
<1>1. CASE SendCommand \/ ReturnStep \/ Disconnect
  BY <1>1, SessionSend, SessionReturn, SessionDisconnect
<1>2. CASE Device
  BY <1>2, SessionHandled, SessionDrops DEF Device
<1>3. CASE UNCHANGED vars
  <2>1. SessionIInv'
    BY <1>3, TypeInvStep DEF vars, wireVars, fetchVars, SessionIInv, BrokenIsFault,
       ExitLast, SlotLost
  <2>2. SessionStep
    BY <1>3, SessionUnchanged DEF vars, wireVars, fetchVars, FetchPhase, SlotLost,
       FetchSlot, ExitHeld, ExitPending, SessionStep
  <2> QED
    BY <2>1, <2>2
<1> QED
  BY <1>1, <1>2, <1>3 DEF Next, Server, ReturnStep, Finished

\* Every step of a fetch is a step of the session that DeviceSessions describes,
\* or none: it is used until its one outcome is known, hung up once, and its
\* slot is given back when the device handles CMD_EXIT, or lost.
THEOREM SessionImplemented == Spec => KeepsSession
<1>1. Init => SessionIInv
  <2> SUFFICES ASSUME Init PROVE SessionIInv
    OBVIOUS
  <2>1. TypeInv
    BY InitType DEF Init, TypeInv, ChunkLoop
  <2>2. requests = <<>> /\ pc = "getTime" /\ conn = "up" /\ outcome = "none"
    BY DEF Init, WireInit
  <2> QED
    BY <2>1, <2>2 DEF SessionIInv, BrokenIsFault, ExitLast
<1>2. SessionStep => [Session!Next]_(Session!vars)
  BY DEF SessionStep
<1> QED
  BY <1>1, <1>2, SessionKept, PTL DEF Spec, KeepsSession

=============================================================================
