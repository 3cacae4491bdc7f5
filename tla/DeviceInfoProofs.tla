-------------------------- MODULE DeviceInfoProofs --------------------------
(***************************************************************************)
(* Theorems about DeviceInfo, for every wrap of the reply ids and any      *)
(* number of faults: which option's value a field can have, and what late  *)
(* and failed reads cost.                                                  *)
(***************************************************************************)
EXTENDS DeviceInfo, ZKWireProofs, FiniteSetTheorems

-----------------------------------------------------------------------------
(* The way: the frames under way in the order in which the server will     *)
(* read them, answers first, each with the option whose value it carries   *)
(* or may come to carry.                                                   *)

FrameValue(f) == IF IsFragment(f) THEN Blank ELSE ParseOption(f.data)

RequestValue(q) == IF q.cmd = "options" THEN q.start ELSE Blank

Way ==
  [i \in 1 .. InFlight |->
     IF i <= Len(replies) THEN FrameValue(replies[i])
     ELSE RequestValue(requests[i - Len(replies)])]

\* The values come in the order of the options, behind those already read, and
\* none is further behind the option being asked for than its place on the way
\* and the late answers explain.
Behind(i) ==
  /\ Way[i] <= asked
  /\ ~waiting => Way[i] < asked
  /\ asked + i <= late + 1 + Way[i]
  /\ \A j \in 1 .. i - 1 : Way[j] < Way[i]
  /\ \A k \in Options : field[k] \in Options => field[k] < Way[i]

WayInv ==
  pc = "ask" =>
    \A i \in 1 .. InFlight :
      /\ Way[i] \in Options \cup {Blank}
      /\ Way[i] # Blank => Behind(i)

\* The fields not read yet are blank, and the session is closed last.
Unread ==
  /\ pc = "ask" => \A k \in Options : k >= asked => field[k] = Blank
  /\ conn = "closed" => pc = "done"

LagIInv == TypeOK /\ FlightInv /\ WayInv /\ Unread /\ FieldsLag

LEMMA OptionsAre ==
  /\ Options = 1 .. 4 /\ Blank = 0 /\ ConfigName = 5
  /\ Serial = 1 /\ Name = 2 /\ Platform = 3 /\ Firmware = 4
BY DEF Options, Serial, Name, Platform, Firmware, Blank, ConfigName

LEMMA Closer ==
  ASSUME NEW a \in Int, NEW b \in Int, NEW i \in Int, NEW j \in Int,
         NEW l \in Int, NEW m \in Int, NEW w \in Int,
         a + j <= l + 1 + w, b + i + l <= a + j + m
  PROVE  b + i <= m + 1 + w
OBVIOUS

LEMMA Lengths ==
  ASSUME WireTypeOK
  PROVE  /\ replies \in Seq(Replies) /\ requests \in Seq(Requests)
         /\ Len(replies) \in Nat /\ Len(requests) \in Nat
         /\ InFlight = Len(requests) + Len(replies) /\ InFlight \in Nat
BY DEF WireTypeOK, InFlight

\* A step that takes frames off the way, or blanks them, and moves on to the
\* next option no faster than the way moves up keeps the order.
LEMMA WayKept ==
  ASSUME TypeOK, WayInv, pc = "ask", asked' \in Options, late' \in Nat, InFlight \in Nat,
         InFlight' \in Nat, field' \in [Options -> Options \cup {Blank, ConfigName}],
         NEW src \in [1 .. InFlight' -> 1 .. InFlight],
         \A i \in 1 .. InFlight' :
           /\ Way'[i] \in {Way[src[i]], Blank}
           /\ asked' + i + late <= asked + src[i] + late'
           /\ \A j \in 1 .. i - 1 : src[j] < src[i],
         asked' > asked \/ UNCHANGED <<asked, waiting>>,
         \A k \in Options :
           \/ field'[k] = field[k]
           \/ \A i \in 1 .. InFlight' : Way'[i] # Blank => field'[k] < Way'[i]
  PROVE  WayInv'
<1> SUFFICES ASSUME NEW i \in 1 .. InFlight'
             PROVE  /\ Way'[i] \in Options \cup {Blank}
                    /\ Way'[i] # Blank => Behind(i)'
  BY DEF WayInv
<1>0. asked \in 1 .. 4 /\ asked' \in 1 .. 4 /\ late \in Nat
  BY OptionsAre DEF TypeOK, WireTypeOK
<1>1. src[i] \in 1 .. InFlight /\ Way'[i] \in {Way[src[i]], Blank}
  OBVIOUS
<1>2. Way[src[i]] \in Options \cup {Blank}
  BY <1>1 DEF WayInv
<1>3. ASSUME Way'[i] # Blank
      PROVE  Behind(i)'
  <2>1. PICK w \in 1 .. 4 :
          /\ Way'[i] = w /\ Way[src[i]] = w
          /\ w <= asked /\ (~waiting => w < asked)
          /\ asked + src[i] <= late + 1 + w
          /\ \A j \in 1 .. src[i] - 1 : Way[j] < w
          /\ \A k \in Options : field[k] \in Options => field[k] < w
    <3>1. Way'[i] = Way[src[i]] /\ Way'[i] \in 1 .. 4
      BY <1>1, <1>2, <1>3, OptionsAre
    <3>2. Behind(src[i])
      BY <1>1, <1>3, <3>1 DEF WayInv
    <3> QED
      BY <3>1, <3>2 DEF Behind
  <2>0. /\ w \in Int /\ asked \in Int /\ asked' \in Int /\ late \in Int
        /\ w <= asked /\ asked + src[i] <= late + 1 + w
    BY <1>0, <2>1
  <2>2. w <= asked' /\ (~waiting' => w < asked')
    <3>1. CASE asked' > asked
      BY ONLY <2>0, <3>1
    <3>2. CASE UNCHANGED <<asked, waiting>>
      BY ONLY <2>1, <3>2
    <3> QED
      BY <3>1, <3>2
  <2>3. asked' + i <= late' + 1 + w
    <3>1. asked' + i + late <= asked + src[i] + late'
      OBVIOUS
    <3>2. i \in Int /\ src[i] \in Int /\ late' \in Int
      BY <1>1
    <3> QED
      BY ONLY <2>0, <3>1, <3>2, Closer
  <2>4. ASSUME NEW j \in 1 .. i - 1
        PROVE  Way'[j] < w
    <3>1. j \in 1 .. InFlight' /\ src[j] < src[i] /\ src[j] \in 1 .. InFlight
      OBVIOUS
    <3>2. Way'[j] \in {Way[src[j]], Blank}
      BY <3>1
    <3>3. src[j] \in 1 .. src[i] - 1
      BY <1>1, <3>1
    <3>4. Way[src[j]] < w
      BY <2>1, <3>3
    <3>5. CASE Way'[j] = Blank
      BY <2>1, <3>5, OptionsAre
    <3> QED
      BY <3>2, <3>4, <3>5
  <2>5. ASSUME NEW k \in Options, field'[k] \in Options
        PROVE  field'[k] < w
    <3>1. CASE field'[k] = field[k]
      BY <2>1, <2>5, <3>1
    <3>2. CASE field'[k] # field[k]
      BY <1>3, <2>1, <3>2
    <3> QED
      BY <3>1, <3>2
  <2> QED
    BY <2>1, <2>2, <2>3, <2>4, <2>5 DEF Behind
<1> QED
  BY <1>1, <1>2, <1>3

-----------------------------------------------------------------------------
(* The device's steps                                                      *)

LEMMA AnswersType ==
  ASSUME NEW q \in Requests
  PROVE  ProperAnswer(q) \in Answers /\ Refusal \in Answers
<1>1. <<>> \in Seq(Nat) /\ <<Blank>> \in Seq(Nat) /\ <<q.start>> \in Seq(Nat)
  BY OptionsAre DEF Requests
<1>2. ProperAnswer(q).data \in Seq(Nat)
  BY <1>1 DEF ProperAnswer
<1> QED
  BY <1>1, <1>2 DEF ProperAnswer, Refusal, Answers, Codes

\* What the answer to q carries is what q may come to carry, or nothing.
LEMMA AnswerValue ==
  ASSUME NEW q \in Requests, NEW a \in {ProperAnswer(q), Refusal}, NEW f,
         f.ans = q.cmd, f.data = a.data
  PROVE  FrameValue(f) \in {RequestValue(q), Blank}
<1>1. ~IsFragment(f)
  BY DEF IsFragment, Requests, Cmds
<1>2. a.data = <<>> \/ a.data = <<Blank>>
      \/ (q.cmd = "options" /\ a.data = <<q.start>>)
  BY DEF ProperAnswer, Refusal
<1>3. \A v : <<v>> # <<>> /\ <<v>>[1] = v
  OBVIOUS
<1> QED
  BY <1>1, <1>2, <1>3 DEF FrameValue, ParseOption, RequestValue

LEMMA WayHandles ==
  ASSUME LagIInv, DeviceHandles
  PROVE  LagIInv'
<1> DEFINE q == Head(requests)
           n == Len(replies)
<1>1. /\ TypeOK /\ WireTypeOK /\ FlightInv /\ WayInv /\ Unread /\ requests # <<>>
      /\ UNCHANGED <<blank, asked, field, pc>>
  BY DEF LagIInv, TypeOK, DeviceHandles
<1>2. q \in Requests
  BY <1>1, HeadTailProperties DEF WireTypeOK
<1>3. PICK a \in {ProperAnswer(q), Refusal}, cost \in {0, 1} : Handle(a, cost)
  BY DEF DeviceHandles
<1>4. a \in Answers
  BY <1>2, <1>3, AnswersType
<1>5. WireTypeOK' /\ FlightInv'
  BY <1>1, <1>3, <1>4, HandleType, HandleFlight
<1>6. UNCHANGED <<conn, waiting, late>>
  BY <1>3 DEF Handle
<1>7. TypeOK' /\ Unread' /\ FieldsLag'
  BY <1>1, <1>5, <1>6 DEF LagIInv, TypeOK, Unread, FieldsLag
<1>8. WayInv'
  <2> SUFFICES ASSUME pc = "ask" PROVE WayInv'
    BY <1>1 DEF WayInv
  <2> DEFINE f == [ans |-> q.cmd, code |-> a.code, data |-> a.data, size |-> a.size,
                   id |-> q.id, fresh |-> q.fresh]
  <2>1. conn = "up" /\ replies' = Append(replies, f) /\ requests' = Tail(requests)
    BY <1>1, <1>3 DEF Handle, Unread, WireTypeOK
  <2>2. /\ replies \in Seq(Replies) /\ n \in Nat /\ Len(requests) \in Nat \ {0}
        /\ InFlight = Len(requests) + n
        /\ Len(Tail(requests)) = Len(requests) - 1
        /\ q = requests[1]
        /\ \A i \in 1 .. Len(requests) - 1 : Tail(requests)[i] = requests[i + 1]
    BY <1>1, Lengths, HeadTailProperties, EmptySeq
  <2>3. replies \in Seq(Replies \cup {f})
    BY <2>2
  <2>4. FrameValue(f) \in {RequestValue(q), Blank}
    BY <1>2, <1>3, AnswerValue
  <2> HIDE DEF f, q, n
  <2>5. /\ Len(replies') = n + 1 /\ replies'[n + 1] = f
        /\ \A i \in 1 .. n : replies'[i] = replies[i]
    BY <2>1, <2>3, AppendProperties DEF n
  <2>6. InFlight' = InFlight /\ InFlight \in Nat
    <3>1. InFlight' = (Len(requests) - 1) + (n + 1)
      BY <2>1, <2>2, <2>5 DEF InFlight
    <3>2. InFlight = Len(requests) + n /\ n \in Nat /\ Len(requests) \in Nat
      BY <2>2
    <3> QED
      BY ONLY <3>1, <3>2
  <2>7. ASSUME NEW i \in 1 .. InFlight
        PROVE  Way'[i] \in {Way[i], Blank}
    <3>1. /\ Way[i] = IF i <= n THEN FrameValue(replies[i])
                      ELSE RequestValue(requests[i - n])
          /\ Way'[i] = IF i <= n + 1 THEN FrameValue(replies'[i])
                       ELSE RequestValue(requests'[i - (n + 1)])
      BY <2>5, <2>6 DEF Way, n
    <3>2. CASE i <= n
      <4>1. i \in 1 .. n /\ i <= n + 1
        BY <2>2, <3>2
      <4> QED
        BY <2>5, <3>1, <3>2, <4>1
    <3>3. CASE i = n + 1
      <4>1. ~(i <= n) /\ i - n = 1 /\ i <= n + 1
        BY <2>2, <3>3
      <4> QED
        BY <2>2, <2>4, <2>5, <3>1, <3>3, <4>1
    <3>4. CASE i > n + 1
      <4>1. /\ ~(i <= n) /\ ~(i <= n + 1) /\ i - (n + 1) \in 1 .. Len(requests) - 1
            /\ i - (n + 1) + 1 = i - n
        BY <2>2, <3>4
      <4>2. requests'[i - (n + 1)] = requests[i - n]
        BY <2>1, <2>2, <4>1
      <4> QED
        BY <3>1, <4>1, <4>2
    <3> QED
      BY <2>2, <3>2, <3>3, <3>4
  <2> DEFINE src == [i \in 1 .. InFlight' |-> i]
  <2>8. /\ src \in [1 .. InFlight' -> 1 .. InFlight]
        /\ \A i \in 1 .. InFlight' :
             /\ Way'[i] \in {Way[src[i]], Blank}
             /\ asked' + i + late <= asked + src[i] + late'
             /\ \A j \in 1 .. i - 1 : src[j] < src[i]
    <3>1. asked \in Int /\ late \in Int
      BY <1>1, OptionsAre DEF TypeOK, WireTypeOK
    <3> QED
      BY <1>1, <1>6, <2>6, <2>7, <3>1
  <2> HIDE DEF src
  <2> QED
    BY <1>1, <1>6, <1>7, <2>6, <2>8, WayKept DEF TypeOK, WireTypeOK
<1> QED
  BY <1>5, <1>7, <1>8 DEF LagIInv

LEMMA WayIgnored ==
  ASSUME LagIInv, DeviceIgnores
  PROVE  LagIInv'
<1> DEFINE n == Len(replies)
<1>1. /\ TypeOK /\ WireTypeOK /\ FlightInv /\ WayInv /\ Unread /\ requests # <<>>
      /\ requests' = Tail(requests)
      /\ UNCHANGED <<conn, waiting, replies, late, blank, asked, field, pc>>
  BY DEF LagIInv, TypeOK, DeviceIgnores, Ignore
<1>2. WireTypeOK' /\ FlightInv'
  BY <1>1, IgnoreType, IgnoreFlight DEF DeviceIgnores
<1>3. TypeOK' /\ Unread' /\ FieldsLag'
  BY <1>1, <1>2 DEF LagIInv, TypeOK, Unread, FieldsLag
<1>4. WayInv'
  <2> SUFFICES ASSUME pc = "ask" PROVE WayInv'
    BY <1>1 DEF WayInv
  <2>1. /\ n \in Nat /\ Len(requests) \in Nat \ {0}
        /\ InFlight = Len(requests) + n
        /\ Len(Tail(requests)) = Len(requests) - 1
        /\ \A i \in 1 .. Len(requests) - 1 : Tail(requests)[i] = requests[i + 1]
    BY <1>1, Lengths, HeadTailProperties, EmptySeq
  <2>2. Len(replies') = n
    BY <1>1
  <2> HIDE DEF n
  <2>3. InFlight' = InFlight - 1 /\ InFlight \in Nat \ {0} /\ InFlight' \in Nat
    <3>1. InFlight' = (Len(requests) - 1) + n
      BY <1>1, <2>1, <2>2 DEF InFlight
    <3>2. InFlight = Len(requests) + n /\ n \in Nat /\ Len(requests) \in Nat \ {0}
      BY <2>1
    <3> QED
      BY ONLY <3>1, <3>2
  <2> DEFINE src == [i \in 1 .. InFlight' |-> IF i <= n THEN i ELSE i + 1]
  <2>4. ASSUME NEW i \in 1 .. InFlight'
        PROVE  /\ src[i] \in 1 .. InFlight /\ src[i] >= i
               /\ Way'[i] = Way[src[i]]
    <3>1. i \in 1 .. InFlight /\ i + 1 \in 1 .. InFlight
      BY <2>3
    <3>2. /\ \A j \in 1 .. InFlight :
               Way[j] = IF j <= n THEN FrameValue(replies[j])
                        ELSE RequestValue(requests[j - n])
          /\ Way'[i] = IF i <= n THEN FrameValue(replies[i])
                       ELSE RequestValue(Tail(requests)[i - n])
      BY <1>1, <2>2 DEF Way, n
    <3>3. CASE i <= n
      BY <3>1, <3>2, <3>3
    <3>4. CASE ~(i <= n)
      <4>1. /\ ~(i + 1 <= n) /\ i - n \in 1 .. Len(requests) - 1
            /\ (i - n) + 1 = (i + 1) - n
        BY <2>1, <2>3, <3>4
      <4>2. Tail(requests)[i - n] = requests[(i + 1) - n]
        BY <2>1, <4>1
      <4>3. Way'[i] = Way[i + 1]
        BY <3>1, <3>2, <3>4, <4>1, <4>2
      <4> QED
        BY <3>1, <3>4, <4>3
    <3> QED
      BY <3>3, <3>4
  <2>5. ASSUME NEW i \in 1 .. InFlight', NEW j \in 1 .. i - 1
        PROVE  src[j] < src[i]
    BY <2>1, <2>3
  <2>6. src \in [1 .. InFlight' -> 1 .. InFlight]
    BY <2>4
  <2> HIDE DEF src
  <2>7. \A i \in 1 .. InFlight' :
          /\ Way'[i] \in {Way[src[i]], Blank}
          /\ asked' + i + late <= asked + src[i] + late'
          /\ \A j \in 1 .. i - 1 : src[j] < src[i]
    <3>1. asked \in Int /\ late \in Int
      BY <1>1, OptionsAre DEF TypeOK, WireTypeOK
    <3> QED
      BY <1>1, <2>3, <2>4, <2>5, <3>1
  <2> QED
    BY <1>1, <1>3, <2>3, <2>6, <2>7, WayKept DEF TypeOK, WireTypeOK
<1> QED
  BY <1>2, <1>3, <1>4 DEF LagIInv

\* A lost connection carries the answers that had arrived, and no request.
LEMMA WayDropped ==
  ASSUME LagIInv, ConnectionDrops
  PROVE  LagIInv'
<1>1. /\ TypeOK /\ WireTypeOK /\ FlightInv /\ WayInv /\ Unread
      /\ conn' = "broken" /\ requests' = <<>>
      /\ UNCHANGED <<waiting, replies, late, blank, asked, field, pc>>
  BY DEF LagIInv, TypeOK, ConnectionDrops, Drop
<1>2. WireTypeOK' /\ FlightInv'
  BY <1>1, DropType, DropFlight DEF ConnectionDrops
<1>3. TypeOK' /\ Unread' /\ FieldsLag'
  BY <1>1, <1>2 DEF LagIInv, TypeOK, Unread, FieldsLag
<1>4. WayInv'
  <2> SUFFICES ASSUME pc = "ask", NEW i \in 1 .. InFlight'
               PROVE  /\ Way'[i] \in Options \cup {Blank}
                      /\ Way'[i] # Blank => Behind(i)'
    BY <1>1 DEF WayInv
  <2>1. Len(replies) \in Nat /\ Len(requests) \in Nat
        /\ InFlight = Len(requests) + Len(replies)
    BY <1>1, Lengths
  <2>2. InFlight' = Len(replies)
    BY <1>1, <2>1 DEF InFlight
  <2>3. \A j \in 1 .. Len(replies) : j \in 1 .. InFlight /\ Way'[j] = Way[j]
    BY <1>1, <2>1, <2>2 DEF Way
  <2>4. i \in 1 .. Len(replies) /\ \A j \in 1 .. i - 1 : j \in 1 .. Len(replies)
    BY <2>1, <2>2
  <2>5. Way'[i] \in Options \cup {Blank} /\ (Way[i] # Blank => Behind(i))
    BY <1>1, <2>3, <2>4 DEF WayInv
  <2> QED
    BY <1>1, <2>3, <2>4, <2>5 DEF Behind
<1> QED
  BY <1>2, <1>3, <1>4 DEF LagIInv

-----------------------------------------------------------------------------
(* The server's steps                                                      *)

LEMMA WaySent ==
  ASSUME LagIInv, SendCommand
  PROVE  LagIInv'
<1> DEFINE q == [cmd |-> "options", start |-> asked, n |-> 0,
                 id |-> NextReplyId(replyID), fresh |-> TRUE]
           n == Len(replies)
<1>1. /\ TypeOK /\ WireTypeOK /\ FlightInv /\ WayInv /\ Unread /\ FieldsLag
      /\ pc = "ask" /\ ~waiting /\ conn # "closed"
      /\ UNCHANGED <<conn, late, blank, asked, field, pc>> /\ waiting'
      /\ Write("options", asked, 0) /\ asked \in Options /\ asked \in Nat
      /\ late \in Nat
  BY OptionsAre DEF LagIInv, TypeOK, WireTypeOK, SendCommand, OptionOf, Write, Unread
<1>2. WireTypeOK' /\ FlightInv'
  BY <1>1, WriteType, WriteFlight DEF Cmds
<1>3. TypeOK' /\ Unread' /\ FieldsLag'
  BY <1>1, <1>2 DEF TypeOK, Unread, FieldsLag
<1>4. /\ replies \in Seq(Replies) /\ requests \in Seq(Requests)
      /\ n \in Nat /\ Len(requests) \in Nat /\ InFlight = Len(requests) + n
  BY <1>1, Lengths
<1>5. /\ Len(replies') = n
      /\ \A i \in 1 .. n : FrameValue(replies'[i]) = FrameValue(replies[i])
  <2>1. replies' = Superseded(replies) /\ Len(replies') = n
    BY <1>1, <1>4, SupersededType DEF Write
  <2>2. ASSUME NEW i \in 1 .. n
        PROVE  FrameValue(replies'[i]) = FrameValue(replies[i])
    <3>1. replies'[i] = [replies[i] EXCEPT !.fresh = FALSE] /\ replies[i] \in Replies
      BY <1>4, <2>1, ElementOfSeq DEF Superseded
    <3>2. replies'[i].ans = replies[i].ans /\ replies'[i].data = replies[i].data
      BY <3>1 DEF Replies
    <3> QED
      BY <3>2 DEF FrameValue, IsFragment
  <2> QED
    BY <2>1, <2>2
<1>6. /\ Len(requests') \in {Len(requests), Len(requests) + 1}
      /\ \A i \in 1 .. Len(requests) : RequestValue(requests'[i]) = RequestValue(requests[i])
      /\ Len(requests') = Len(requests) + 1 =>
           RequestValue(requests'[Len(requests) + 1]) = asked
  <2>1. CASE conn = "up"
    <3> DEFINE s == Superseded(requests)
    <3>1. requests' = Append(s, q) /\ s \in Seq(Requests) /\ Len(s) = Len(requests)
      BY <1>1, <1>4, <2>1, SupersededType DEF Write
    <3>2. ASSUME NEW i \in 1 .. Len(requests)
          PROVE  RequestValue(s[i]) = RequestValue(requests[i])
      <4>1. s[i] = [requests[i] EXCEPT !.fresh = FALSE] /\ requests[i] \in Requests
        BY <1>4, <3>1, ElementOfSeq DEF Superseded
      <4>2. s[i].cmd = requests[i].cmd /\ s[i].start = requests[i].start
        BY <4>1 DEF Requests
      <4> QED
        BY <4>2 DEF RequestValue
    <3>3. RequestValue(q) = asked
      BY DEF RequestValue
    <3>4. s \in Seq(Requests \cup {q})
      BY <3>1
    <3> HIDE DEF s, q
    <3>5. /\ Len(requests') = Len(s) + 1 /\ requests'[Len(s) + 1] = q
          /\ \A i \in 1 .. Len(s) : requests'[i] = s[i]
      BY <3>1, <3>4, AppendProperties
    <3> QED
      BY <3>1, <3>2, <3>3, <3>5
  <2>2. CASE conn # "up"
    BY <1>1, <1>4, <2>2 DEF Write
  <2> QED
    BY <2>1, <2>2
<1> HIDE DEF q, n
<1>7. /\ InFlight \in Nat /\ InFlight' = Len(requests') + n
      /\ InFlight' \in {InFlight, InFlight + 1}
  <2>1. InFlight' = Len(requests') + n
    BY <1>5 DEF InFlight
  <2>2. InFlight = Len(requests) + n /\ n \in Nat /\ Len(requests) \in Nat
        /\ Len(requests') \in {Len(requests), Len(requests) + 1}
    BY <1>4, <1>6
  <2> QED
    BY ONLY <2>1, <2>2
<1>8. ASSUME NEW i \in 1 .. InFlight
      PROVE  Way'[i] = Way[i]
  <2>1. i \in 1 .. InFlight'
    BY <1>7
  <2>2. /\ Way[i] = IF i <= n THEN FrameValue(replies[i])
                    ELSE RequestValue(requests[i - n])
        /\ Way'[i] = IF i <= n THEN FrameValue(replies'[i])
                     ELSE RequestValue(requests'[i - n])
    BY <1>5, <2>1 DEF Way, n
  <2>3. (i <= n => i \in 1 .. n) /\ (~(i <= n) => i - n \in 1 .. Len(requests))
    BY <1>4
  <2> QED
    BY <1>5, <1>6, <2>2, <2>3
<1>9. ASSUME InFlight' = InFlight + 1
      PROVE  Way'[InFlight + 1] = asked
  <2>1. /\ Len(requests') = Len(requests) + 1 /\ ~(InFlight + 1 <= n)
        /\ (InFlight + 1) - n = Len(requests) + 1
    BY <1>4, <1>6, <1>7, <1>9
  <2>2. Way'[InFlight + 1] = RequestValue(requests'[(InFlight + 1) - n])
    BY <1>5, <1>7, <1>9, <2>1 DEF Way, n
  <2> QED
    BY <1>6, <2>1, <2>2
<1>10. InFlight <= late
  BY <1>1, <1>7 DEF FlightInv, InFlightBound
<1>11. ASSUME NEW k \in Options, field[k] \in Options
       PROVE  field[k] < asked
  <2>1. field[k] <= k /\ (k >= asked => field[k] = Blank)
    BY <1>1, <1>11 DEF FieldsLag, Unread
  <2> QED
    BY <1>1, <1>11, <2>1, OptionsAre
<1>12. \A i \in 1 .. InFlight :
         /\ Way[i] \in Options \cup {Blank} /\ Way[i] < asked
         /\ Way[i] # Blank => Behind(i)
  <2>1. \A i \in 1 .. InFlight :
          Way[i] \in Options \cup {Blank} /\ (Way[i] # Blank => Behind(i))
    BY <1>1 DEF WayInv
  <2>2. \A i \in 1 .. InFlight : Behind(i) => Way[i] < asked
    BY <1>1 DEF Behind
  <2> QED
    BY <1>1, <2>1, <2>2, OptionsAre
<1>13. WayInv'
  <2> SUFFICES ASSUME NEW i \in 1 .. InFlight'
               PROVE  Way'[i] \in Options \cup {Blank} /\ (Way'[i] # Blank => Behind(i)')
    BY DEF WayInv
  <2>1. CASE i \in 1 .. InFlight
    <3>1. \A j \in 1 .. i - 1 : j \in 1 .. InFlight
      BY <1>7, <2>1
    <3>2. Way'[i] = Way[i] /\ \A j \in 1 .. i - 1 : Way'[j] = Way[j]
      BY <1>8, <2>1, <3>1
    <3> QED
      BY <1>1, <1>12, <2>1, <3>2 DEF Behind
  <2>2. CASE i \notin 1 .. InFlight
    <3>1. i = InFlight + 1 /\ InFlight' = InFlight + 1
      BY <1>7, <2>2
    <3>2. Way'[i] = asked /\ \A j \in 1 .. i - 1 : j \in 1 .. InFlight /\ Way'[j] < asked
      BY <1>7, <1>8, <1>9, <1>12, <3>1
    <3>3. asked + i <= late + 1 + asked
      BY <1>1, <1>7, <1>10, <3>1
    <3> QED
      BY <1>1, <1>11, <3>2, <3>3, OptionsAre DEF Behind
  <2> QED
    BY <2>1, <2>2
<1> QED
  BY <1>2, <1>3, <1>13 DEF LagIInv

\* What a read reports is blank or what was carried first on the way.
LEMMA ValueRead ==
  ASSUME WireTypeOK, NEW o \in ReadOutcomes, Value(o) # Blank
  PROVE  o.ok /\ o.late = 0 /\ InFlight > 0 /\ Value(o) = Way[1]
<1>1. o.ok /\ Value(o) = ParseOption(o.data)
  BY DEF Value, Accepted
<1>2. /\ replies # <<>> /\ ~IsFragment(Head(replies)) /\ o.data = Head(replies).data
      /\ o.late = 0
  BY <1>1, OkOutcome
<1>3. Len(replies) \in Nat \ {0} /\ Head(replies) = replies[1] /\ Len(requests) \in Nat
      /\ InFlight = Len(requests) + Len(replies)
  BY <1>2, Lengths, HeadTailProperties, EmptySeq
<1>4. 1 \in 1 .. InFlight /\ 1 <= Len(replies)
  BY <1>3
<1> QED
  BY <1>1, <1>2, <1>3, <1>4 DEF Way, FrameValue

\* The way moves up by what the read takes off it.
LEMMA WayRead ==
  ASSUME WireTypeOK, DropLosesRequests, NEW o \in ReadOutcomes, Return(o, "options")
  PROVE  \E d \in Nat :
           /\ InFlight' = InFlight - d
           /\ \A i \in 1 .. InFlight' :
                /\ i + d \in 1 .. InFlight
                /\ Way'[i] \in {Way[i + d], Blank}
                /\ i + d >= i + 1 - o.late
           /\ o.ok => d > 0
<1> DEFINE n == Len(replies)
           m == Len(o.rest)
<1>1. PICK d \in 0 .. n :
        /\ m = n - d
        /\ \A i \in 1 .. m : o.rest[i] = replies[i + d] \/ IsFragment(o.rest[i])
        /\ d = 0 => ~o.ok /\ (o.late = 1 \/ InFlight = 0)
  BY ReadEnds
<1>2. n \in Nat /\ Len(requests) \in Nat /\ InFlight = Len(requests) + n /\ InFlight \in Nat
  BY Lengths
<1>3. replies' = o.rest /\ requests' = requests
  BY DEF Return
<1>4. o.late \in {0, 1}
  BY ReadOutcomesType DEF Outcomes
<1> HIDE DEF n, m
<1>5. InFlight' = Len(requests) + m
  BY <1>3 DEF InFlight, m
<1>6. InFlight' = InFlight - d /\ m \in Nat /\ d \in Nat
  BY <1>1, <1>2, <1>5
<1>7. ASSUME NEW i \in 1 .. InFlight'
      PROVE  /\ i + d \in 1 .. InFlight
             /\ Way'[i] \in {Way[i + d], Blank}
             /\ i + d >= i + 1 - o.late
  <2>1. i + d \in 1 .. InFlight /\ InFlight # 0
    BY <1>2, <1>6
  <2>2. /\ Way[i + d] = IF i + d <= n THEN FrameValue(replies[i + d])
                        ELSE RequestValue(requests[(i + d) - n])
        /\ Way'[i] = IF i <= m THEN FrameValue(o.rest[i])
                     ELSE RequestValue(requests[i - m])
    BY <1>3, <2>1 DEF Way, n, m
  <2>3. CASE i <= m
    <3>1. i \in 1 .. m /\ i + d <= n
      BY <1>1, <1>2, <1>6, <2>3
    <3>2. IsFragment(o.rest[i]) => FrameValue(o.rest[i]) = Blank
      BY DEF FrameValue
    <3>3. Way'[i] \in {Way[i + d], Blank}
      BY <1>1, <2>2, <2>3, <3>1, <3>2
    <3> QED
      BY <1>1, <1>4, <1>6, <2>1, <3>3
  <2>4. CASE ~(i <= m)
    <3>1. ~(i + d <= n) /\ (i + d) - n = i - m
      BY <1>1, <1>2, <1>6, <2>4
    <3>2. Way'[i] = Way[i + d]
      BY <2>2, <2>4, <3>1
    <3> QED
      BY <1>1, <1>4, <1>6, <2>1, <3>2
  <2> QED
    BY <2>3, <2>4
<1>8. o.ok => d > 0
  BY <1>1
<1> QED
  BY <1>6, <1>7, <1>8

LEMMA WayReturned ==
  ASSUME LagIInv, GetOptionReturns
  PROVE  LagIInv'
<1>1. /\ TypeOK /\ WireTypeOK /\ FlightInv /\ DropLosesRequests /\ WayInv /\ Unread
      /\ FieldsLag /\ pc = "ask" /\ asked \in 1 .. 4 /\ late \in Nat /\ InFlight \in Nat
      /\ conn # "closed"
  BY OptionsAre, Lengths
  DEF LagIInv, TypeOK, FlightInv, WireTypeOK, GetOptionReturns, Unread
<1>2. PICK o \in ReadOutcomes :
        /\ Return(o, "options")
        /\ field' = [field EXCEPT ![asked] = Value(o)]
  BY DEF GetOptionReturns
<1> DEFINE v == Value(o)
<1>3. /\ conn' = conn /\ waiting' = FALSE /\ blank' = blank
      /\ late' = late + o.late /\ o.late \in {0, 1} /\ late' \in Nat
  BY <1>1, <1>2, ReadOutcomesType DEF Return, Outcomes, GetOptionReturns
<1>4. WireTypeOK' /\ FlightInv'
  BY <1>1, <1>2, ReturnType, ReturnFlight DEF Cmds
<1>5. v # Blank =>
        /\ o.ok /\ o.late = 0 /\ 1 \in 1 .. InFlight /\ v = Way[1]
        /\ v \in Options /\ v <= asked /\ asked <= late + v
        /\ \A k \in Options : field[k] \in Options => field[k] < v
  <2> SUFFICES ASSUME v # Blank
               PROVE  /\ o.ok /\ o.late = 0 /\ 1 \in 1 .. InFlight /\ v = Way[1]
                      /\ v \in Options /\ v <= asked /\ asked <= late + v
                      /\ \A k \in Options : field[k] \in Options => field[k] < v
    OBVIOUS
  <2>1. o.ok /\ o.late = 0 /\ 1 \in 1 .. InFlight /\ v = Way[1]
    BY <1>1, ValueRead
  <2> HIDE DEF v
  <2>2. v \in Options /\ Behind(1)
    BY <1>1, <2>1 DEF WayInv
  <2>3. v <= asked /\ asked + 1 <= late + 1 + v /\ v \in Nat
        /\ \A k \in Options : field[k] \in Options => field[k] < v
    BY <2>1, <2>2, OptionsAre DEF Behind
  <2>4. asked <= late + v
    BY <1>1, <2>3
  <2> QED
    BY <2>1, <2>2, <2>3, <2>4
<1> HIDE DEF v
<1>6. /\ v \in Options \cup {Blank}
      /\ field \in [Options -> Options \cup {Blank, ConfigName}]
      /\ field' \in [Options -> Options \cup {Blank, ConfigName}]
      /\ field'[asked] = v /\ \A k \in Options \ {asked} : field'[k] = field[k]
  <2>1. v \in Options \cup {Blank} /\ asked \in Options
        /\ field \in [Options -> Options \cup {Blank, ConfigName}]
    BY <1>1, <1>5, OptionsAre DEF TypeOK
  <2>2. field' = [field EXCEPT ![asked] = v]
    BY <1>2 DEF v
  <2> QED
    BY <2>1, <2>2
<1>7. FieldsLag'
  <2> SUFFICES ASSUME NEW k \in Options, field'[k] \in Options
               PROVE  /\ field'[k] <= k /\ k - field'[k] <= late'
                      /\ \A j \in Options \ {k} : field'[j] # field'[k]
    BY DEF FieldsLag
  <2>1. ASSUME NEW j \in Options, field[j] \in Options
        PROVE  /\ field[j] <= j /\ j - field[j] <= late
               /\ \A i \in Options \ {j} : field[i] # field[j]
               /\ v # Blank => field[j] # v
    BY <1>1, <1>5, <2>1, OptionsAre DEF FieldsLag
  <2>2. CASE k = asked
    <3>1. v # Blank /\ field'[k] = v
      BY <1>6, <2>2, OptionsAre
    <3>2. ASSUME NEW j \in Options \ {k} PROVE field'[j] # v
      <4>1. field'[j] = field[j]
        BY <1>6, <2>2
      <4> QED
        BY <1>5, <2>1, <3>1, <4>1
    <3>3. v <= k /\ k - v <= late'
      BY <1>1, <1>3, <1>5, <2>2, <3>1, OptionsAre
    <3> QED
      BY <3>1, <3>2, <3>3
  <2>3. CASE k # asked
    <3>1. field'[k] = field[k] /\ field[k] \in Options
      BY <1>6, <2>3
    <3>2. field[k] <= k /\ k - field[k] <= late'
      <4>1. field[k] <= k /\ k - field[k] <= late
        BY <2>1, <3>1
      <4>2. field[k] \in Int /\ k \in Int
        BY <3>1, OptionsAre
      <4> QED
        BY <1>1, <1>3, <4>1, <4>2
    <3>3. ASSUME NEW j \in Options \ {k} PROVE field'[j] # field[k]
      <4>1. CASE j = asked
        BY <1>6, <2>1, <3>1, <4>1, OptionsAre
      <4>2. CASE j # asked
        BY <1>6, <2>1, <3>1, <4>2
      <4> QED
        BY <4>1, <4>2
    <3> QED
      BY <3>1, <3>2, <3>3
  <2> QED
    BY <2>2, <2>3
<1>8. (asked = Firmware /\ pc' = "disconnect" /\ asked' = asked)
      \/ (asked # Firmware /\ pc' = "ask" /\ asked' = asked + 1)
  BY <1>1 DEF GetOptionReturns
<1>9. TypeOK'
  <2>1. asked' \in Options
    BY <1>1, <1>8, OptionsAre
  <2> QED
    BY <1>1, <1>3, <1>4, <1>6, <1>8, <2>1 DEF TypeOK
<1>10. Unread'
  <2>1. ASSUME pc' = "ask", NEW k \in Options, k >= asked'
        PROVE  field'[k] = Blank
    <3>1. k > asked /\ k # asked
      BY <1>1, <1>8, <2>1, OptionsAre
    <3>2. field[k] = Blank
      BY <1>1, <3>1, OptionsAre DEF Unread
    <3> QED
      BY <1>6, <3>1, <3>2
  <2> QED
    BY <1>1, <1>3, <2>1 DEF Unread
<1>11. WayInv'
  <2> SUFFICES ASSUME pc' = "ask" PROVE WayInv'
    BY DEF WayInv
  <2>1. PICK d \in Nat :
          /\ InFlight' = InFlight - d
          /\ \A i \in 1 .. InFlight' :
               /\ i + d \in 1 .. InFlight
               /\ Way'[i] \in {Way[i + d], Blank}
               /\ i + d >= i + 1 - o.late
          /\ o.ok => d > 0
    BY <1>1, <1>2, WayRead
  <2>2. InFlight' \in Nat
    BY <1>4, Lengths DEF WireTypeOK, InFlight
  <2> DEFINE src == [i \in 1 .. InFlight' |-> i + d]
  <2>3. src \in [1 .. InFlight' -> 1 .. InFlight]
    BY <2>1
  <2>4. ASSUME NEW i \in 1 .. InFlight'
        PROVE  /\ Way'[i] \in {Way[src[i]], Blank}
               /\ asked' + i + late <= asked + src[i] + late'
               /\ \A j \in 1 .. i - 1 : src[j] < src[i]
    <3>1. asked' = asked + 1 /\ asked \in Int
      BY <1>1, <1>8
    <3>2. i + d >= i + 1 - o.late /\ src[i] = i + d /\ Way'[i] \in {Way[i + d], Blank}
      BY <2>1
    <3>3. (asked + 1) + i + late <= asked + (i + d) + (late + o.late)
      <4>1. i \in Int /\ d \in Int /\ late \in Int /\ o.late \in Int
        BY <1>1, <1>3, <2>2
      <4> QED
        BY ONLY <3>1, <3>2, <4>1
    <3>4. \A j \in 1 .. i - 1 : src[j] < src[i]
      BY <2>2
    <3> QED
      BY <1>3, <3>1, <3>2, <3>3, <3>4
  <2>5. ASSUME NEW k \in Options
        PROVE  \/ field'[k] = field[k]
               \/ \A i \in 1 .. InFlight' : Way'[i] # Blank => field'[k] < Way'[i]
    <3> SUFFICES ASSUME k = asked, NEW i \in 1 .. InFlight', Way'[i] # Blank
                 PROVE  v < Way'[i]
      BY <1>6
    <3>1. /\ i + d \in 1 .. InFlight /\ Way'[i] = Way[i + d]
          /\ Way[i + d] \in Options /\ Behind(i + d)
      BY <1>1, <2>1 DEF WayInv
    <3>2. CASE v = Blank
      BY <3>1, <3>2, OptionsAre
    <3>3. CASE v # Blank
      <4>1. 1 \in 1 .. (i + d) - 1 /\ v = Way[1]
        BY <1>5, <2>1, <2>2, <3>3
      <4>2. Way[1] < Way[i + d]
        BY <3>1, <4>1 DEF Behind
      <4> QED
        BY <3>1, <4>1, <4>2
    <3> QED
      BY <3>2, <3>3
  <2>6. asked' > asked
    BY <1>1, <1>8
  <2> HIDE DEF src
  <2> QED
    BY <1>1, <1>3, <1>6, <1>9, <2>2, <2>3, <2>4, <2>5, <2>6, WayKept DEF TypeOK
<1> QED
  BY <1>4, <1>7, <1>9, <1>10, <1>11 DEF LagIInv

LEMMA WayClosed ==
  ASSUME LagIInv, Disconnect
  PROVE  LagIInv'
<1>1. TypeOK /\ WireTypeOK /\ FlightInv /\ FieldsLag
  BY DEF LagIInv, TypeOK
<1>2. WireTypeOK' /\ FlightInv'
  BY <1>1, CloseType, CloseFlight DEF Disconnect
<1>3. /\ pc' = "done" /\ UNCHANGED <<late, blank, asked>>
      /\ field' = [field EXCEPT ![Name] = IF @ = Blank THEN ConfigName ELSE @]
  BY DEF Disconnect, Close
<1>4. /\ field' \in [Options -> Options \cup {Blank, ConfigName}]
      /\ \A k \in Options : field'[k] = field[k] \/ field'[k] = ConfigName
  BY <1>1, <1>3, OptionsAre DEF TypeOK
<1>5. TypeOK' /\ Unread' /\ WayInv'
  BY <1>1, <1>2, <1>3, <1>4 DEF TypeOK, Unread, WayInv
<1>6. ASSUME NEW k \in Options, field'[k] \in Options
      PROVE  field'[k] = field[k]
  BY <1>4, <1>6, OptionsAre
<1>7. FieldsLag'
  BY <1>1, <1>3, <1>4, <1>6 DEF FieldsLag
<1> QED
  BY <1>2, <1>5, <1>7 DEF LagIInv

LEMMA LagStep == LagIInv /\ [Next]_vars => LagIInv'
<1> SUFFICES ASSUME LagIInv, [Next]_vars PROVE LagIInv'
  OBVIOUS
<1>1. CASE UNCHANGED vars
  <2>1. UNCHANGED <<InFlight, Way>>
    BY <1>1 DEF vars, wireVars, InFlight, Way
  <2> QED
    BY <1>1, <2>1 DEF vars, wireVars, LagIInv, TypeOK, WireTypeOK, FlightInv,
       InFlightBound, DropLosesRequests, WayInv, Behind, Unread, FieldsLag
<1> QED
  BY <1>1, WaySent, WayReturned, WayClosed, WayHandles, WayIgnored, WayDropped
  DEF Next, Finished

LEMMA LagInit == Init => LagIInv
<1> SUFFICES ASSUME Init PROVE LagIInv
  OBVIOUS
<1>1. WireTypeOK
  BY WireInitType DEF Init
<1>2. TypeOK
  BY <1>1, OptionsAre DEF Init, TypeOK
<1>3. InFlight = 0 /\ conn = "up" /\ ~waiting /\ late = 0
  BY DEF Init, WireInit, InFlight
<1>4. FlightInv /\ WayInv
  BY <1>3 DEF FlightInv, InFlightBound, DropLosesRequests, WayInv
<1>5. Unread /\ FieldsLag
  BY <1>3, OptionsAre DEF Init, Unread, FieldsLag
<1> QED
  BY <1>2, <1>4, <1>5 DEF LagIInv

\* The variables of an info request keep their types: a field has the value of
\* some option, is blank, or has its default.
THEOREM TypeCorrect == Spec => []TypeOK
BY LagInit, LagStep, PTL DEF Spec, LagIInv

\* Late answers shift the fields one way only, by no more than there were of
\* them, and no value is reported twice.
THEOREM LagsBehind == Spec => []FieldsLag
BY LagInit, LagStep, PTL DEF Spec, LagIInv

-----------------------------------------------------------------------------
(* What failed reads cost.  Without a late answer and with the connection  *)
(* up, every field that an option the device holds has not reached is paid *)
(* for by a fault: also that of the option being asked for, from the       *)
(* moment when its answer can no longer come.                              *)

Arrived(f) == ~IsFragment(f) /\ f.code = "OK" /\ f.data = <<asked>>

Spoilt ==
  /\ pc = "ask" /\ waiting /\ asked \notin blank
  /\ requests = <<>>
  /\ ~(replies # <<>> /\ Arrived(Head(replies)))

Read == {k \in Options : k < asked \/ pc # "ask"}

Lost ==
  {k \in Read \ blank : field[k] \in {Blank, ConfigName}} \cup
    {k \in {asked} : Spoilt}

Untroubled == late = 0 /\ "conn" \notin faulted

CostInv ==
  Untroubled =>
    /\ conn # "broken"
    /\ Cardinality(Lost) <= faults
    /\ pc = "ask" =>
         /\ requests # <<>> =>
              Head(requests).cmd = "options" /\ Head(requests).start = asked
         /\ replies # <<>> => ~IsFragment(Head(replies))

CostIInv == LagIInv /\ CostInv

LEMMA LostCost ==
  ASSUME NEW S \in SUBSET Options, NEW T \in SUBSET Options
  PROVE  /\ S \subseteq T => Cardinality(S) <= Cardinality(T)
         /\ \A k \in Options : S \subseteq T \cup {k} => Cardinality(S) <= Cardinality(T) + 1
         /\ Cardinality(S) \in Nat /\ Cardinality(T) \in Nat
<1>1. IsFiniteSet(Options)
  <2>1. \A a, b \in Int : IsFiniteSet(a .. b)
    BY FS_Interval, Zenon
  <2>2. 1 \in Int /\ 4 \in Int
    OBVIOUS
  <2>3. IsFiniteSet(1 .. 4)
    BY <2>1, <2>2, Zenon
  <2> QED
    BY <2>3, OptionsAre, Zenon
<1>2. /\ IsFiniteSet(S) /\ IsFiniteSet(T)
      /\ Cardinality(S) \in Nat /\ Cardinality(T) \in Nat
  BY <1>1, FS_Subset, FS_CardinalityType
<1>3. S \subseteq T => Cardinality(S) <= Cardinality(T)
  BY <1>2, FS_Subset
<1>4. ASSUME NEW k \in Options, S \subseteq T \cup {k}
      PROVE  Cardinality(S) <= Cardinality(T) + 1
  <2>1. /\ IsFiniteSet(T \cup {k})
        /\ Cardinality(T \cup {k}) = IF k \in T THEN Cardinality(T) ELSE Cardinality(T) + 1
    BY <1>2, FS_AddElement
  <2>2. Cardinality(S) <= Cardinality(T \cup {k}) /\ Cardinality(T) \in Nat
    BY <1>2, <1>4, <2>1, FS_Subset
  <2>3. \A m, n \in Int : \A c : m <= c /\ (c = n \/ c = n + 1) => m <= n + 1
    OBVIOUS
  <2> QED
    BY <1>2, <2>1, <2>2, <2>3
<1> QED
  BY <1>2, <1>3, <1>4

LEMMA LostType ==
  ASSUME TypeOK
  PROVE  Lost \in SUBSET Options
BY DEF TypeOK, Lost, Read

\* A step that loses nothing, or one field at the cost of one fault.
LEMMA CostKept ==
  ASSUME TypeOK, TypeOK', CostInv, Untroubled' => Untroubled,
         Untroubled' =>
           /\ \/ Lost' \subseteq Lost /\ faults <= faults'
              \/ (\E k \in Options : Lost' \subseteq Lost \cup {k}) /\ faults' = faults + 1
           /\ conn' # "broken"
           /\ pc' = "ask" =>
                /\ requests' # <<>> =>
                     Head(requests').cmd = "options" /\ Head(requests').start = asked'
                /\ replies' # <<>> => ~IsFragment(Head(replies'))
  PROVE  CostInv'
<1> SUFFICES ASSUME Untroubled' PROVE (Cardinality(Lost) <= faults)'
  BY DEF CostInv
<1>1. Lost \in SUBSET Options /\ Lost' \in SUBSET Options
  BY DEF TypeOK, Lost, Read
<1>2. /\ Cardinality(Lost) <= faults /\ faults \in Int /\ faults' \in Int
      /\ Cardinality(Lost) \in Int /\ Cardinality(Lost') \in Int
  BY <1>1, LostCost DEF CostInv, TypeOK, WireTypeOK
<1>3. CASE Lost' \subseteq Lost /\ faults <= faults'
  <2>1. Cardinality(Lost') <= Cardinality(Lost)
    BY <1>1, <1>3, LostCost
  <2> QED
    BY <1>2, <1>3, <2>1
<1>4. CASE (\E k \in Options : Lost' \subseteq Lost \cup {k}) /\ faults' = faults + 1
  <2>1. Cardinality(Lost') <= Cardinality(Lost) + 1
    BY <1>1, <1>4, LostCost
  <2> QED
    BY <1>2, <1>4, <2>1
<1> QED
  BY <1>3, <1>4

LEMMA CostSent ==
  ASSUME CostIInv, SendCommand
  PROVE  CostInv'
<1>1. /\ TypeOK /\ TypeOK' /\ WireTypeOK /\ InFlightBound /\ CostInv
      /\ pc = "ask" /\ ~waiting /\ conn # "closed" /\ Write("options", asked, 0)
      /\ UNCHANGED <<conn, late, faults, faulted, blank, asked, field, pc>>
  BY WaySent DEF CostIInv, LagIInv, TypeOK, FlightInv, SendCommand, OptionOf, Write, Unread
<1>2. Untroubled' => Untroubled
  BY <1>1 DEF Untroubled
<1>3. ASSUME Untroubled'
      PROVE  /\ Lost' \subseteq Lost /\ faults <= faults' /\ conn' # "broken"
             /\ requests' # <<>> =>
                  Head(requests').cmd = "options" /\ Head(requests').start = asked'
             /\ replies' = <<>>
  <2>1. conn = "up" /\ late = 0
    BY <1>1, <1>2, <1>3 DEF CostInv, WireTypeOK, Untroubled
  <2>2. requests = <<>> /\ replies = <<>>
    BY <1>1, <2>1, AloneUnderWay
  <2>3. /\ requests' # <<>> /\ replies' = <<>>
        /\ Head(requests').cmd = "options" /\ Head(requests').start = asked
    BY <1>1, <2>1, <2>2, FirstWrite
  <2>4. Lost' \subseteq Lost /\ faults <= faults'
    BY <1>1, <2>3 DEF Lost, Read, Spoilt, TypeOK, WireTypeOK
  <2> QED
    BY <1>1, <2>1, <2>3, <2>4
<1> QED
  BY <1>1, <1>2, <1>3, CostKept

LEMMA CostHandled ==
  ASSUME CostIInv, DeviceHandles
  PROVE  CostInv'
<1> DEFINE q == Head(requests)
<1>1. /\ TypeOK /\ TypeOK' /\ WireTypeOK /\ InFlightBound /\ CostInv
      /\ requests # <<>> /\ conn # "broken"
      /\ UNCHANGED <<conn, late, waiting, blank, asked, field, pc>>
      /\ faulted \subseteq faulted'
  BY WayHandles DEF CostIInv, LagIInv, TypeOK, FlightInv, DeviceHandles, Handle
<1>2. Untroubled' => Untroubled
  BY <1>1 DEF Untroubled
<1>3. PICK a, cost : /\ Handle(a, cost)
                     /\ \/ a = ProperAnswer(q) /\ cost = 0
                        \/ a = Refusal /\ cost = 1
  BY DEF DeviceHandles
<1>4. faults' = faults + cost /\ faults \in Nat
  BY <1>1, <1>3 DEF Handle, WireTypeOK
<1>5. CASE pc # "ask"
  <2>1. Lost' \subseteq Lost
    BY <1>1, <1>5 DEF Lost, Read, Spoilt
  <2> QED
    BY <1>1, <1>2, <1>3, <1>4, <1>5, <2>1, CostKept
<1>6. CASE pc = "ask"
  <2>1. ASSUME Untroubled'
        PROVE  /\ Tail(requests) = <<>> /\ replies = <<>>
               /\ q.cmd = "options" /\ q.start = asked
               /\ requests' = <<>>
               /\ replies' # <<>> /\ Head(replies').ans = "options"
               /\ Head(replies').code = a.code /\ Head(replies').data = a.data
    <3>1. conn = "up" /\ late = 0
      BY <1>1, <1>2, <1>6, <2>1 DEF Untroubled, WireTypeOK, CostIInv, LagIInv, Unread
    <3>2. Tail(requests) = <<>> /\ replies = <<>>
      BY <1>1, <3>1, AloneUnderWay
    <3>3. q.cmd = "options" /\ q.start = asked
      BY <1>1, <1>2, <1>6, <2>1 DEF CostInv
    <3>4. /\ requests' = <<>> /\ replies' # <<>>
          /\ Head(replies') = [ans |-> q.cmd, code |-> a.code, data |-> a.data,
                               size |-> a.size, id |-> q.id, fresh |-> q.fresh]
      BY <1>1, <1>3, <3>1, <3>2, FirstReply
    <3> QED
      BY <3>2, <3>3, <3>4
  <2>2. asked \in Options
    BY <1>1 DEF TypeOK
  <2>3. ASSUME Untroubled' PROVE Lost' \subseteq Lost \cup {asked}
    BY <1>1 DEF Lost, Read
  <2>4. ASSUME Untroubled', a = ProperAnswer(q)
        PROVE  Lost' \subseteq Lost
    <3>1. asked \notin blank => a.code = "OK" /\ a.data = <<asked>>
      BY <2>1, <2>4 DEF ProperAnswer
    <3>2. ~IsFragment(Head(replies'))
      BY <2>1, <2>4 DEF IsFragment
    <3>3. asked \notin blank => Arrived(Head(replies))'
      BY <1>1, <2>1, <2>4, <3>1, <3>2 DEF Arrived
    <3>4. ~Spoilt'
      BY <1>1, <2>1, <2>4, <3>3 DEF Spoilt
    <3> QED
      BY <1>1, <3>4 DEF Lost, Read
  <2>5. ASSUME Untroubled' PROVE ~IsFragment(Head(replies'))
    BY <2>1, <2>5 DEF IsFragment
  <2>6. ASSUME Untroubled'
        PROVE  \/ Lost' \subseteq Lost /\ faults <= faults'
               \/ (\E k \in Options : Lost' \subseteq Lost \cup {k}) /\ faults' = faults + 1
    <3>1. CASE a = ProperAnswer(q) /\ cost = 0
      BY <1>4, <2>4, <2>6, <3>1
    <3>2. CASE a = Refusal /\ cost = 1
      BY <1>4, <2>2, <2>3, <2>6, <3>2
    <3> QED
      BY <1>3, <3>1, <3>2
  <2> QED
    BY <1>1, <1>2, <2>1, <2>5, <2>6, CostKept
<1> QED
  BY <1>5, <1>6

LEMMA CostIgnored ==
  ASSUME CostIInv, DeviceIgnores \/ ConnectionDrops
  PROVE  CostInv'
<1>1. /\ TypeOK /\ TypeOK' /\ WireTypeOK /\ InFlightBound /\ CostInv
      /\ UNCHANGED <<late, waiting, replies, blank, asked, field, pc>>
      /\ faulted \subseteq faulted' /\ faults' = faults + 1
  BY WayIgnored, WayDropped
  DEF CostIInv, LagIInv, TypeOK, FlightInv, DeviceIgnores, ConnectionDrops, Ignore, Drop
<1>2. Untroubled' => Untroubled
  BY <1>1 DEF Untroubled
<1>3. ASSUME Untroubled'
      PROVE  Ignore
  BY <1>3 DEF DeviceIgnores, ConnectionDrops, Drop, Untroubled
<1>4. asked \in Options /\ Lost' \subseteq Lost \cup {asked}
  BY <1>1 DEF TypeOK, Lost, Read
<1>5. ASSUME Untroubled', pc = "ask"
      PROVE  requests' = <<>> /\ replies' = <<>>
  <2>1. conn # "closed" /\ late = 0 /\ requests # <<>> /\ requests' = Tail(requests)
    BY <1>3, <1>5, <1>2 DEF Ignore, Untroubled, CostIInv, LagIInv, Unread
  <2> QED
    BY <1>1, <2>1, AloneUnderWay
<1>6. Untroubled' => conn' # "broken"
  BY <1>3 DEF Ignore
<1> QED
  BY <1>1, <1>2, <1>4, <1>5, <1>6, CostKept

LEMMA CostReturned ==
  ASSUME CostIInv, GetOptionReturns
  PROVE  CostInv'
<1>1. /\ TypeOK /\ TypeOK' /\ WireTypeOK /\ FlightInv /\ InFlightBound /\ CostInv
      /\ DropLosesRequests /\ pc = "ask" /\ conn # "closed" /\ asked \in 1 .. 4
      /\ UNCHANGED <<conn, requests, blank>> /\ waiting /\ ~waiting'
  BY WayReturned, OptionsAre
  DEF CostIInv, LagIInv, TypeOK, FlightInv, GetOptionReturns, Return, Unread
<1>2. PICK o \in ReadOutcomes :
        /\ Return(o, "options")
        /\ field' = [field EXCEPT ![asked] = Value(o)]
  BY DEF GetOptionReturns
<1>3. o \in Outcomes /\ late' = late + o.late /\ o.late \in {0, 1} /\ late \in Nat
      /\ faults' = faults + o.cost /\ o.cost \in {0, 1} /\ faults \in Nat
      /\ faulted \subseteq faulted' /\ replies' = o.rest
  BY <1>1, <1>2, ReadOutcomesType DEF Return, Outcomes, WireTypeOK
<1>4. Untroubled' => Untroubled /\ o.late = 0
  BY <1>3 DEF Untroubled
<1>5. ASSUME Untroubled'
      PROVE  /\ requests = <<>> /\ o.rest = <<>> /\ conn # "broken"
             /\ asked \in blank \/ Spoilt \/ Value(o) = asked
  <2>1. /\ late = 0 /\ conn # "broken" /\ o.late = 0
        /\ replies # <<>> => ~IsFragment(Head(replies))
    BY <1>1, <1>4, <1>5 DEF CostInv, Untroubled
  <2>2. CASE o.ok
    <3>1. requests = <<>> /\ o.rest = <<>>
      BY <1>1, <2>1, <2>2, FirstRead
    <3>2. replies # <<>> /\ o.code = Head(replies).code /\ o.data = Head(replies).data
      BY <2>2, OkOutcome
    <3>3. ASSUME asked \notin blank, ~Spoilt
          PROVE  Value(o) = asked
      <4>1. o.code = "OK" /\ o.data = <<asked>>
        BY <1>1, <3>1, <3>2, <3>3 DEF Spoilt, Arrived
      <4>2. <<asked>> # <<>> /\ <<asked>>[1] = asked
        OBVIOUS
      <4> QED
        BY <2>2, <4>1, <4>2 DEF Value, Accepted, ParseOption, Codes
    <3> QED
      BY <2>1, <3>1, <3>3
  <2>3. CASE ~o.ok
    <3>1. requests = <<>> /\ replies = <<>>
      BY <2>1, <2>3, NoFailure
    <3>2. PICK d \in 0 .. Len(replies) : Len(o.rest) = Len(replies) - d
      BY <1>1, ReadEnds
    <3>3. Len(replies) = 0 /\ o.rest \in Seq(Replies)
      BY <1>3, <3>1 DEF Outcomes
    <3>4. o.rest = <<>>
      BY <3>2, <3>3, EmptySeq
    <3>5. asked \in blank \/ Spoilt
      BY <1>1, <3>1 DEF Spoilt
    <3> QED
      BY <2>1, <3>1, <3>4, <3>5
  <2> QED
    BY <2>2, <2>3
<1>6. ASSUME Untroubled'
      PROVE  Lost' \subseteq Lost
  <2>1. /\ \A k \in Options \ {asked} : field'[k] = field[k]
        /\ field'[asked] = Value(o)
    BY <1>1, <1>2, OptionsAre DEF TypeOK
  <2>2. /\ pc' = "ask" => asked' = asked + 1
        /\ pc' # "ask" => asked = Firmware
    BY <1>1 DEF GetOptionReturns
  <2>3. \A k \in Read' : k < asked \/ k = asked
    BY <1>1, <2>2, OptionsAre DEF Read
  <2>4. ~Spoilt'
    BY <1>1 DEF Spoilt
  <2>5. ASSUME NEW k \in Lost' PROVE k \in Lost
    <3>1. /\ k \in Read' /\ k \in Options /\ k \notin blank
          /\ field'[k] \in {Blank, ConfigName}
      BY <1>1, <2>4, <2>5 DEF Lost, Read
    <3>2. CASE k = asked
      <4>1. Value(o) # asked
        BY <1>1, <2>1, <3>1, <3>2, OptionsAre
      <4> QED
        BY <1>5, <1>6, <3>1, <3>2, <4>1 DEF Lost
    <3>3. CASE k # asked
      BY <1>1, <2>1, <2>3, <3>1, <3>3 DEF Lost, Read
    <3> QED
      BY <3>2, <3>3
  <2> QED
    BY <2>5
<1>7. ASSUME Untroubled'
      PROVE  faults <= faults' /\ conn' # "broken" /\ requests' = <<>> /\ replies' = <<>>
  BY <1>1, <1>3, <1>5, <1>7
<1> QED
  BY <1>1, <1>4, <1>6, <1>7, CostKept

LEMMA CostClosed ==
  ASSUME CostIInv, Disconnect
  PROVE  CostInv'
<1>1. /\ TypeOK /\ TypeOK' /\ CostInv /\ pc = "disconnect" /\ pc' = "done"
      /\ conn' = "closed" /\ UNCHANGED <<late, faults, faulted, blank, asked>>
      /\ field' = [field EXCEPT ![Name] = IF @ = Blank THEN ConfigName ELSE @]
  BY WayClosed DEF CostIInv, LagIInv, Disconnect, Close
<1>2. Untroubled' => Untroubled
  BY <1>1 DEF Untroubled
<1>3. \A k \in Options : field'[k] \in {Blank, ConfigName} => field[k] \in {Blank, ConfigName}
  BY <1>1 DEF TypeOK
<1>4. Lost' \subseteq Lost
  BY <1>1, <1>3 DEF Lost, Read, Spoilt
<1>5. faults <= faults'
  BY <1>1 DEF TypeOK, WireTypeOK
<1> QED
  BY <1>1, <1>2, <1>4, <1>5, CostKept

LEMMA CostStep == CostIInv /\ [Next]_vars => CostIInv'
<1> SUFFICES ASSUME CostIInv, [Next]_vars PROVE CostInv'
  BY LagStep DEF CostIInv
<1>1. CASE UNCHANGED vars
  BY <1>1 DEF vars, wireVars, CostIInv, CostInv, Untroubled, Lost, Read, Spoilt, Arrived
<1> QED
  BY <1>1, CostSent, CostReturned, CostClosed, CostHandled, CostIgnored
  DEF Next, Finished

\* Without a late answer every field is its own option's or its default, and a
\* failed option read costs that field and no other.
THEOREM FailsAlone == Spec => []OwnOptions
<1>1. Init => CostIInv
  <2> SUFFICES ASSUME Init PROVE CostInv
    BY LagInit DEF CostIInv
  <2>1. Lost = {}
    BY OptionsAre DEF Init, WireInit, Lost, Read, Spoilt
  <2>2. Cardinality({}) = 0
    BY FS_EmptySet
  <2> QED
    BY <2>1, <2>2 DEF Init, WireInit, CostInv
<1>2. CostIInv => OwnOptions
  <2> SUFFICES ASSUME CostIInv, pc = "done", late = 0
               PROVE  /\ \A k \in Options : field[k] \in {k, Blank, ConfigName}
                      /\ "conn" \notin faulted => Cardinality(Missing) <= faults
    BY DEF OwnOptions
  <2>1. ASSUME NEW k \in Options PROVE field[k] \in {k, Blank, ConfigName}
    <3>1. field[k] \in Options => field[k] <= k /\ k - field[k] <= 0
      BY DEF CostIInv, LagIInv, FieldsLag
    <3>2. field[k] \in Options \cup {Blank, ConfigName}
      BY DEF CostIInv, LagIInv, TypeOK
    <3> QED
      BY <3>1, <3>2, OptionsAre
  <2>2. Missing = Lost
    BY DEF Missing, Lost, Read, Spoilt
  <2> QED
    BY <2>1, <2>2 DEF CostIInv, CostInv, Untroubled
<1> QED
  BY <1>1, <1>2, CostStep, PTL DEF Spec

=============================================================================
