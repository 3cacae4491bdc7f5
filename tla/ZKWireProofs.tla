---------------------------- MODULE ZKWireProofs ----------------------------
(***************************************************************************)
(* Lemmas about the steps of ZKWire: they keep its variables well typed,   *)
(* and they bound what is under way on the connection.                     *)
(***************************************************************************)
EXTENDS ZKWire, SequenceTheorems, TLAPS

\* buildPacket's increment stays a reply id.
LEMMA NextReplyIdType ==
  ASSUME NEW r \in ReplyIds
  PROVE  NextReplyId(r) \in ReplyIds
BY WireAssumption DEF ReplyIds, NextReplyId

\* Marking frames stale changes neither their type nor their number.
LEMMA SupersededType ==
  ASSUME NEW frames
  PROVE  /\ frames \in Seq(Requests) =>
              /\ Superseded(frames) \in Seq(Requests)
              /\ Len(Superseded(frames)) = Len(frames)
         /\ frames \in Seq(Replies) =>
              /\ Superseded(frames) \in Seq(Replies)
              /\ Len(Superseded(frames)) = Len(frames)
<1>1. ASSUME frames \in Seq(Requests)
      PROVE  /\ Superseded(frames) \in Seq(Requests)
             /\ Len(Superseded(frames)) = Len(frames)
  <2>1. ASSUME NEW i \in 1 .. Len(frames)
        PROVE  [frames[i] EXCEPT !.fresh = FALSE] \in Requests
    <3>1. frames[i] \in Requests
      BY <1>1
    <3> QED
      BY <3>1 DEF Requests
  <2> QED
    BY <1>1, <2>1 DEF Superseded
<1>2. ASSUME frames \in Seq(Replies)
      PROVE  /\ Superseded(frames) \in Seq(Replies)
             /\ Len(Superseded(frames)) = Len(frames)
  <2>1. ASSUME NEW i \in 1 .. Len(frames)
        PROVE  [frames[i] EXCEPT !.fresh = FALSE] \in Replies
    <3>1. frames[i] \in Replies
      BY <1>2
    <3> QED
      BY <3>1 DEF Replies
  <2> QED
    BY <1>2, <2>1 DEF Superseded
<1> QED
  BY <1>1, <1>2

LEMMA FragmentType ==
  ASSUME NEW f \in Replies
  PROVE  Fragment(f) \in Replies
BY WireAssumption DEF Replies, Fragment, ReplyIds

\* A read leaves a stream that is no longer than what it found behind the frame.
LEMMA AfterReadType ==
  ASSUME NEW behind \in Seq(Replies), NEW t \in AfterRead(behind)
  PROVE  t \in Seq(Replies) /\ Len(t) <= Len(behind)
<1>1. ASSUME NEW u \in Suffixes(behind)
      PROVE  u \in Seq(Replies) /\ Len(u) <= Len(behind)
  <2>1. CASE u = <<>>
    BY <2>1
  <2>2. ASSUME NEW l \in 1 .. Len(behind), u = SubSeq(behind, l, Len(behind))
        PROVE  u \in Seq(Replies) /\ Len(u) <= Len(behind)
    <3>1. \A i \in l .. Len(behind) : behind[i] \in Replies
      BY ElementOfSeq
    <3> QED
      BY <2>2, <3>1, SubSeqProperties
  <2> QED
    BY <2>1, <2>2, <1>1 DEF Suffixes
<1>2. ASSUME NEW u \in Suffixes(behind) \ {<<>>},
             t = <<Fragment(Head(u))>> \o Tail(u)
      PROVE  t \in Seq(Replies) /\ Len(t) <= Len(behind)
  <2>1. u \in Seq(Replies) /\ Len(u) <= Len(behind) /\ u # <<>>
    BY <1>1
  <2>2. /\ Head(u) \in Replies
        /\ Tail(u) \in Seq(Replies)
        /\ Len(Tail(u)) = Len(u) - 1
    BY <2>1, HeadTailProperties
  <2>3. <<Fragment(Head(u))>> \in Seq(Replies) /\ Len(<<Fragment(Head(u))>>) = 1
    BY <2>2, FragmentType
  <2> QED
    BY <1>2, <2>1, <2>2, <2>3, ConcatProperties
<1> QED
  BY <1>1, <1>2 DEF AfterRead

-----------------------------------------------------------------------------
\* The outcomes of an exchange are well typed, an outcome that costs a fault
\* stays within the bound, and an outcome leaves no more under way than it
\* accounts for.
LEMMA ReadOutcomesType ==
  ASSUME WireTypeOK, NEW o \in ReadOutcomes
  PROVE  /\ o \in Outcomes
         /\ faults + o.cost \in 0 .. MaxFaults
<1> USE DEF WireTypeOK
<1>0. /\ 0 \in ReplyIds
      /\ replies # <<>> =>
           /\ Head(replies) \in Replies
           /\ Tail(replies) \in Seq(Replies)
           /\ Len(Tail(replies)) = Len(replies) - 1
      /\ <<>> \in Seq(Replies)
  BY WireAssumption, HeadTailProperties DEF ReplyIds
<1>1. \A rest \in Seq(Replies), left \in {0, 1}, cost \in {0, 1} :
        /\ Failure(rest, left, cost) \in Outcomes
        /\ Failure(rest, left, cost).cost = cost
  BY <1>0 DEF Failure, Outcomes
<1>2. CASE o \in FrameArrives
  <2>1. /\ replies # <<>>
        /\ \E t \in AfterRead(Tail(replies)) : o = Success(Head(replies), t)
    BY <1>2 DEF FrameArrives
  <2>2. PICK t \in AfterRead(Tail(replies)) : o = Success(Head(replies), t)
    BY <2>1
  <2>3. t \in Seq(Replies)
    BY <1>0, <2>1, AfterReadType
  <2> QED
    BY <1>0, <2>1, <2>2, <2>3 DEF Success, Outcomes, Replies
<1>3. CASE o \in BadMagic
  <2>1. replies # <<>>
    BY <1>3 DEF BadMagic
  <2>2. ASSUME NEW t \in AfterRead(Tail(replies)), o = Failure(t, 0, 0)
        PROVE  o \in Outcomes /\ o.cost = 0
    BY <1>0, <1>1, <2>1, <2>2, AfterReadType
  <2> DEFINE f == Head(replies)
             g == [f EXCEPT !.data = SubSeq(@, 5, Len(@))]
  <2>3. <<g>> \o Tail(replies) \in Seq(Replies)
    <3>1. f \in Replies /\ f.data \in Seq(Nat)
      BY <1>0, <2>1 DEF Replies
    <3>2. SubSeq(f.data, 5, Len(f.data)) \in Seq(Nat)
      <4>1. \A i \in 5 .. Len(f.data) : f.data[i] \in Nat
        BY <3>1, ElementOfSeq
      <4> QED
        BY <3>1, <4>1, SubSeqProperties
    <3>3. g \in Replies
      BY <3>1, <3>2 DEF Replies
    <3> QED
      BY <1>0, <2>1, <3>3, ConcatProperties
  <2>4. ASSUME o = Failure(<<g>> \o Tail(replies), 1, 0)
        PROVE  o \in Outcomes /\ o.cost = 0
    BY <1>1, <2>3, <2>4
  <2> QED
    BY <1>3, <2>1, <2>2, <2>4 DEF BadMagic
<1>4. CASE o \in DeadlineBeforeFrame
  BY <1>0, <1>1, <1>4, WireAssumption DEF DeadlineBeforeFrame
<1>5. CASE o \in DeadlineInsideFrame
  <2>1. /\ replies # <<>>
        /\ faults < MaxFaults
        /\ o = Failure(<<Fragment(Head(replies))>> \o Tail(replies), 1, 1)
    BY <1>5 DEF DeadlineInsideFrame
  <2>2. <<Fragment(Head(replies))>> \o Tail(replies) \in Seq(Replies)
    BY <1>0, <2>1, FragmentType, ConcatProperties
  <2>3. o \in Outcomes /\ o.cost = 1
    BY <1>1, <2>1, <2>2
  <2> QED
    BY <2>1, <2>3, WireAssumption
<1>6. CASE o \in ConnectionError
  <2>1. o = Failure(<<>>, 0, 0)
    BY <1>6 DEF ConnectionError
  <2>2. o \in Outcomes /\ o.cost = 0
    BY <1>0, <1>1, <2>1
  <2> QED
    BY <2>2, WireAssumption
<1> QED
  BY <1>2, <1>3, <1>4, <1>5, <1>6 DEF ReadOutcomes

-----------------------------------------------------------------------------
\* Every step of the connection keeps its variables well typed.
LEMMA WriteType ==
  ASSUME WireTypeOK,
         NEW cmd \in Cmds, NEW start \in Nat, NEW n \in Nat,
         Write(cmd, start, n)
  PROVE  WireTypeOK'
<1> DEFINE q == [cmd |-> cmd, start |-> start, n |-> n,
                 id |-> NextReplyId(replyID), fresh |-> TRUE]
<1>1. NextReplyId(replyID) \in ReplyIds
  BY NextReplyIdType DEF WireTypeOK
<1>2. q \in Requests
  BY <1>1 DEF Requests
<1>3. Append(Superseded(requests), q) \in Seq(Requests)
  BY <1>2, SupersededType, AppendProperties DEF WireTypeOK
<1>4. requests' \in Seq(Requests) /\ replies' \in Seq(Replies)
  BY <1>3, SupersededType DEF WireTypeOK, Write
<1> QED
  BY <1>1, <1>4 DEF WireTypeOK, Write

LEMMA ReturnType ==
  ASSUME WireTypeOK, NEW o \in ReadOutcomes, NEW cmd \in Cmds, Return(o, cmd)
  PROVE  WireTypeOK'
<1>1. o \in Outcomes /\ faults + o.cost \in 0 .. MaxFaults
  BY ReadOutcomesType
<1>2. /\ o.id \in ReplyIds
      /\ o.rest \in Seq(Replies)
      /\ o.late \in {0, 1}
  BY <1>1 DEF Outcomes
<1>3. late' \in Nat
  BY <1>2 DEF WireTypeOK, Return
<1>4. faulted' \subseteq Cmds \cup {"conn"}
  BY DEF WireTypeOK, Return
<1>5. /\ replyID' \in ReplyIds
      /\ replies' \in Seq(Replies)
      /\ faults' \in 0 .. MaxFaults
  BY <1>1, <1>2 DEF WireTypeOK, Return
<1> QED
  BY <1>3, <1>4, <1>5 DEF WireTypeOK, Return

LEMMA HandleType ==
  ASSUME WireTypeOK, NEW a \in Answers, NEW cost \in {0, 1}, Handle(a, cost)
  PROVE  WireTypeOK'
<1> DEFINE q == Head(requests)
           f == [ans |-> q.cmd, code |-> a.code, data |-> a.data,
                 size |-> a.size, id |-> q.id, fresh |-> q.fresh]
<1>1. q \in Requests /\ Tail(requests) \in Seq(Requests)
  BY HeadTailProperties DEF WireTypeOK, Handle
<1>2. f \in Replies
  BY <1>1 DEF Requests, Answers, Replies
<1>3. Append(replies, f) \in Seq(Replies)
  BY <1>2, AppendProperties DEF WireTypeOK
<1>4. replies' \in Seq(Replies)
  BY <1>3 DEF WireTypeOK, Handle
<1>5. q.cmd \in Cmds /\ q.id \in ReplyIds
  BY <1>1 DEF Requests
<1>6. faults' \in 0 .. MaxFaults
  BY WireAssumption DEF WireTypeOK, Handle
<1>7. faulted' \subseteq Cmds \cup {"conn"}
  BY <1>5 DEF WireTypeOK, Handle
<1> QED
  BY <1>1, <1>4, <1>5, <1>6, <1>7 DEF WireTypeOK, Handle

LEMMA IgnoreType ==
  ASSUME WireTypeOK, Ignore
  PROVE  WireTypeOK'
<1>1. Head(requests) \in Requests /\ Tail(requests) \in Seq(Requests)
  BY HeadTailProperties DEF WireTypeOK, Ignore
<1>2. Head(requests).cmd \in Cmds /\ Head(requests).id \in ReplyIds
  BY <1>1 DEF Requests
<1> QED
  BY <1>1, <1>2, WireAssumption DEF WireTypeOK, Ignore

LEMMA DropType ==
  ASSUME WireTypeOK, Drop
  PROVE  WireTypeOK'
BY WireAssumption DEF WireTypeOK, Drop

LEMMA CloseType ==
  ASSUME WireTypeOK, Close
  PROVE  WireTypeOK'
<1> DEFINE q == [cmd |-> "exit", start |-> 0, n |-> 0,
                 id |-> NextReplyId(replyID), fresh |-> FALSE]
<1>1. NextReplyId(replyID) \in ReplyIds
  BY NextReplyIdType DEF WireTypeOK
<1>2. q \in Requests
  BY <1>1 DEF Requests, Cmds
<1>3. Append(Superseded(requests), q) \in Seq(Requests)
  BY <1>2, SupersededType, AppendProperties DEF WireTypeOK
<1>4. requests' \in Seq(Requests)
  BY <1>3 DEF WireTypeOK, Close
<1> QED
  BY <1>1, <1>4 DEF WireTypeOK, Close

LEMMA WireInitType ==
  ASSUME WireInit
  PROVE  WireTypeOK
<1>1. UShortMax - 1 \in ReplyIds
  BY WireAssumption DEF ReplyIds
<1>2. NextReplyId(UShortMax - 1) \in ReplyIds
  BY <1>1, NextReplyIdType
<1>3. NextReplyId(NextReplyId(UShortMax - 1)) \in ReplyIds
  BY <1>2, NextReplyIdType
<1>4. replyID \in ReplyIds /\ deviceID \in ReplyIds
  BY <1>2, <1>3 DEF WireInit
<1>5. requests \in Seq(Requests) /\ replies \in Seq(Replies)
  BY DEF WireInit
<1>6. conn \in {"up", "broken", "closed"} /\ waiting \in BOOLEAN
  BY DEF WireInit
<1>7. late \in Nat /\ faults \in 0 .. MaxFaults
  BY WireAssumption DEF WireInit
<1>8. faulted \subseteq Cmds \cup {"conn"}
  BY DEF WireInit
<1> QED
  BY <1>4, <1>5, <1>6, <1>7, <1>8 DEF WireTypeOK

-----------------------------------------------------------------------------
(* What is under way                                                       *)

\* A lost connection carries no request any more.
DropLosesRequests == conn = "broken" => requests = <<>>

\* The read of an exchange takes a frame, or accounts for the one it leaves.
LEMMA OutcomeFlight ==
  ASSUME WireTypeOK, DropLosesRequests, NEW o \in ReadOutcomes,
         InFlight <= late + 1
  PROVE  Len(requests) + Len(o.rest) <= late + o.late
<1>1. /\ Len(requests) \in Nat /\ Len(replies) \in Nat /\ late \in Nat
      /\ replies # <<>> =>
           /\ Head(replies) \in Replies
           /\ Tail(replies) \in Seq(Replies)
           /\ Len(Tail(replies)) = Len(replies) - 1
  BY HeadTailProperties DEF WireTypeOK
<1>2. Len(requests) + Len(replies) <= late + 1
  BY DEF InFlight
<1>3. \A rest, left, cost : /\ Failure(rest, left, cost).rest = rest
                           /\ Failure(rest, left, cost).late = left
  BY DEF Failure
<1>4. ASSUME NEW f \in Replies
      PROVE  Len(<<f>> \o Tail(replies)) = 1 + Len(Tail(replies)) \/ replies = <<>>
  BY <1>1, ConcatProperties
<1>5. CASE o \in FrameArrives
  <2>1. PICK t \in AfterRead(Tail(replies)) :
          replies # <<>> /\ o = Success(Head(replies), t)
    BY <1>5 DEF FrameArrives
  <2>2. Len(t) <= Len(replies) - 1 /\ Len(t) \in Nat
    <3>1. t \in Seq(Replies) /\ Len(t) <= Len(Tail(replies))
      BY <1>1, <2>1, AfterReadType
    <3> QED
      BY <1>1, <2>1, <3>1
  <2>3. o.rest = t /\ o.late = 0
    BY <2>1 DEF Success
  <2> QED
    BY <1>1, <1>2, <2>2, <2>3
<1>6. CASE o \in BadMagic
  <2> DEFINE f == Head(replies)
             g == [f EXCEPT !.data = SubSeq(@, 5, Len(@))]
  <2>1. replies # <<>>
    BY <1>6 DEF BadMagic
  <2>2. ASSUME NEW t \in AfterRead(Tail(replies)), o = Failure(t, 0, 0)
        PROVE  Len(requests) + Len(o.rest) <= late + o.late
    <3>1. Len(t) <= Len(replies) - 1 /\ Len(t) \in Nat
      <4>1. t \in Seq(Replies) /\ Len(t) <= Len(Tail(replies))
        BY <1>1, <2>1, AfterReadType
      <4> QED
        BY <1>1, <2>1, <4>1
    <3>2. o.rest = t /\ o.late = 0
      BY <1>3, <2>2
    <3> QED
      BY <1>1, <1>2, <3>1, <3>2
  <2>3. ASSUME o = Failure(<<g>> \o Tail(replies), 1, 0)
        PROVE  Len(requests) + Len(o.rest) <= late + o.late
    <3>1. Len(<<g>> \o Tail(replies)) = Len(replies)
      <4>1. /\ <<g>> \in Seq({g} \cup Replies)
            /\ Len(<<g>>) = 1
            /\ Tail(replies) \in Seq({g} \cup Replies)
        BY <1>1, <2>1, SeqMonotonic
      <4> QED
        BY <1>1, <2>1, <4>1, ConcatProperties
    <3>2. o.rest = <<g>> \o Tail(replies) /\ o.late = 1
      BY <2>3 DEF Failure
    <3> QED
      BY <1>1, <1>2, <3>1, <3>2
  <2> QED
    BY <1>6, <2>1, <2>2, <2>3 DEF BadMagic
<1>7. CASE o \in DeadlineBeforeFrame
  <2>1. /\ replies = <<>>
        /\ \/ requests = <<>> /\ o = Failure(<<>>, 0, 0)
           \/ o = Failure(<<>>, 1, 1)
    BY <1>7 DEF DeadlineBeforeFrame
  <2>2. o.rest = <<>> /\ (requests = <<>> \/ o.late = 1) /\ o.late \in {0, 1}
    BY <1>3, <2>1
  <2> QED
    BY <1>1, <1>2, <2>1, <2>2
<1>8. CASE o \in DeadlineInsideFrame
  <2>1. /\ replies # <<>>
        /\ o = Failure(<<Fragment(Head(replies))>> \o Tail(replies), 1, 1)
    BY <1>8 DEF DeadlineInsideFrame
  <2>2. Len(<<Fragment(Head(replies))>> \o Tail(replies)) = Len(replies)
    BY <1>1, <1>4, <2>1, FragmentType
  <2>3. o.rest = <<Fragment(Head(replies))>> \o Tail(replies) /\ o.late = 1
    BY <2>1 DEF Failure
  <2> QED
    BY <1>1, <1>2, <2>2, <2>3
<1>9. CASE o \in ConnectionError
  <2>1. conn = "broken" /\ o = Failure(<<>>, 0, 0)
    BY <1>9 DEF ConnectionError
  <2>2. o.rest = <<>> /\ o.late = 0
    BY <1>3, <2>1
  <2>3. requests = <<>>
    BY <2>1 DEF DropLosesRequests
  <2> QED
    BY <1>1, <2>2, <2>3
<1> QED
  BY <1>5, <1>6, <1>7, <1>8, <1>9 DEF ReadOutcomes

\* The bound on what is under way, with what makes it inductive.
FlightInv == InFlightBound /\ DropLosesRequests

LEMMA WriteFlight ==
  ASSUME WireTypeOK, FlightInv, conn # "closed",
         NEW cmd \in Cmds, NEW start \in Nat, NEW n \in Nat,
         Write(cmd, start, n)
  PROVE  FlightInv'
<1> DEFINE q == [cmd |-> cmd, start |-> start, n |-> n,
                 id |-> NextReplyId(replyID), fresh |-> TRUE]
<1>1. q \in Requests
  BY NextReplyIdType DEF Requests, WireTypeOK
<1>2. /\ Superseded(requests) \in Seq(Requests)
      /\ Len(Superseded(requests)) = Len(requests)
      /\ Len(Superseded(replies)) = Len(replies)
      /\ Len(requests) \in Nat /\ Len(replies) \in Nat /\ late \in Nat
  BY SupersededType DEF WireTypeOK
<1>3. Len(Append(Superseded(requests), q)) = Len(requests) + 1
  BY <1>1, <1>2, AppendProperties
<1>4. Len(requests') <= Len(requests) + 1 /\ Len(requests') \in Nat
  BY <1>2, <1>3 DEF Write
<1>5. InFlight <= late
  BY <1>2 DEF Write, FlightInv, InFlightBound
<1>6. InFlight' <= late + 1
  BY <1>2, <1>4, <1>5 DEF Write, InFlight
<1>7. waiting' /\ late' = late
  BY DEF Write
<1> QED
  BY <1>6, <1>7 DEF Write, FlightInv, InFlightBound, DropLosesRequests

LEMMA ReturnFlight ==
  ASSUME WireTypeOK, FlightInv, conn # "closed",
         NEW o \in ReadOutcomes, NEW cmd, Return(o, cmd)
  PROVE  FlightInv'
<1>1. InFlight <= late + 1
  BY DEF Return, FlightInv, InFlightBound
<1>2. Len(requests) + Len(o.rest) <= late + o.late
  BY <1>1, OutcomeFlight DEF FlightInv
<1>3. InFlight' <= late'
  BY <1>2 DEF Return, InFlight
<1>4. late' \in Nat
  <2>1. o.late \in {0, 1}
    BY ReadOutcomesType DEF Outcomes
  <2> QED
    BY <2>1 DEF Return, WireTypeOK
<1>5. ~waiting' /\ conn' # "closed"
  BY DEF Return
<1> QED
  BY <1>3, <1>4, <1>5
  DEF Return, FlightInv, InFlightBound, DropLosesRequests

LEMMA HandleFlight ==
  ASSUME WireTypeOK, FlightInv, NEW a \in Answers, NEW cost, Handle(a, cost)
  PROVE  FlightInv'
<1> DEFINE q == Head(requests)
           f == [ans |-> q.cmd, code |-> a.code, data |-> a.data,
                 size |-> a.size, id |-> q.id, fresh |-> q.fresh]
<1>1. /\ q \in Requests
      /\ Tail(requests) \in Seq(Requests)
      /\ Len(Tail(requests)) = Len(requests) - 1
      /\ Len(requests) \in Nat /\ Len(replies) \in Nat
  BY HeadTailProperties DEF WireTypeOK, Handle
<1>2. f \in Replies
  BY <1>1 DEF Requests, Answers, Replies
<1>3. Len(Append(replies, f)) = Len(replies) + 1
  BY <1>2, AppendProperties DEF WireTypeOK
<1>4. Len(replies') \in {Len(replies), Len(replies) + 1}
  BY <1>3 DEF Handle
<1>5. InFlight' <= InFlight /\ InFlight \in Nat /\ InFlight' \in Nat
  BY <1>1, <1>4 DEF Handle, InFlight
<1>6. UNCHANGED <<conn, waiting, late>> /\ late \in Nat
  BY DEF Handle, WireTypeOK
<1>7. InFlightBound'
  BY <1>5, <1>6 DEF FlightInv, InFlightBound
<1> QED
  BY <1>7 DEF Handle, FlightInv, DropLosesRequests

LEMMA IgnoreFlight ==
  ASSUME WireTypeOK, FlightInv, Ignore
  PROVE  FlightInv'
<1>1. /\ Len(Tail(requests)) = Len(requests) - 1
      /\ Len(requests) \in Nat /\ Len(replies) \in Nat /\ late \in Nat
  BY HeadTailProperties DEF WireTypeOK, Ignore
<1>2. InFlightBound'
  BY <1>1 DEF Ignore, FlightInv, InFlightBound, InFlight
<1> QED
  BY <1>2 DEF Ignore, FlightInv, DropLosesRequests

LEMMA DropFlight ==
  ASSUME WireTypeOK, FlightInv, Drop
  PROVE  FlightInv'
<1>1. /\ Len(<<>>) = 0
      /\ Len(requests) \in Nat /\ Len(replies) \in Nat /\ late \in Nat
  BY DEF WireTypeOK
<1>2. InFlightBound'
  BY <1>1 DEF Drop, FlightInv, InFlightBound, InFlight
<1> QED
  BY <1>2 DEF Drop, FlightInv, DropLosesRequests

LEMMA CloseFlight ==
  ASSUME WireTypeOK, FlightInv, Close
  PROVE  FlightInv'
<1> DEFINE q == [cmd |-> "exit", start |-> 0, n |-> 0,
                 id |-> NextReplyId(replyID), fresh |-> FALSE]
<1>1. q \in Requests
  BY NextReplyIdType DEF Requests, WireTypeOK, Cmds
<1>2. /\ Superseded(requests) \in Seq(Requests)
      /\ Len(Superseded(requests)) = Len(requests)
      /\ Len(requests) \in Nat /\ Len(replies) \in Nat /\ late \in Nat
      /\ Len(<<>>) = 0
  BY SupersededType DEF WireTypeOK
<1>3. Len(Append(Superseded(requests), q)) = Len(requests) + 1
  BY <1>1, <1>2, AppendProperties
<1>4. Len(requests') <= Len(requests) + 1 /\ Len(requests') \in Nat
  BY <1>2, <1>3 DEF Close
<1>5. InFlight <= late
  BY <1>2 DEF Close, FlightInv, InFlightBound
<1>6. InFlight' <= late + 1
  BY <1>2, <1>4, <1>5 DEF Close, InFlight
<1>7. conn' = "closed" /\ late' = late
  BY DEF Close
<1> QED
  BY <1>6, <1>7 DEF FlightInv, InFlightBound, DropLosesRequests

-----------------------------------------------------------------------------
(* Which frames are under way.  A set of frames that is closed under what  *)
(* reads and writes do to a frame is not left by them.                     *)

Shorter(f) == [f EXCEPT !.data = SubSeq(@, 5, Len(@))]

ReadClosed(S) ==
  \A f \in S : Fragment(f) \in S /\ (IsFragment(f) => Shorter(f) \in S)

StaleClosed(S) == \A f \in S : [f EXCEPT !.fresh = FALSE] \in S

LEMMA SupersededIn ==
  ASSUME NEW S, StaleClosed(S), NEW frames \in Seq(S)
  PROVE  Superseded(frames) \in Seq(S)
<1>1. ASSUME NEW i \in 1 .. Len(frames)
      PROVE  [frames[i] EXCEPT !.fresh = FALSE] \in S
  <2>1. frames[i] \in S
    OBVIOUS
  <2> QED
    BY <2>1 DEF StaleClosed
<1> QED
  BY <1>1 DEF Superseded

LEMMA AfterReadIn ==
  ASSUME NEW S, ReadClosed(S), NEW behind \in Seq(S), NEW t \in AfterRead(behind)
  PROVE  t \in Seq(S)
<1>1. ASSUME NEW u \in Suffixes(behind)
      PROVE  u \in Seq(S)
  <2>1. CASE u = <<>>
    BY <2>1
  <2>2. ASSUME NEW l \in 1 .. Len(behind), u = SubSeq(behind, l, Len(behind))
        PROVE  u \in Seq(S)
    <3>1. \A i \in l .. Len(behind) : behind[i] \in S
      BY ElementOfSeq
    <3> QED
      BY <2>2, <3>1, SubSeqProperties
  <2> QED
    BY <2>1, <2>2, <1>1 DEF Suffixes
<1>2. ASSUME NEW u \in Suffixes(behind) \ {<<>>},
             t = <<Fragment(Head(u))>> \o Tail(u)
      PROVE  t \in Seq(S)
  <2>1. Head(u) \in S /\ Tail(u) \in Seq(S)
    BY <1>1, HeadTailProperties
  <2>2. <<Fragment(Head(u))>> \in Seq(S)
    BY <2>1 DEF ReadClosed
  <2> QED
    BY <1>2, <2>1, <2>2, ConcatProperties
<1> QED
  BY <1>1, <1>2 DEF AfterRead

LEMMA OutcomeIn ==
  ASSUME NEW S, ReadClosed(S), replies \in Seq(S), NEW o \in ReadOutcomes
  PROVE  /\ o.rest \in Seq(S)
         /\ o.ok => \E f \in S : /\ ~IsFragment(f)
                                /\ o.ans = f.ans /\ o.data = f.data
<1>1. ASSUME replies # <<>>
      PROVE  Head(replies) \in S /\ Tail(replies) \in Seq(S)
  BY <1>1, HeadTailProperties
<1>2. ASSUME NEW f \in S, replies # <<>>
      PROVE  <<f>> \o Tail(replies) \in Seq(S)
  <2>1. <<f>> \in Seq(S)
    OBVIOUS
  <2> QED
    BY <1>1, <1>2, <2>1, ConcatProperties
<1>3. <<>> \in Seq(S)
  OBVIOUS
<1>4. ASSUME NEW rest \in Seq(S), NEW left, NEW cost, o = Failure(rest, left, cost)
      PROVE  o.rest \in Seq(S) /\ ~o.ok
  BY <1>4 DEF Failure
<1>5. CASE o \in FrameArrives
  <2>1. PICK t \in AfterRead(Tail(replies)) :
          /\ replies # <<>>
          /\ ~IsFragment(Head(replies))
          /\ o = Success(Head(replies), t)
    BY <1>5 DEF FrameArrives
  <2>2. t \in Seq(S) /\ Head(replies) \in S
    BY <1>1, <2>1, AfterReadIn
  <2>3. o.rest = t /\ o.ans = Head(replies).ans /\ o.data = Head(replies).data
    BY <2>1 DEF Success
  <2> QED
    BY <2>1, <2>2, <2>3
<1>6. CASE o \in BadMagic
  <2>1. replies # <<>> /\ IsFragment(Head(replies))
    BY <1>6 DEF BadMagic
  <2>2. \/ \E t \in AfterRead(Tail(replies)) : o = Failure(t, 0, 0)
        \/ o = Failure(<<Shorter(Head(replies))>> \o Tail(replies), 1, 0)
    BY <1>6, <2>1 DEF BadMagic, Shorter
  <2>3. \A t \in AfterRead(Tail(replies)) : t \in Seq(S)
    BY <1>1, <2>1, AfterReadIn
  <2>4. <<Shorter(Head(replies))>> \o Tail(replies) \in Seq(S)
    BY <1>1, <1>2, <2>1 DEF ReadClosed
  <2> QED
    BY <1>4, <2>2, <2>3, <2>4
<1>7. CASE o \in DeadlineBeforeFrame
  <2>1. o = Failure(<<>>, 0, 0) \/ o = Failure(<<>>, 1, 1)
    BY <1>7 DEF DeadlineBeforeFrame
  <2> QED
    BY <1>3, <1>4, <2>1
<1>8. CASE o \in DeadlineInsideFrame
  <2>1. /\ replies # <<>>
        /\ o = Failure(<<Fragment(Head(replies))>> \o Tail(replies), 1, 1)
    BY <1>8 DEF DeadlineInsideFrame
  <2>2. <<Fragment(Head(replies))>> \o Tail(replies) \in Seq(S)
    BY <1>1, <1>2, <2>1 DEF ReadClosed
  <2> QED
    BY <1>4, <2>1, <2>2
<1>9. CASE o \in ConnectionError
  <2>1. o = Failure(<<>>, 0, 0)
    BY <1>9 DEF ConnectionError
  <2> QED
    BY <1>3, <1>4, <2>1
<1> QED
  BY <1>5, <1>6, <1>7, <1>8, <1>9 DEF ReadOutcomes

\* A read leaves the end of what had arrived, at most its first frame cut: it
\* takes a frame off the stream, or leaves the answer late, or nothing is under
\* way.
LEMMA AfterReadEnds ==
  ASSUME NEW behind \in Seq(Replies), NEW t \in AfterRead(behind)
  PROVE  \E d \in 0 .. Len(behind) :
           /\ Len(t) = Len(behind) - d
           /\ \A i \in 1 .. Len(t) : t[i] = behind[i + d] \/ IsFragment(t[i])
<1>1. ASSUME NEW u \in Suffixes(behind)
      PROVE  \E d \in 0 .. Len(behind) :
               /\ u \in Seq(Replies) /\ Len(u) = Len(behind) - d
               /\ \A i \in 1 .. Len(u) : u[i] = behind[i + d]
  <2>1. CASE u = <<>>
    <3>1. Len(behind) \in 0 .. Len(behind) /\ Len(u) = Len(behind) - Len(behind)
          /\ u \in Seq(Replies) /\ \A i \in 1 .. Len(u) : FALSE
      BY <2>1
    <3> QED
      BY <3>1
  <2>2. ASSUME NEW l \in 1 .. Len(behind), u = SubSeq(behind, l, Len(behind))
        PROVE  \E d \in 0 .. Len(behind) :
                 /\ u \in Seq(Replies) /\ Len(u) = Len(behind) - d
                 /\ \A i \in 1 .. Len(u) : u[i] = behind[i + d]
    <3>1. Len(behind) \in Nat /\ l - 1 \in 0 .. Len(behind)
      OBVIOUS
    <3>2. \A i \in l .. Len(behind) : behind[i] \in Replies
      BY <3>1, ElementOfSeq
    <3>3. /\ u \in Seq(Replies) /\ Len(u) = Len(behind) - (l - 1)
          /\ \A i \in 1 .. Len(u) : u[i] = behind[i + (l - 1)]
      BY <2>2, <3>1, <3>2, SubSeqProperties
    <3> QED
      BY <3>1, <3>3
  <2> QED
    BY <2>1, <2>2, <1>1 DEF Suffixes
<1>2. CASE t \in Suffixes(behind)
  BY <1>1, <1>2
<1>3. ASSUME NEW u \in Suffixes(behind) \ {<<>>},
             t = <<Fragment(Head(u))>> \o Tail(u)
      PROVE  \E d \in 0 .. Len(behind) :
               /\ Len(t) = Len(behind) - d
               /\ \A i \in 1 .. Len(t) : t[i] = behind[i + d] \/ IsFragment(t[i])
  <2>1. PICK d \in 0 .. Len(behind) :
          /\ u \in Seq(Replies) /\ Len(u) = Len(behind) - d
          /\ \A i \in 1 .. Len(u) : u[i] = behind[i + d]
    BY <1>1
  <2> DEFINE f == Fragment(Head(u))
  <2>2. /\ Tail(u) \in Seq(Replies) /\ Len(u) \in Nat \ {0}
        /\ Len(Tail(u)) = Len(u) - 1
        /\ \A i \in 1 .. Len(u) - 1 : Tail(u)[i] = u[i + 1]
    BY <2>1, HeadTailProperties, EmptySeq
  <2>3. IsFragment(f)
    BY DEF IsFragment, Fragment
  <2>4. <<f>> \in Seq(Replies \cup {f}) /\ Len(<<f>>) = 1 /\ <<f>>[1] = f
        /\ Tail(u) \in Seq(Replies \cup {f})
    BY <2>2
  <2>5. t = <<f>> \o Tail(u)
    BY <1>3
  <2> HIDE DEF f
  <2>6. /\ Len(t) = Len(u) /\ t[1] = f
        /\ \A i \in 2 .. Len(t) : t[i] = Tail(u)[i - 1]
    BY <2>2, <2>4, <2>5, ConcatProperties
  <2>7. ASSUME NEW i \in 1 .. Len(t)
        PROVE  t[i] = behind[i + d] \/ IsFragment(t[i])
    <3>1. CASE i = 1
      BY <2>3, <2>6, <3>1
    <3>2. CASE i # 1
      <4>1. i \in 2 .. Len(t) /\ i - 1 \in 1 .. Len(u) - 1 /\ i - 1 + 1 = i
            /\ i \in 1 .. Len(u)
        BY <2>2, <2>6, <3>2
      <4>2. t[i] = Tail(u)[i - 1] /\ Tail(u)[i - 1] = u[i - 1 + 1]
        BY <2>2, <2>6, <4>1
      <4> QED
        BY <2>1, <4>1, <4>2
    <3> QED
      BY <3>1, <3>2
  <2> QED
    BY <2>1, <2>6, <2>7
<1> QED
  BY <1>2, <1>3 DEF AfterRead

LEMMA ReadEnds ==
  ASSUME WireTypeOK, DropLosesRequests, NEW o \in ReadOutcomes
  PROVE  \E d \in 0 .. Len(replies) :
           /\ Len(o.rest) = Len(replies) - d
           /\ \A i \in 1 .. Len(o.rest) :
                o.rest[i] = replies[i + d] \/ IsFragment(o.rest[i])
           /\ d = 0 => ~o.ok /\ (o.late = 1 \/ InFlight = 0)
<1> DEFINE Ends(rest, d) ==
             /\ Len(rest) = Len(replies) - d
             /\ \A i \in 1 .. Len(rest) :
                  rest[i] = replies[i + d] \/ IsFragment(rest[i])
<1>1. replies \in Seq(Replies) /\ requests \in Seq(Requests)
      /\ Len(replies) \in Nat /\ Len(requests) \in Nat
  BY DEF WireTypeOK
<1>2. ASSUME replies # <<>>, NEW t \in AfterRead(Tail(replies))
      PROVE  \E d \in 0 .. Len(replies) : d > 0 /\ Ends(t, d)
  <2>1. /\ Tail(replies) \in Seq(Replies) /\ Len(replies) \in Nat \ {0}
        /\ Len(Tail(replies)) = Len(replies) - 1
        /\ \A i \in 1 .. Len(replies) - 1 : Tail(replies)[i] = replies[i + 1]
    BY <1>1, <1>2, HeadTailProperties, EmptySeq
  <2>2. PICK e \in 0 .. Len(Tail(replies)) :
          /\ Len(t) = Len(Tail(replies)) - e
          /\ \A i \in 1 .. Len(t) : t[i] = Tail(replies)[i + e] \/ IsFragment(t[i])
    BY <2>1, AfterReadEnds
  <2>3. e + 1 \in 0 .. Len(replies) /\ e + 1 > 0 /\ Len(t) = Len(replies) - (e + 1)
    BY <2>1, <2>2
  <2>4. ASSUME NEW i \in 1 .. Len(t)
        PROVE  t[i] = replies[i + (e + 1)] \/ IsFragment(t[i])
    <3>1. i + e \in 1 .. Len(replies) - 1 /\ (i + e) + 1 = i + (e + 1)
      BY <2>1, <2>2
    <3> QED
      BY <2>1, <2>2, <3>1
  <2> QED
    BY <2>3, <2>4
<1>3. ASSUME NEW f, IsFragment(f), replies # <<>>
      PROVE  Ends(<<f>> \o Tail(replies), 0)
  <2> DEFINE rest == <<f>> \o Tail(replies)
  <2>1. /\ Tail(replies) \in Seq(Replies) /\ Len(replies) \in Nat \ {0}
        /\ Len(Tail(replies)) = Len(replies) - 1
        /\ \A i \in 1 .. Len(replies) - 1 : Tail(replies)[i] = replies[i + 1]
    BY <1>1, <1>3, HeadTailProperties, EmptySeq
  <2>2. <<f>> \in Seq(Replies \cup {f}) /\ Len(<<f>>) = 1 /\ <<f>>[1] = f
        /\ Tail(replies) \in Seq(Replies \cup {f})
    BY <2>1
  <2>3. /\ Len(rest) = Len(replies) /\ rest[1] = f
        /\ \A i \in 2 .. Len(rest) : rest[i] = Tail(replies)[i - 1]
    BY <2>1, <2>2, ConcatProperties
  <2> HIDE DEF rest
  <2>4. ASSUME NEW i \in 1 .. Len(rest)
        PROVE  rest[i] = replies[i + 0] \/ IsFragment(rest[i])
    <3>1. CASE i = 1
      BY <1>3, <2>3, <3>1
    <3>2. CASE i # 1
      <4>1. i \in 2 .. Len(rest) /\ i - 1 \in 1 .. Len(replies) - 1
            /\ i - 1 + 1 = i /\ i + 0 = i
        BY <2>1, <2>3, <3>2
      <4> QED
        BY <2>1, <2>3, <4>1
    <3> QED
      BY <3>1, <3>2
  <2>5. Ends(rest, 0)
    BY <1>1, <2>3, <2>4
  <2> QED
    BY <2>5 DEF rest
<1>4. Ends(<<>>, Len(replies))
  BY <1>1
<1>5. replies = <<>> <=> Len(replies) = 0
  BY <1>1, EmptySeq
<1>6. requests = <<>> => Len(requests) = 0
  OBVIOUS
<1>7. 0 \in 0 .. Len(replies) /\ Len(replies) \in 0 .. Len(replies)
  BY <1>1
<1> HIDE DEF Ends
<1>8. \A rest, left, cost :
        /\ ~Failure(rest, left, cost).ok
        /\ Failure(rest, left, cost).rest = rest
        /\ Failure(rest, left, cost).late = left
  BY DEF Failure
<1>9. \A f : IsFragment(Fragment(f)) /\ (IsFragment(f) => IsFragment(Shorter(f)))
  BY DEF IsFragment, Fragment, Shorter
<1>10. \E d \in 0 .. Len(replies) :
         Ends(o.rest, d) /\ (d = 0 => ~o.ok /\ (o.late = 1 \/ InFlight = 0))
  <2>1. CASE o \in FrameArrives
    <3>1. PICK t \in AfterRead(Tail(replies)) :
            replies # <<>> /\ o = Success(Head(replies), t)
      BY <2>1 DEF FrameArrives
    <3>2. o.rest = t
      BY <3>1 DEF Success
    <3> QED
      BY <1>2, <3>1, <3>2
  <2>2. CASE o \in BadMagic
    <3>1. replies # <<>> /\ IsFragment(Head(replies))
      BY <2>2 DEF BadMagic
    <3>2. CASE \E t \in AfterRead(Tail(replies)) : o = Failure(t, 0, 0)
      BY <1>2, <1>8, <3>1, <3>2
    <3>3. CASE o = Failure(<<Shorter(Head(replies))>> \o Tail(replies), 1, 0)
      BY <1>3, <1>7, <1>8, <1>9, <3>1, <3>3
    <3> QED
      BY <2>2, <3>1, <3>2, <3>3 DEF BadMagic, Shorter
  <2>3. CASE o \in DeadlineBeforeFrame
    <3>1. replies = <<>> /\ (\/ o = Failure(<<>>, 0, 0) /\ requests = <<>>
                             \/ o = Failure(<<>>, 1, 1))
      BY <2>3 DEF DeadlineBeforeFrame
    <3>2. requests = <<>> => InFlight = 0
      BY <1>5, <1>6, <3>1 DEF InFlight
    <3> QED
      BY <1>4, <1>7, <1>8, <3>1, <3>2
  <2>4. CASE o \in DeadlineInsideFrame
    <3>1. replies # <<>> /\ o = Failure(<<Fragment(Head(replies))>> \o Tail(replies), 1, 1)
      BY <2>4 DEF DeadlineInsideFrame
    <3> QED
      BY <1>3, <1>7, <1>8, <1>9, <3>1
  <2>5. CASE o \in ConnectionError
    <3>1. requests = <<>> /\ o = Failure(<<>>, 0, 0)
      BY <2>5 DEF ConnectionError, DropLosesRequests
    <3>2. Len(replies) = 0 => InFlight = 0
      BY <1>1, <1>6, <3>1 DEF InFlight
    <3> QED
      BY <1>4, <1>7, <1>8, <3>1, <3>2
  <2> QED
    BY <2>1, <2>2, <2>3, <2>4, <2>5 DEF ReadOutcomes
<1> QED
  BY <1>10 DEF Ends

-----------------------------------------------------------------------------
(* One exchange at a time.  While no answer has been late, at most one     *)
(* frame is under way, and it belongs to the exchange the server is in.    *)

LEMMA AloneUnderWay ==
  ASSUME WireTypeOK, InFlightBound, late = 0, conn # "closed"
  PROVE  /\ ~waiting => requests = <<>> /\ replies = <<>>
         /\ requests # <<>> => Tail(requests) = <<>> /\ replies = <<>>
         /\ replies # <<>> => Tail(replies) = <<>> /\ requests = <<>>
<1>0. \A m \in Nat, n \in Nat :
        m + n <= 1 => (m # 0 => m = 1 /\ n = 0) /\ (n # 0 => m = 0 /\ n = 1)
  OBVIOUS
<1>1. /\ requests \in Seq(Requests) /\ replies \in Seq(Replies)
      /\ Len(requests) \in Nat /\ Len(replies) \in Nat
      /\ requests = <<>> <=> Len(requests) = 0
      /\ replies = <<>> <=> Len(replies) = 0
  BY EmptySeq DEF WireTypeOK
<1>2. /\ Len(requests) + Len(replies) <= 1
      /\ ~waiting => Len(requests) + Len(replies) <= 0
  BY <1>1 DEF InFlightBound, InFlight, WireTypeOK
<1>3. ASSUME requests # <<>>
      PROVE  Tail(requests) = <<>> /\ replies = <<>>
  <2>1. Len(requests) = 1 /\ Len(replies) = 0
    <3>1. Len(requests) # 0
      BY <1>1, <1>3
    <3> QED
      BY <1>1, <1>2, <1>0, <3>1
  <2>2. Tail(requests) \in Seq(Requests) /\ Len(Tail(requests)) = 0
    BY <1>1, <1>3, <2>1, HeadTailProperties
  <2> QED
    BY <1>1, <2>1, <2>2, EmptySeq
<1>4. ASSUME replies # <<>>
      PROVE  Tail(replies) = <<>> /\ requests = <<>>
  <2>1. Len(requests) = 0 /\ Len(replies) = 1
    <3>1. Len(replies) # 0
      BY <1>1, <1>4
    <3> QED
      BY <1>1, <1>2, <1>0, <3>1
  <2>2. Tail(replies) \in Seq(Replies) /\ Len(Tail(replies)) = 0
    BY <1>1, <1>4, <2>1, HeadTailProperties
  <2> QED
    BY <1>1, <2>1, <2>2, EmptySeq
<1>5. ~waiting => requests = <<>> /\ replies = <<>>
  BY <1>1, <1>2
<1> QED
  BY <1>3, <1>4, <1>5

\* A write to an idle connection is the only thing under way on it.
LEMMA FirstWrite ==
  ASSUME requests = <<>>, replies = <<>>,
         NEW cmd, NEW start, NEW n, Write(cmd, start, n)
  PROVE  /\ replies' = <<>>
         /\ requests' # <<>> <=> conn = "up"
         /\ requests' # <<>> =>
              Head(requests') = [cmd |-> cmd, start |-> start, n |-> n,
                                 id |-> NextReplyId(replyID), fresh |-> TRUE]
<1>1. Superseded(<<>>) = <<>>
  BY DEF Superseded
<1>2. \A q : /\ Append(<<>>, q) = <<q>> /\ Head(<<q>>) = q
             /\ Append(<<>>, q) # <<>>
  OBVIOUS
<1>3. replies' = <<>>
  BY <1>1 DEF Write
<1>4. CASE conn = "up"
  <2>1. requests' = Append(<<>>, [cmd |-> cmd, start |-> start, n |-> n,
                                  id |-> NextReplyId(replyID), fresh |-> TRUE])
    BY <1>1, <1>4 DEF Write
  <2> QED
    BY <1>2, <1>3, <1>4, <2>1
<1>5. CASE conn # "up"
  BY <1>3, <1>5 DEF Write
<1> QED
  BY <1>4, <1>5

\* The answer to the only request is the only frame.
LEMMA FirstReply ==
  ASSUME requests # <<>>, Tail(requests) = <<>>, replies = <<>>,
         NEW a, NEW cost, Handle(a, cost)
  PROVE  /\ requests' = <<>>
         /\ replies' # <<>> <=> conn = "up"
         /\ replies' # <<>> =>
              Head(replies') = [ans |-> Head(requests).cmd, code |-> a.code,
                                data |-> a.data, size |-> a.size,
                                id |-> Head(requests).id,
                                fresh |-> Head(requests).fresh]
<1>1. \A f : Append(<<>>, f) = <<f>> /\ Head(<<f>>) = f /\ Append(<<>>, f) # <<>>
  OBVIOUS
<1>2. CASE conn = "up"
  <2>1. replies' = Append(<<>>, [ans |-> Head(requests).cmd, code |-> a.code,
                                 data |-> a.data, size |-> a.size,
                                 id |-> Head(requests).id,
                                 fresh |-> Head(requests).fresh])
    BY <1>2 DEF Handle
  <2> QED
    BY <1>1, <1>2, <2>1 DEF Handle
<1>3. CASE conn # "up"
  BY <1>3 DEF Handle
<1> QED
  BY <1>2, <1>3

\* An exchange succeeds with the frame at the head of the stream.
LEMMA OkOutcome ==
  ASSUME NEW o \in ReadOutcomes, o.ok
  PROVE  /\ replies # <<>> /\ ~IsFragment(Head(replies))
         /\ o.ans = Head(replies).ans /\ o.code = Head(replies).code
         /\ o.data = Head(replies).data /\ o.size = Head(replies).size
         /\ o.id = Head(replies).id
         /\ o.late = 0 /\ o.cost = 0
         /\ o.rest \in AfterRead(Tail(replies))
<1>1. \A rest, left, cost : ~Failure(rest, left, cost).ok
  BY DEF Failure
<1>2. o \in FrameArrives
  BY <1>1 DEF ReadOutcomes, BadMagic, DeadlineBeforeFrame, DeadlineInsideFrame,
              ConnectionError
<1>3. PICK t \in AfterRead(Tail(replies)) :
        /\ replies # <<>> /\ ~IsFragment(Head(replies))
        /\ o = Success(Head(replies), t)
  BY <1>2 DEF FrameArrives
<1> QED
  BY <1>3 DEF Success

\* While no answer has been late, an exchange that succeeds leaves nothing.
LEMMA FirstRead ==
  ASSUME WireTypeOK, InFlightBound, late = 0, conn # "closed",
         NEW o \in ReadOutcomes, o.ok
  PROVE  requests = <<>> /\ o.rest = <<>>
<1>1. replies # <<>> /\ o.rest \in AfterRead(Tail(replies))
  BY OkOutcome
<1>2. Tail(replies) = <<>> /\ requests = <<>>
  BY <1>1, AloneUnderWay
<1>3. <<>> \in Seq(Replies) /\ Len(<<>>) = 0
  OBVIOUS
<1>4. o.rest \in Seq(Replies) /\ Len(o.rest) <= 0
  BY <1>1, <1>2, <1>3, AfterReadType
<1> QED
  BY <1>2, <1>4, EmptySeq

\* With the answer owed or there, an exchange can only fail by leaving it late.
LEMMA NoFailure ==
  ASSUME conn # "broken", requests # <<>> \/ replies # <<>>,
         replies # <<>> => ~IsFragment(Head(replies)),
         NEW o \in ReadOutcomes, o.late = 0
  PROVE  o.ok
<1>1. \A rest, left, cost : Failure(rest, left, cost).late = left
  BY DEF Failure
<1>2. o \notin BadMagic
  BY DEF BadMagic
<1>3. o \notin DeadlineBeforeFrame
  BY <1>1 DEF DeadlineBeforeFrame
<1>4. o \notin DeadlineInsideFrame
  BY <1>1 DEF DeadlineInsideFrame
<1>5. o \notin ConnectionError
  BY DEF ConnectionError
<1>6. o \in FrameArrives
  BY <1>2, <1>3, <1>4, <1>5 DEF ReadOutcomes
<1> QED
  BY <1>6 DEF FrameArrives, Success

-----------------------------------------------------------------------------
(* Reply ids.  While no answer has been late, the session's id is that of  *)
(* the one request the device has not taken, or of the last one it took.   *)

Wrapped == 0 .. UShortMax - 1

IdsInv ==
  late = 0 =>
    /\ conn = "up" =>
         /\ replyID \in Wrapped /\ deviceID \in Wrapped
         /\ IF requests = <<>> THEN replyID = deviceID
            ELSE /\ Head(requests).id = replyID
                 /\ replyID = (deviceID + 1) % UShortMax
         /\ replies # <<>> => Head(replies).id = deviceID
    /\ IdContinues

\* buildPacket's wrap is that of arithmetic modulo 65535.
LEMMA NextReplyIdWraps ==
  ASSUME NEW r \in Wrapped
  PROVE  NextReplyId(r) = (r + 1) % UShortMax /\ NextReplyId(r) \in Wrapped
<1>1. UShortMax \in Nat \ {0} /\ r \in Nat /\ r + 1 <= UShortMax
  BY WireAssumption DEF Wrapped
<1>2. CASE r + 1 = UShortMax
  <2>1. (r + 1) % UShortMax = 0
    BY <1>1, <1>2
  <2> QED
    BY <1>1, <1>2, <2>1 DEF NextReplyId, Wrapped
<1>3. CASE r + 1 < UShortMax
  <2>1. (r + 1) % UShortMax = r + 1
    BY <1>1, <1>3
  <2> QED
    BY <1>1, <1>3, <2>1 DEF NextReplyId, Wrapped
<1> QED
  BY <1>1, <1>2, <1>3

LEMMA IdsWrite ==
  ASSUME WireTypeOK, FlightInv, IdsInv, conn # "closed",
         NEW cmd, NEW start, NEW n, Write(cmd, start, n)
  PROVE  IdsInv'
<1> SUFFICES ASSUME late = 0 PROVE IdsInv'
  BY DEF Write, IdsInv
<1>1. requests = <<>> /\ replies = <<>> /\ ~waiting
  BY AloneUnderWay DEF FlightInv, Write
<1>2. /\ replies' = <<>>
      /\ requests' # <<>> <=> conn = "up"
      /\ requests' # <<>> => Head(requests').id = NextReplyId(replyID)
  BY <1>1, FirstWrite
<1>3. UNCHANGED <<conn, late, deviceID>> /\ replyID' = NextReplyId(replyID)
  BY DEF Write
<1>4. conn = "up" => /\ replyID \in Wrapped /\ replyID = deviceID
                     /\ NextReplyId(replyID) = (deviceID + 1) % UShortMax
                     /\ NextReplyId(replyID) \in Wrapped
  BY <1>1, NextReplyIdWraps DEF IdsInv
<1> QED
  BY <1>2, <1>3, <1>4 DEF IdsInv, IdContinues

LEMMA IdsReturn ==
  ASSUME WireTypeOK, FlightInv, IdsInv, conn # "closed",
         NEW o \in ReadOutcomes, NEW cmd, Return(o, cmd)
  PROVE  IdsInv'
<1>1. late \in Nat /\ o.late \in {0, 1} /\ late' = late + o.late
  BY ReadOutcomesType DEF Outcomes, WireTypeOK, Return
<1> SUFFICES ASSUME late = 0, o.late = 0 PROVE IdsInv'
  BY <1>1 DEF IdsInv
<1>2. requests = <<>> /\ o.rest = <<>>
  <2>1. o.rest \in Seq(Replies) /\ requests \in Seq(Requests)
    BY ReadOutcomesType DEF Outcomes, WireTypeOK
  <2>2. InFlight <= late + 1
    BY DEF Return, FlightInv, InFlightBound
  <2>3. Len(requests) + Len(o.rest) <= 0
    BY <2>2, OutcomeFlight DEF FlightInv
  <2>4. Len(requests) \in Nat /\ Len(o.rest) \in Nat
    BY <2>1
  <2>5. Len(requests) = 0 /\ Len(o.rest) = 0
    BY <2>3, <2>4
  <2> QED
    BY <2>1, <2>5, EmptySeq
<1>3. UNCHANGED <<conn, requests, deviceID>> /\ replies' = <<>>
  BY <1>2 DEF Return
<1>4. conn = "up" => replyID' = deviceID /\ deviceID \in Wrapped
  <2>1. CASE o.ok
    BY <2>1, OkOutcome DEF Return, IdsInv
  <2>2. CASE ~o.ok
    BY <1>2, <2>2 DEF Return, IdsInv
  <2> QED
    BY <2>1, <2>2
<1> QED
  BY <1>2, <1>3, <1>4 DEF IdsInv, IdContinues

LEMMA IdsHandle ==
  ASSUME WireTypeOK, FlightInv, IdsInv, conn # "closed",
         NEW a, NEW cost, Handle(a, cost)
  PROVE  IdsInv'
<1> SUFFICES ASSUME late = 0 PROVE IdsInv'
  BY DEF Handle, IdsInv
<1>1. requests # <<>> /\ conn = "up" /\ replies = <<>> /\ Tail(requests) = <<>>
  <2>1. requests # <<>> /\ conn # "broken"
    BY DEF Handle
  <2>2. conn = "up"
    BY <2>1 DEF WireTypeOK
  <2> QED
    BY <2>1, <2>2, AloneUnderWay DEF FlightInv
<1>2. /\ requests' = <<>>
      /\ replies' # <<>> => Head(replies').id = Head(requests).id
  BY <1>1, FirstReply
<1>3. UNCHANGED <<conn, replyID, late>> /\ deviceID' = Head(requests).id
  BY DEF Handle
<1> QED
  BY <1>1, <1>2, <1>3 DEF IdsInv, IdContinues

LEMMA IdsIgnore ==
  ASSUME WireTypeOK, FlightInv, IdsInv, conn # "closed", Ignore
  PROVE  IdsInv'
<1> SUFFICES ASSUME late = 0 PROVE IdsInv'
  BY DEF Ignore, IdsInv
<1>1. requests # <<>> /\ conn = "up" /\ replies = <<>> /\ Tail(requests) = <<>>
  <2>1. requests # <<>> /\ conn # "broken"
    BY DEF Ignore
  <2>2. conn = "up"
    BY <2>1 DEF WireTypeOK
  <2> QED
    BY <2>1, <2>2, AloneUnderWay DEF FlightInv
<1> QED
  BY <1>1 DEF Ignore, IdsInv, IdContinues

LEMMA IdsDrop ==
  ASSUME Drop, IdsInv
  PROVE  IdsInv'
BY DEF Drop, IdsInv, IdContinues

LEMMA IdsClose ==
  ASSUME WireTypeOK, FlightInv, IdsInv, Close
  PROVE  IdsInv'
<1> DEFINE q == [cmd |-> "exit", start |-> 0, n |-> 0,
                 id |-> NextReplyId(replyID), fresh |-> FALSE]
<1> SUFFICES ASSUME late = 0 PROVE IdsInv'
  BY DEF Close, IdsInv
<1>1. requests = <<>> /\ conn' = "closed" /\ deviceID' = deviceID
  BY AloneUnderWay DEF FlightInv, Close
<1>2. requests' # <<>> => conn = "up" /\ Head(requests').id = NextReplyId(replyID)
  <2>1. \A r : Append(Superseded(<<>>), r) = <<r>> /\ Head(<<r>>) = r
    BY DEF Superseded
  <2>2. requests' # <<>> => conn = "up" /\ requests' = Append(Superseded(<<>>), q)
    BY <1>1 DEF Close
  <2> HIDE DEF q
  <2>3. requests' # <<>> => conn = "up" /\ Head(requests') = q
    BY <2>1, <2>2
  <2> QED
    BY <2>3 DEF q
<1>3. conn = "up" => NextReplyId(replyID) = (deviceID + 1) % UShortMax
  BY <1>1, NextReplyIdWraps DEF IdsInv
<1> QED
  BY <1>1, <1>2, <1>3 DEF IdsInv, IdContinues

\* After the session was closed, the device takes the CMD_EXIT and no more.
LEMMA IdsClosed ==
  ASSUME WireTypeOK, FlightInv, conn = "closed",
         Ignore \/ \E a, cost : Handle(a, cost)
  PROVE  IdsInv'
<1> SUFFICES ASSUME late = 0 PROVE requests' = <<>> /\ conn' = "closed"
  BY DEF Handle, Ignore, IdsInv, IdContinues
<1>1. requests # <<>> /\ requests' = Tail(requests) /\ conn' = "closed"
  BY DEF Handle, Ignore
<1>2. /\ Len(requests) \in Nat /\ Len(replies) \in Nat
      /\ Tail(requests) \in Seq(Requests)
      /\ Len(Tail(requests)) = Len(requests) - 1
  BY <1>1, HeadTailProperties DEF WireTypeOK
<1>3. Len(requests) <= 1
  BY <1>2 DEF FlightInv, InFlightBound, InFlight
<1>4. Len(Tail(requests)) = 0
  BY <1>2, <1>3
<1> QED
  BY <1>1, <1>2, <1>4, EmptySeq

LEMMA IdsStart == WireInit => IdsInv
<1> SUFFICES ASSUME WireInit PROVE IdsInv
  OBVIOUS
<1>1. UShortMax - 1 \in Wrapped
  BY WireAssumption DEF Wrapped
<1>2. NextReplyId(UShortMax - 1) \in Wrapped
  BY <1>1, NextReplyIdWraps
<1>3. replyID \in Wrapped
  BY <1>2, NextReplyIdWraps DEF WireInit
<1> QED
  BY <1>3 DEF WireInit, IdsInv, IdContinues

=============================================================================
