----------------------------- MODULE FrameReader -----------------------------
(***************************************************************************)
(* readFrame (session.go), byte by byte: how a frame is put together from  *)
(* what each Read of the socket returns, when a read gives up, and what it *)
(* leaves in the stream for the next one.                                  *)
(*                                                                         *)
(* ZKWire tells the outcomes of an exchange in terms of whole frames and   *)
(* fragments.  ReadsAsWire shows that the reader has no others, whatever   *)
(* the segments are in which the bytes arrive; only a frame refused for    *)
(* its length is left out there, and LimitHonest says which those are.     *)
(***************************************************************************)
EXTENDS Integers, Sequences, SequencesExt, FiniteSetsExt

CONSTANTS
  HeadLen,    \* bytes of the TCP top and a header: 16
  Unit,       \* bytes of a unit of data: 4
  ReadBuf,    \* readBufSize: 8192
  Limit,      \* the longest frame in bytes: 1 MiB
  DataLens,   \* how long the data of an answer may be, in units
  MaxWrites,  \* bound: exchanges
  MaxFaults   \* bound: lost connections and reads that leave their frame behind

ASSUME ReaderAssumption ==
  /\ Unit \in Nat \ {0} /\ HeadLen = 4 * Unit /\ ReadBuf \in Nat \ {0}
  /\ Limit \in Nat /\ HeadLen + ReadBuf <= Limit
  /\ DataLens \subseteq Nat
  /\ MaxWrites \in Nat /\ MaxFaults \in Nat

VARIABLES
  conn,     \* "up" or "broken"
  stage,    \* "idle", or the loop of readFrame: "head" or "body"
  owed,     \* the commands not answered yet: for each, whether it is the last
  stream,   \* the frames not read yet, or what is left of them, oldest first
  arrived,  \* bytes of the stream that have arrived
  got,      \* len(buf): bytes taken from the stream by the present read
  result,   \* how the last read ended
  total,    \* and the length that the frame it was after declares
  late, faults, faulted,  \* as in ZKWire
  writes    \* exchanges begun

readerVars == <<conn, stage, owed, stream, arrived, got, result, total,
                late, faults, faulted, writes>>

-----------------------------------------------------------------------------
(* The stream: each frame with where it ends, counted in bytes from where   *)
(* the next read begins, and with what ZKWire says of it.                   *)

StreamBytes == IF stream = <<>> THEN 0 ELSE stream[Len(stream)].till

Frame(d, fresh) ==
  [till |-> StreamBytes + HeadLen + Unit * d,
   wire |-> [ans |-> "getTime", code |-> "OK", size |-> 0, id |-> 0,
             data |-> [i \in 1 .. d |-> 0], fresh |-> fresh]]

IsFragment(f) == f.wire.ans = "fragment"

\* What is left of a frame that was cut.  In ZKWire a fragment keeps its data
\* until a read meets it, and then has four units less.
Cut(f, met) ==
  [ans |-> "fragment", code |-> "none", size |-> 0, id |-> 0,
   data |-> IF met /\ IsFragment(f) THEN SubSeq(f.wire.data, 5, Len(f.wire.data))
                                    ELSE f.wire.data,
   fresh |-> FALSE]

Begin(i) == IF i = 1 THEN 0 ELSE stream[i - 1].till

\* The stream from frame i on, without its first k bytes.
RestFrom(i, k, met) ==
  [j \in 1 .. Len(stream) - i + 1 |->
     LET f == stream[i + j - 1] IN
     [till |-> f.till - k,
      wire |-> IF j = 1 /\ k # Begin(i) THEN Cut(f, met /\ i = 1) ELSE f.wire]]

\* What the first k bytes leave of the stream.  The variant leaves the end of a
\* frame.
RestWithEnd(k, met) ==
  IF stream = <<>> THEN <<>>
  ELSE RestFrom(Min({j \in 1 .. Len(stream) : stream[j].till >= k}), k, met)

Rest(k, met) ==
  IF k = StreamBytes THEN <<>>
  ELSE RestFrom(Min({j \in 1 .. Len(stream) : stream[j].till > k}), k, met)

Superseded(frames) == [i \in 1 .. Len(frames) |-> [frames[i] EXCEPT !.wire.fresh = FALSE]]

-----------------------------------------------------------------------------
(* The device and the network *)

\* The device answers the oldest command, and the first bytes arrive.
AnswerArrives ==
  /\ conn = "up" /\ owed # <<>>
  /\ arrived = StreamBytes
  /\ \E d \in DataLens :
       LET f == Frame(d, Head(owed)) IN
         /\ stream' = Append(stream, f)
         /\ arrived' \in arrived + 1 .. f.till
  /\ owed' = Tail(owed)
  /\ UNCHANGED <<conn, stage, got, result, total, late, faults, faulted, writes>>

\* More bytes arrive, in a segment of any length.
BytesArrive ==
  /\ conn = "up"
  /\ \E k \in arrived + 1 .. StreamBytes : arrived' = k
  /\ UNCHANGED <<conn, stage, owed, stream, got, result, total, late, faults,
                 faulted, writes>>

ConnectionDrops ==
  /\ conn = "up" /\ faults < MaxFaults
  /\ conn' = "broken"
  /\ owed' = <<>>
  /\ faults' = faults + 1
  /\ faulted' = faulted \cup {"conn"}
  /\ UNCHANGED <<stage, stream, arrived, got, result, total, late, writes>>

-----------------------------------------------------------------------------
(* The reader *)

\* exchange writes its command and enters readFrame.
Write ==
  /\ stage = "idle" /\ writes < MaxWrites
  /\ writes' = writes + 1
  /\ owed' = IF conn = "up" THEN Append([i \in 1 .. Len(owed) |-> FALSE], TRUE) ELSE owed
  /\ stream' = Superseded(stream)
  /\ stage' = "head"
  /\ got' = 0
  /\ UNCHANGED <<conn, arrived, result, total, late, faults, faulted>>

\* readFrame returns after k bytes; they are gone from the stream, of which nothing
\* is left after an error of the connection.
Finish(how, k, leaves, cost) ==
  /\ stage' = "idle" /\ got' = 0
  /\ result' = how
  /\ total' = IF stream = <<>> THEN 0 ELSE Head(stream).till
  /\ stream' = IF how = "error" THEN <<>> ELSE Rest(k, how # "late")
  /\ arrived' = IF how = "error" THEN 0 ELSE arrived - k
  /\ late' = late + leaves
  /\ faults + cost <= MaxFaults /\ faults' = faults + cost
  /\ faulted' = IF cost > 0 THEN faulted \cup {"getTime"} ELSE faulted

\* The first frame is, or was, one that the read took only a part of.
Left(k) == IF stream # <<>> /\ k < Head(stream).till THEN 1 ELSE 0

\* The limit of the second loop; the variant spares a frame that is complete.
TooLargeUnlessDone(k) == k > Limit /\ k < Head(stream).till
TooLarge(k) == k > Limit

\* The bytes of a Read, and what the loop it belongs to makes of k bytes in all.
\* The first loop wants a top and a header before it looks at the magic; the
\* variant does not look.
Framed(k) == IF Left(k) = 0 THEN Finish("frame", k, 0, 0)
                            ELSE stage' = "body" /\ got' = k

InHeadUnchecked(k) ==
  CASE k < HeadLen -> stage' = "head" /\ got' = k
    [] OTHER -> Framed(k)

InHead(k) ==
  CASE k < HeadLen -> stage' = "head" /\ got' = k
    [] k >= HeadLen /\ IsFragment(Head(stream)) -> Finish("magic", k, Left(k), 0)
    [] OTHER -> Framed(k)

InBody(k) == IF TooLarge(k) THEN Finish("large", k, Left(k), 0) ELSE Framed(k)

\* A Read returns what has arrived, up to the length of its buffer.
ReadReturns ==
  /\ stage # "idle" /\ got < arrived
  /\ LET k == Min({got + ReadBuf, arrived}) IN
       IF stage = "head" THEN InHead(k) ELSE InBody(k)
  /\ stage' # "idle" =>
       UNCHANGED <<stream, arrived, result, total, late, faults, faulted>>
  /\ UNCHANGED <<conn, owed, writes>>

\* Every Read has a deadline of its own, so it passes only when nothing arrives.
\* The bytes read so far are dropped.  That is a fault if they, or none, are
\* less than the frame they belong to, or if an answer is owed.
\* The variant sets it in the first loop only.
DeadlineHeadOnly == {"head"}
DeadlineStages == {"head", "body"}

DeadlinePasses ==
  /\ stage \in DeadlineStages /\ got = arrived /\ conn = "up"
  /\ LET leaves == IF stream = <<>> /\ owed # <<>> THEN 1 ELSE Left(got) IN
       Finish(IF Left(got) = 1 THEN "late" ELSE "deadline", got, leaves, leaves)
  /\ UNCHANGED <<conn, owed, writes>>

\* The connection was reset, or its end is reached.
ConnectionError ==
  /\ stage # "idle" /\ conn = "broken"
  /\ Finish("error", got, 0, 0)
  /\ UNCHANGED <<conn, owed, writes>>

-----------------------------------------------------------------------------
ReaderInit ==
  /\ conn = "up" /\ stage = "idle"
  /\ owed = <<>> /\ stream = <<>> /\ arrived = 0 /\ got = 0
  /\ result = "none" /\ total = 0
  /\ late = 0 /\ faults = 0 /\ faulted = {} /\ writes = 0

Reader == ReadReturns \/ DeadlinePasses \/ ConnectionError

\* All exchanges are over.
Finished == stage = "idle" /\ writes = MaxWrites /\ UNCHANGED readerVars

ReaderNext ==
  \/ Write \/ Reader
  \/ AnswerArrives \/ BytesArrive \/ ConnectionDrops
  \/ Finished

ReaderSpec == ReaderInit /\ [][ReaderNext]_readerVars

\* A Read that can return does, and a deadline that nothing comes before passes.
FairSpec == ReaderSpec /\ WF_readerVars(Reader)

-----------------------------------------------------------------------------
(* Properties *)

Results == {"none", "frame", "magic", "late", "deadline", "large", "error"}

\* The reader has never got more than what has arrived (readFrame).
ReaderTypeOK ==
  /\ conn \in {"up", "broken"}
  /\ stage \in {"idle", "head", "body"}
  /\ owed \in Seq(BOOLEAN)
  /\ \A i \in 1 .. Len(stream) : stream[i].till \in Nat \ {0}
  /\ arrived \in Nat /\ got \in 0 .. arrived
  /\ result \in Results /\ total \in Nat
  /\ late \in Nat /\ faults \in 0 .. MaxFaults
  /\ faulted \subseteq {"conn", "getTime"}
  /\ writes \in 0 .. MaxWrites

\* The limit is tested on what was read, frames behind the wanted one
\* included.  A frame is refused only if it is longer than the limit less one
\* buffer, and one longer than the limit never comes through.
LimitHonest ==
  /\ result = "large" => total + ReadBuf > Limit + 1
  /\ result = "frame" => total <= Limit

Wire ==
  INSTANCE ZKWire WITH
    UShortMax <- 1, replyID <- 0, deviceID <- 0,
    waiting <- stage # "idle",
    requests <- [i \in 1 .. Len(owed) |->
                   [cmd |-> "getTime", start |-> 0, n |-> 0, id |-> 0,
                    fresh |-> owed[i]]],
    replies <- [i \in 1 .. Len(stream) |-> stream[i].wire]

WireStep ==
  \/ Wire!Write("getTime", 0, 0)
  \/ /\ stage' = "idle"
     /\ \E o \in Wire!ReadOutcomes :
          Wire!Return(o, "getTime") /\ (o.ok <=> result' = "frame")
  \/ \E d \in DataLens : Wire!Handle([code |-> "OK", size |-> 0,
                                      data |-> [i \in 1 .. d |-> 0]], 0)
  \/ Wire!Drop

\* However the bytes are cut into segments, and wherever a read stops, a read
\* that is not refused for its length is one of the outcomes that ZKWire has
\* for an exchange, and leaves the stream as ZKWire says.
ReadsAsWire == [][WireStep \/ result' = "large"]_(Wire!wireVars)

\* A read ends, whatever the device sends or does not send: each byte that
\* arrives postpones the deadline, but the frame, its limit and the connection
\* all end.
ReadEnds == stage # "idle" ~> stage = "idle"

=============================================================================
