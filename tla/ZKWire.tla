------------------------------- MODULE ZKWire -------------------------------
(***************************************************************************)
(* One TCP connection to a ZKTeco device, as session.go drives it once the *)
(* handshake is over: exchange() writes one command and reads one frame,   *)
(* and takes whatever frame comes first as the answer to that command.     *)
(*                                                                         *)
(* The two directions of the TCP stream are the FIFO queues "requests"     *)
(* (written by the server, not yet handled by the device) and "replies"    *)
(* (written by the device, not yet read by the server).  The device        *)
(* handles requests in order and answers each at most once.  A frame is    *)
(* "fresh" when it belongs to the exchange the server is in; the next      *)
(* write makes every frame still under way stale.  Freshness is history:   *)
(* no frame on the wire carries it, and the code never looks at the reply  *)
(* id or the session id of a frame to tell a stale frame from its answer.  *)
(***************************************************************************)
EXTENDS Naturals, Sequences, SequencesExt

CONSTANTS
  UShortMax,   \* reply ids wrap by subtracting this; 65535 in the code
  MaxFaults    \* bound: late, missing or faulty answers and lost connections

ASSUME WireAssumption ==
  /\ UShortMax \in Nat \ {0}
  /\ MaxFaults \in Nat

VARIABLES
  conn,      \* the TCP connection: "up", "broken" (reset or EOF) or "closed"
  waiting,   \* TRUE between an exchange's write and the end of its read
  replyID,   \* rawSession.replyID
  requests,  \* commands written that the device has not handled
  replies,   \* frames written by the device that the server has not read
  late,      \* exchanges that left one more frame unread than they found
  faults,    \* faults so far, at most MaxFaults
  faulted,   \* the commands the faults hit; "conn" for a lost connection
  deviceID   \* reply id of the last request the device took

wireVars ==
  <<conn, waiting, replyID, requests, replies, late, faults, faulted, deviceID>>

-----------------------------------------------------------------------------
(* Frames *)

\* The commands written over an established session (proto.go:24-50,
\* session.go:255-256), by name instead of by number.
Cmds == {"getTime", "setTime", "options", "disable", "freeSizes",
         "prepareBuffer", "readBuffer", "freeData", "attLog", "data", "enable",
         "exit"}

\* Result codes.  CMD_ACK_OK and CMD_ACK_DATA are accepted and refused together
\* everywhere, and so are CMD_ACK_ERROR and CMD_ACK_UNAUTH after the handshake:
\* "OK" and "ERROR" stand for either member of a pair.
Codes == {"OK", "DATA", "PREPARE", "ERROR"}

ReplyIds == 0 .. UShortMax

\* "start" and "n" are the payload of a read-buffer request; "start" is also the
\* time of a set-time request and the number of an option.  0 otherwise.
Requests == [cmd : Cmds, start : Nat, n : Nat, id : ReplyIds, fresh : BOOLEAN]

\* "data" is the payload in units of 4 bytes, "size" a number in it that matters:
\* the length that a size header announces, or the sign of a record count.
Answers == [code : Codes, data : Seq(Nat), size : Nat]
Replies == [ans : Cmds \cup {"fragment"}, code : Codes \cup {"none"},
            data : Seq(Nat), size : Nat, id : ReplyIds, fresh : BOOLEAN]

\* What is left of frame f after a read that consumed its first bytes only.
IsFragment(f) == f.ans = "fragment"
Fragment(f) == [ans |-> "fragment", code |-> "none", data |-> f.data,
                size |-> 0, id |-> 0, fresh |-> FALSE]

Superseded(frames) ==
  [i \in 1 .. Len(frames) |-> [frames[i] EXCEPT !.fresh = FALSE]]

-----------------------------------------------------------------------------
(* Writing: buildPacket and the first half of exchange *)

\* Variants with a plausible mistake: the increment without the wrap, and as
\* 16-bit arithmetic would do it.
NextReplyIdUnwrapped(r) == r + 1
NextReplyIdNarrow(r) == (r + 1) % (UShortMax + 1)

NextReplyId(r) ==
  IF r + 1 >= UShortMax THEN r + 1 - UShortMax ELSE r + 1

\* A write on a broken connection reaches nobody; whether write(2) reports it
\* is immaterial, the read of the same exchange fails as well.
Write(cmd, start, n) ==
  /\ ~waiting
  /\ replyID' = NextReplyId(replyID)
  /\ requests' =
       IF conn = "up"
       THEN Append(Superseded(requests),
                   [cmd |-> cmd, start |-> start, n |-> n,
                    id |-> NextReplyId(replyID), fresh |-> TRUE])
       ELSE requests
  /\ replies' = Superseded(replies)
  /\ waiting' = TRUE
  /\ UNCHANGED <<conn, late, faults, faulted, deviceID>>

-----------------------------------------------------------------------------
(* Reading: readFrame and the second half of exchange.  The outcomes of an *)
(* exchange in the current state, each with the frame it returns, what it  *)
(* leaves in the stream, and what it adds to "late" and to "faults".       *)

\* A read takes up to 8 KiB from the stream, so it may swallow frames behind
\* the one it wants, wholly or up to a point inside one of them; readFrame
\* returns buf[8:total] and drops the rest.
AfterRead(behind) ==
  Suffixes(behind) \cup
    {<<Fragment(Head(t))>> \o Tail(t) : t \in Suffixes(behind) \ {<<>>}}

Success(frame, rest) ==
  [ok |-> TRUE, code |-> frame.code, ans |-> frame.ans, data |-> frame.data,
   size |-> frame.size, id |-> frame.id, rest |-> rest, late |-> 0, cost |-> 0]

Failure(rest, left, cost) ==
  [ok |-> FALSE, code |-> "none", ans |-> "none", data |-> <<>>,
   size |-> 0, id |-> 0, rest |-> rest, late |-> left, cost |-> cost]

FrameArrives ==
  IF replies = <<>> \/ IsFragment(Head(replies)) THEN {}
  ELSE {Success(Head(replies), t) : t \in AfterRead(Tail(replies))}

\* The stream starts inside a frame, and "bad tcp magic" is all the read sees.
\* It may take no more than 16 bytes (4 units) of a fragment that is longer.
BadMagic ==
  IF replies = <<>> \/ ~IsFragment(Head(replies)) THEN {}
  ELSE LET f == Head(replies) IN
    {Failure(t, 0, 0) : t \in AfterRead(Tail(replies))} \cup
      IF f.data = <<>> THEN {}
      ELSE {Failure(<<[f EXCEPT !.data = SubSeq(@, 5, Len(@))]>> \o Tail(replies),
                    1, 0)}

\* The read deadline passes with nothing to read.  If the device still owes an
\* answer that answer is late, which is a fault; if not, none can come.
DeadlineBeforeFrame ==
  IF conn # "up" \/ replies # <<>> THEN {}
  ELSE IF requests = <<>> THEN {Failure(<<>>, 0, 0)}
  ELSE IF faults < MaxFaults THEN {Failure(<<>>, 1, 1)}
  ELSE {}

\* The deadline passes inside a frame, or inside what was left of one: the bytes
\* read so far are dropped.
DeadlineInsideFrame ==
  IF conn = "up" /\ replies # <<>> /\ faults < MaxFaults
  THEN {Failure(<<Fragment(Head(replies))>> \o Tail(replies), 1, 1)}
  ELSE {}

\* The write fails, or the read finds the stream at its end.  Nothing is read
\* from the connection after that: every later write fails too.
ConnectionError ==
  IF conn = "broken" THEN {Failure(<<>>, 0, 0)} ELSE {}

ReadOutcomes ==
  FrameArrives \cup BadMagic \cup DeadlineBeforeFrame \cup
    DeadlineInsideFrame \cup ConnectionError

\* exchange returns outcome o to a caller that had written cmd.
Return(o, cmd) ==
  /\ waiting
  /\ waiting' = FALSE
  /\ replyID' = IF o.ok THEN o.id ELSE replyID
  /\ replies' = o.rest
  /\ late' = late + o.late
  /\ faults' = faults + o.cost
  /\ faulted' = IF o.cost > 0 THEN faulted \cup {cmd} ELSE faulted
  /\ UNCHANGED <<conn, requests, deviceID>>

\* The caller's test of the answer: no error, one of these codes, and at
\* least this much data.
Accepted(o, codes, units) ==
  /\ o.ok
  /\ o.code \in codes
  /\ Len(o.data) >= units

-----------------------------------------------------------------------------
(* The device's side of the connection, known from what the code expects   *)

\* The device handles the oldest request and answers a; it echoes the reply id.
\* After the server closed, the answer goes nowhere.
Handle(a, cost) ==
  /\ conn # "broken"
  /\ requests # <<>>
  /\ faults + cost <= MaxFaults
  /\ LET q == Head(requests) IN
       /\ replies' =
            IF conn = "up"
            THEN Append(replies, [ans |-> q.cmd, code |-> a.code,
                                  data |-> a.data, size |-> a.size,
                                  id |-> q.id, fresh |-> q.fresh])
            ELSE replies
       /\ faulted' = IF cost > 0 THEN faulted \cup {q.cmd} ELSE faulted
  /\ requests' = Tail(requests)
  /\ deviceID' = Head(requests).id
  /\ faults' = faults + cost
  /\ UNCHANGED <<conn, waiting, replyID, late>>

\* The device handles the oldest request and never answers it.
Ignore ==
  /\ conn # "broken"
  /\ requests # <<>>
  /\ faults < MaxFaults
  /\ requests' = Tail(requests)
  /\ deviceID' = Head(requests).id
  /\ faults' = faults + 1
  /\ faulted' = faulted \cup {Head(requests).cmd}
  /\ UNCHANGED <<conn, waiting, replyID, replies, late>>

\* The connection is reset or ends; what had arrived can still be read.
Drop ==
  /\ conn = "up"
  /\ faults < MaxFaults
  /\ conn' = "broken"
  /\ requests' = <<>>
  /\ faults' = faults + 1
  /\ faulted' = faulted \cup {"conn"}
  /\ UNCHANGED <<waiting, replyID, replies, late, deviceID>>

-----------------------------------------------------------------------------
\* rawSession.close: a best-effort CMD_EXIT that is not answered, then Close.
Close ==
  /\ ~waiting
  /\ conn # "closed"
  /\ replyID' = NextReplyId(replyID)
  /\ requests' =
       IF conn = "up"
       THEN Append(Superseded(requests),
                   [cmd |-> "exit", start |-> 0, n |-> 0,
                    id |-> NextReplyId(replyID), fresh |-> FALSE])
       ELSE requests
  /\ replies' = <<>>
  /\ conn' = "closed"
  /\ UNCHANGED <<waiting, late, faults, faulted, deviceID>>

\* Connect has returned.  The first reply id follows USHRT_MAX - 1, and the
\* handshake took one exchange, or a second one for the comm key.
WireInit ==
  /\ conn = "up"
  /\ LET first == NextReplyId(UShortMax - 1) IN
       replyID \in {first, NextReplyId(first)}
  /\ deviceID = replyID
  /\ waiting = FALSE
  /\ requests = <<>>
  /\ replies = <<>>
  /\ late = 0
  /\ faults = 0
  /\ faulted = {}

\* What the outcomes of an exchange look like.
Outcomes ==
  [ok : BOOLEAN, code : Codes \cup {"none"},
   ans : Cmds \cup {"fragment", "none"}, data : Seq(Nat), size : Nat,
   id : ReplyIds, rest : Seq(Replies), late : {0, 1}, cost : {0, 1}]

\* The connection keeps its types, and reply ids fit a word (session.go).
WireTypeOK ==
  /\ conn \in {"up", "broken", "closed"}
  /\ waiting \in BOOLEAN
  /\ replyID \in ReplyIds
  /\ requests \in Seq(Requests)
  /\ replies \in Seq(Replies)
  /\ late \in Nat
  /\ faults \in 0 .. MaxFaults
  /\ faulted \subseteq Cmds \cup {"conn"}
  /\ deviceID \in ReplyIds

-----------------------------------------------------------------------------
(* What every user of a connection can rely on *)

\* What is under way: frames in either direction that the server has not read.
InFlight == Len(requests) + Len(replies)

\* The session never has more under way than the exchange it is in (or the
\* CMD_EXIT it left behind) and one frame for each exchange that gave up on an
\* answer: exchange() reads after every write, so without a timeout the
\* commands and answers alternate strictly.
InFlightBound ==
  InFlight <= late + IF waiting \/ conn = "closed" THEN 1 ELSE 0

\* The next request the device takes continues its reply ids.
IdContinues ==
  requests # <<>> => Head(requests).id = (deviceID + 1) % UShortMax

\* As long as no answer was late, the ids the session derives from the answers
\* it reads (s.replyID = reply) are those the device expects, also across the
\* wrap that buildPacket does in wide arithmetic.
ReplyIdsInStep == late = 0 => IdContinues

=============================================================================
