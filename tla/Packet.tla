------------------------------- MODULE Packet -------------------------------
(***************************************************************************)
(* buildPacket and checksum (proto.go), word by word: the header with the  *)
(* reply id of the exchange before, the loop that adds and folds, the      *)
(* complement in signed 32-bit arithmetic, and the header as it is sent,   *)
(* with the next reply id in it.                                           *)
(*                                                                         *)
(* The payload is any sequence of bytes: a step picks the next word.       *)
(***************************************************************************)
EXTENDS Integers

CONSTANTS
  UShortMax,  \* the largest word, which the fold subtracts: 65535
  ByteMax,    \* the largest byte: 255
  Wide,       \* what a uint32 wraps at: 2^32
  Lengths     \* bytes of a payload

ASSUME PacketAssumption ==
  /\ UShortMax \in Nat \ {0} /\ ByteMax \in 0 .. UShortMax
  /\ Wide \in Nat /\ Wide >= 4 * UShortMax + 4
  /\ Lengths \subseteq Nat

VARIABLES
  pc,       \* "words", "fold", "negate", "raise" or "sent"
  replyID,  \* the reply id handed to buildPacket, then the one in the packet
  at,       \* words read
  left,     \* l: bytes not read
  sum,      \* the sum of checksum(), and at the end its result
  words     \* history: the words of the packet added up, without the checksum

vars == <<pc, replyID, at, left, sum, words>>

-----------------------------------------------------------------------------
Words == 0 .. UShortMax

\* The header is command, 0 in the place of the checksum, session id, reply id.
WordsAt(i) == CASE i = 1 -> {0} [] i = 3 -> {replyID} [] OTHER -> Words

Uint32(n) == n % Wide

\* int32(n) < 0
Negative(n) == n >= Wide \div 2

\* A sum that a word was added to; the variant subtracts 65536.
FoldedWhole(n) == IF n > UShortMax THEN n - (UShortMax + 1) ELSE n
Folded(n) == IF n > UShortMax THEN n - UShortMax ELSE n

AddWord ==
  /\ pc = "words" /\ left > 1
  /\ \E w \in WordsAt(at) :
       /\ sum' = Folded(Uint32(sum + w))
       /\ words' = words + w
  /\ at' = at + 1 /\ left' = left - 2
  /\ UNCHANGED <<pc, replyID>>

\* A last byte by itself is the low byte of a word.
AddByte ==
  /\ pc = "words" /\ left <= 1
  /\ IF left = 1
     THEN \E b \in 0 .. ByteMax : sum' = Uint32(sum + b) /\ words' = words + b
     ELSE UNCHANGED <<sum, words>>
  /\ pc' = "fold" /\ left' = 0
  /\ UNCHANGED <<replyID, at>>

Fold ==
  /\ pc = "fold"
  /\ IF sum > UShortMax THEN sum' = sum - UShortMax /\ UNCHANGED pc
                        ELSE pc' = "negate" /\ UNCHANGED sum
  /\ UNCHANGED <<replyID, at, left, words>>

\* sum = ^sum
Negate ==
  /\ pc = "negate"
  /\ sum' = Wide - 1 - sum
  /\ pc' = "raise"
  /\ UNCHANGED <<replyID, at, left, words>>

\* The last loop adds 65535 until the sum is not negative.
Raise ==
  /\ pc = "raise" /\ Negative(sum)
  /\ sum' = Uint32(sum + UShortMax)
  /\ UNCHANGED <<pc, replyID, at, left, words>>

\* The next reply id, and two variants with a plausible mistake: without the
\* wrap, and with the wrap of 16-bit arithmetic.
NextReplyUnwrapped(id) == id + 1
NextReplyNarrow(id) == (id + 1) % (UShortMax + 1)
NextReply(id) == IF id + 1 >= UShortMax THEN id + 1 - UShortMax ELSE id + 1

\* The packet is written with the next reply id in the place of the one that
\* the checksum was computed with.
Send ==
  /\ pc = "raise" /\ ~Negative(sum)
  /\ pc' = "sent"
  /\ replyID' = NextReply(replyID)
  /\ words' = words - replyID + replyID'
  /\ sum' = sum % (UShortMax + 1)
  /\ UNCHANGED <<at, left>>

Init ==
  /\ pc = "words"
  /\ replyID \in Words
  /\ at = 0
  /\ left \in {8 + n : n \in Lengths}
  /\ sum = 0
  /\ words = 0

Done == pc = "sent" /\ UNCHANGED vars

Next == AddWord \/ AddByte \/ Fold \/ Negate \/ Raise \/ Send \/ Done

Spec == Init /\ [][Next]_vars

-----------------------------------------------------------------------------
(* Properties *)

Multiple(n) == \E k \in 0 .. n : n = k * UShortMax

\* The checksum stays within a uint32, below zero never, and the reply id
\* within a word (checksum, buildPacket).
TypeOK ==
  /\ pc \in {"words", "fold", "negate", "raise", "sent"}
  /\ replyID \in Words
  /\ at \in Nat /\ left \in Nat
  /\ sum \in 0 .. Wide - 1
  /\ words \in Nat

\* The folds lose nothing but multiples of 65535 and never come near the width
\* of a uint32, however long the packet; the last loop takes what the
\* complement has made of the sum back into a word, which never is 65535.
ChecksumExact ==
  /\ pc = "words" => sum <= UShortMax
  /\ pc \in {"words", "fold", "negate"} => sum <= words /\ Multiple(words - sum)
  /\ pc = "sent" => sum < UShortMax

\* The checksum is computed with the reply id of the exchange before, and sent
\* with the next one.  The words of the packet as it is sent, its checksum
\* among them, add up to a multiple of 65535 all the same: the id grows by one
\* modulo 65535 across the wrap as well, as the complement leaves room for.
PacketBalanced == pc = "sent" => Multiple(words + sum)

=============================================================================
