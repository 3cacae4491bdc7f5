---------------------------- MODULE PacketProofs ----------------------------
(***************************************************************************)
(* The bytes of a session, for every width of a word, every length and     *)
(* every segment.                                                          *)
(*                                                                         *)
(* Packet: the checksum's arithmetic is exact and every packet adds up.    *)
(* The invariant follows the sum through the folds, the complement and the *)
(* last loop: it differs from the words read by a multiple of 65535 (or,   *)
(* complemented, adds up to one with them), and the header has been read   *)
(* before the loop can end, so that the reply id is among the words.       *)
(*                                                                         *)
(* FrameReader: the limit is honest, and the reader implements ZKWire.     *)
(* The invariant says how the frames in the stream lie: each begins where  *)
(* the last one ends, a whole one has the bytes that its data needs and    *)
(* what is left of one has fewer, and nothing but a leftover may be wholly *)
(* to come.  Then where a read stops decides the outcome that it has in    *)
(* ZKWire, and what it leaves is what ZKWire leaves.                       *)
(*                                                                         *)
(* CommKey: keys of up to three bytes are told apart.  Mirrored, such a    *)
(* key leaves the lowest byte of the word empty, so the session id's lower *)
(* byte carries nothing out of it, and the three bytes above it are those  *)
(* that survive.  What the recursive functions of CommKey compute is       *)
(* proved by induction on the bits, up to the width of the word.           *)
(***************************************************************************)
EXTENDS MCWire, SequenceTheorems, NaturalsInduction,
        WellFoundedInduction, TLAPS

-----------------------------------------------------------------------------
(* Packet *)

Header ==
  /\ pc = "words" => left + 2 * at >= 8 /\ (at > 3 => words >= replyID)
  /\ pc \in {"fold", "negate", "raise"} => words >= replyID

Summed ==
  /\ pc = "words" => sum <= UShortMax
  /\ pc = "negate" => sum <= UShortMax
  /\ pc = "fold" => sum <= 2 * UShortMax
  /\ pc \in {"words", "fold", "negate"} => sum <= words /\ Multiple(words - sum)

Complemented ==
  pc = "raise" =>
    \/ /\ sum >= Wide - 1 - UShortMax
       /\ Wide - 1 - sum <= words /\ Multiple(words - (Wide - 1 - sum))
    \/ sum < UShortMax /\ Multiple(words + 1 + sum)

Sent == pc = "sent" => sum < UShortMax /\ Multiple(words + sum)

IInv == TypeOK /\ Header /\ Summed /\ Complemented /\ Sent

-----------------------------------------------------------------------------
(* Multiples of 65535 *)

LEMMA MultiplePlus ==
  ASSUME NEW n \in Nat, Multiple(n)
  PROVE  Multiple(n + UShortMax)
<1>1. PICK k \in 0 .. n : n = k * UShortMax
  BY DEF Multiple
<1>2. n + UShortMax = (k + 1) * UShortMax
  BY <1>1, PacketAssumption
<1>3. k + 1 \in 0 .. n + UShortMax
  BY PacketAssumption
<1> QED
  BY <1>2, <1>3 DEF Multiple

LEMMA MultipleMinus ==
  ASSUME NEW n \in Nat, n >= UShortMax, Multiple(n)
  PROVE  Multiple(n - UShortMax)
<1>1. PICK k \in 0 .. n : n = k * UShortMax
  BY DEF Multiple
<1>2. k # 0
  BY <1>1, PacketAssumption
<1>3. n - UShortMax = (k - 1) * UShortMax
  BY <1>1, PacketAssumption
<1>4. n - UShortMax >= k - 1
  <2>1. (k - 1) * UShortMax >= k - 1
    <3> DEFINE j == k - 1
    <3>1. j \in Nat
      BY <1>2
    <3>2. \A u \in Nat \ {0} : j * u >= j
      BY <3>1
    <3> QED
      BY <3>2, PacketAssumption
  <2> QED
    BY <1>3, <2>1
<1>5. k - 1 \in 0 .. n - UShortMax
  BY <1>2, <1>4, PacketAssumption
<1> QED
  BY <1>3, <1>5 DEF Multiple

LEMMA MultipleZero == Multiple(0)
<1>1. 0 = 0 * UShortMax
  BY PacketAssumption
<1> QED
  BY <1>1 DEF Multiple

\* Below its width a uint32 is itself, and half of it is the sign.
LEMMA Narrow ==
  ASSUME NEW n \in Int, 0 <= n, n < Wide
  PROVE  Uint32(n) = n
BY PacketAssumption DEF Uint32

LEMMA Sign ==
  ASSUME NEW n \in Nat
  PROVE  /\ n <= 2 * UShortMax => ~Negative(n)
         /\ n >= Wide - 1 - UShortMax => Negative(n)
BY PacketAssumption DEF Negative

-----------------------------------------------------------------------------
LEMMA Initially == Init => IInv
<1> SUFFICES ASSUME Init PROVE IInv
  OBVIOUS
<1>1. left \in Nat /\ left >= 8
  BY PacketAssumption DEF Init
<1>2. TypeOK
  BY <1>1, PacketAssumption DEF Init, TypeOK, Words
<1>3. Header
  BY <1>1 DEF Init, Header
<1>4. Multiple(words - sum)
  BY MultipleZero DEF Init
<1>5. Summed
  BY <1>4, PacketAssumption DEF Init, Summed
<1> QED
  BY <1>2, <1>3, <1>5 DEF Init, IInv, Complemented, Sent

\* Adding a word or a byte of at most 65535 to both sums, with or without a fold.
LEMMA Added ==
  ASSUME NEW s \in Nat, NEW whole \in Nat, NEW w \in Nat,
         s <= whole, s <= UShortMax, w <= UShortMax, Multiple(whole - s)
  PROVE  /\ Uint32(s + w) = s + w
         /\ Folded(s + w) \in Nat /\ Folded(s + w) <= UShortMax
         /\ Folded(s + w) <= whole + w /\ Multiple(whole + w - Folded(s + w))
         /\ Multiple(whole + w - (s + w))
<1>1. Uint32(s + w) = s + w
  BY Narrow, PacketAssumption
<1>2. whole + w - (s + w) = whole - s /\ whole - s \in Nat
  OBVIOUS
<1>3. Multiple(whole - s + UShortMax)
  BY <1>2, MultiplePlus
<1>4. CASE s + w > UShortMax
  <2>1. Folded(s + w) = s + w - UShortMax
    BY <1>4, PacketAssumption DEF Folded
  <2>2. whole + w - (s + w - UShortMax) = whole - s + UShortMax
    BY PacketAssumption
  <2> QED
    BY <1>1, <1>2, <1>3, <1>4, <2>1, <2>2, PacketAssumption
<1>5. CASE ~(s + w > UShortMax)
  <2>1. Folded(s + w) = s + w
    BY <1>5 DEF Folded
  <2> QED
    BY <1>1, <1>2, <1>5, <2>1, PacketAssumption
<1> QED
  BY <1>4, <1>5

LEMMA WordAdded == IInv /\ AddWord => IInv'
<1> SUFFICES ASSUME IInv, AddWord PROVE IInv'
  OBVIOUS
<1> USE DEF IInv
<1>1. PICK w \in WordsAt(at) :
        sum' = Folded(Uint32(sum + w)) /\ words' = words + w
  BY DEF AddWord
<1>2. w \in Nat /\ w <= UShortMax
  BY <1>1, PacketAssumption DEF WordsAt, Words, TypeOK
<1>3. /\ pc = "words" /\ pc' = "words" /\ replyID' = replyID
      /\ at' = at + 1 /\ left' = left - 2 /\ left > 1
  BY DEF AddWord
<1>4. sum \in Nat /\ words \in Nat /\ at \in Nat /\ left \in Nat /\ replyID \in Nat
  BY PacketAssumption DEF TypeOK, Words
<1>5. sum <= words /\ sum <= UShortMax /\ Multiple(words - sum)
  BY <1>3 DEF Summed
<1>6. /\ sum' \in Nat /\ sum' <= UShortMax /\ sum' <= words'
      /\ Multiple(words' - sum')
  BY <1>1, <1>2, <1>4, <1>5, Added
<1>7. TypeOK'
  BY <1>1, <1>2, <1>3, <1>4, <1>6, PacketAssumption DEF TypeOK
<1>8. Header'
  <2>1. left' + 2 * at' >= 8
    BY <1>3, <1>4 DEF Header
  <2>2. at' > 3 => words' >= replyID'
    <3>1. CASE at > 3
      BY <1>1, <1>2, <1>3, <1>4, <3>1 DEF Header
    <3>2. CASE at = 3
      BY <1>1, <1>2, <1>3, <1>4, <3>2 DEF WordsAt
    <3> QED
      BY <1>3, <1>4, <3>1, <3>2
  <2> QED
    BY <1>3, <2>1, <2>2 DEF Header
<1>9. Summed'
  BY <1>3, <1>6 DEF Summed
<1> QED
  BY <1>3, <1>7, <1>8, <1>9 DEF Complemented, Sent

LEMMA ByteAdded == IInv /\ AddByte => IInv'
<1> SUFFICES ASSUME IInv, AddByte PROVE IInv'
  OBVIOUS
<1> USE DEF IInv
<1>1. /\ pc = "words" /\ pc' = "fold" /\ replyID' = replyID
      /\ at' = at /\ left' = 0 /\ left <= 1
  BY DEF AddByte
<1>2. sum \in Nat /\ words \in Nat /\ at \in Nat /\ left \in Nat /\ replyID \in Nat
  BY PacketAssumption DEF TypeOK, Words
<1>3. sum <= words /\ sum <= UShortMax /\ Multiple(words - sum)
  BY <1>1 DEF Summed
<1>4. at > 3 /\ words >= replyID
  BY <1>1, <1>2 DEF Header
<1>5. /\ sum' \in Nat /\ words' \in Nat /\ words' >= words
      /\ sum' <= 2 * UShortMax /\ sum' <= words' /\ Multiple(words' - sum')
  <2>1. CASE left = 1
    <3>1. PICK b \in 0 .. ByteMax : sum' = Uint32(sum + b) /\ words' = words + b
      BY <2>1 DEF AddByte
    <3>2. b \in Nat /\ b <= UShortMax
      BY PacketAssumption
    <3>3. Uint32(sum + b) = sum + b /\ Multiple(words + b - (sum + b))
      BY <1>2, <1>3, <3>2, Added
    <3> QED
      BY <1>2, <1>3, <3>1, <3>2, <3>3, PacketAssumption
  <2>2. CASE left # 1
    BY <1>2, <1>3, <2>2, PacketAssumption DEF AddByte
  <2> QED
    BY <2>1, <2>2
<1>6. TypeOK'
  BY <1>1, <1>2, <1>5, PacketAssumption DEF TypeOK
<1>7. Header'
  BY <1>1, <1>2, <1>4, <1>5 DEF Header
<1>8. Summed'
  BY <1>1, <1>5 DEF Summed
<1> QED
  BY <1>1, <1>6, <1>7, <1>8 DEF Complemented, Sent

LEMMA FoldStep == IInv /\ Fold => IInv'
<1> SUFFICES ASSUME IInv, Fold PROVE IInv'
  OBVIOUS
<1> USE DEF IInv
<1>1. /\ pc = "fold" /\ replyID' = replyID /\ at' = at /\ left' = left
      /\ words' = words
  BY DEF Fold
<1>2. sum \in Nat /\ words \in Nat /\ sum < Wide /\ replyID \in Nat
  BY PacketAssumption DEF TypeOK, Words
<1>3. sum <= 2 * UShortMax /\ sum <= words /\ Multiple(words - sum) /\ words >= replyID
  BY <1>1 DEF Summed, Header
<1>4. CASE sum > UShortMax
  <2>1. sum' = sum - UShortMax /\ pc' = "fold"
    BY <1>1, <1>4 DEF Fold
  <2>2. words - (sum - UShortMax) = words - sum + UShortMax /\ words - sum \in Nat
    BY <1>2, <1>3, PacketAssumption
  <2>3. Multiple(words' - sum')
    BY <1>1, <1>3, <2>1, <2>2, MultiplePlus
  <2>4. TypeOK'
    BY <1>1, <1>2, <1>4, <2>1, PacketAssumption DEF TypeOK
  <2>5. Summed'
    BY <1>1, <1>2, <1>3, <1>4, <2>1, <2>3, PacketAssumption DEF Summed
  <2> QED
    BY <1>1, <1>3, <2>1, <2>4, <2>5 DEF Header, Complemented, Sent
<1>5. CASE ~(sum > UShortMax)
  <2>1. sum' = sum /\ pc' = "negate"
    BY <1>5 DEF Fold
  <2>2. TypeOK'
    BY <1>1, <2>1 DEF TypeOK
  <2>3. Summed'
    BY <1>1, <1>2, <1>3, <1>5, <2>1, PacketAssumption DEF Summed
  <2> QED
    BY <1>1, <1>3, <2>1, <2>2, <2>3 DEF Header, Complemented, Sent
<1> QED
  BY <1>4, <1>5

LEMMA NegateStep == IInv /\ Negate => IInv'
<1> SUFFICES ASSUME IInv, Negate PROVE IInv'
  OBVIOUS
<1> USE DEF IInv
<1>1. /\ pc = "negate" /\ pc' = "raise" /\ replyID' = replyID /\ at' = at
      /\ left' = left /\ words' = words /\ sum' = Wide - 1 - sum
  BY DEF Negate
<1>2. sum \in Nat /\ words \in Nat /\ Wide \in Nat /\ UShortMax \in Nat
  BY PacketAssumption DEF TypeOK
<1>3. sum <= UShortMax /\ sum <= words /\ Multiple(words - sum) /\ words >= replyID
  BY <1>1 DEF Summed, Header
<1>4. Wide - 1 - sum' = sum
  BY <1>1, <1>2
<1>5. sum' >= Wide - 1 - UShortMax /\ sum' \in 0 .. Wide - 1
  BY <1>1, <1>2, <1>3, PacketAssumption
<1>6. TypeOK'
  BY <1>1, <1>5 DEF TypeOK
<1>7. Complemented'
  BY <1>1, <1>3, <1>4, <1>5 DEF Complemented
<1> QED
  BY <1>1, <1>3, <1>6, <1>7 DEF Header, Summed, Sent

LEMMA RaiseStep == IInv /\ Raise => IInv'
<1> SUFFICES ASSUME IInv, Raise PROVE IInv'
  OBVIOUS
<1> USE DEF IInv
<1>1. /\ pc = "raise" /\ pc' = "raise" /\ replyID' = replyID /\ at' = at
      /\ left' = left /\ words' = words /\ sum' = Uint32(sum + UShortMax)
      /\ Negative(sum)
  BY DEF Raise
<1>2. /\ sum \in Nat /\ sum < Wide /\ words \in Nat
      /\ Wide \in Nat /\ UShortMax \in Nat \ {0} /\ Wide >= 4 * UShortMax + 4
  BY PacketAssumption DEF TypeOK
<1>3. ~(sum < UShortMax)
  BY <1>1, <1>2, Sign
<1> DEFINE s == Wide - 1 - sum
<1>4. s \in Nat /\ s <= UShortMax /\ s <= words /\ Multiple(words - s)
  BY <1>1, <1>2, <1>3 DEF Complemented
<1>5. sum + UShortMax - Wide = UShortMax - 1 - s
  BY <1>2
<1>6. CASE s = UShortMax
  <2>1. sum' = Wide - 1
    BY <1>1, <1>2, <1>6, Narrow
  <2>2. words - (Wide - 1 - sum') = words - s + UShortMax /\ words - s \in Nat
    BY <1>2, <1>4, <1>6, <2>1
  <2>3. Multiple(words' - (Wide - 1 - sum'))
    BY <1>1, <1>4, <2>2, MultiplePlus
  <2>4. sum' >= Wide - 1 - UShortMax /\ sum' \in 0 .. Wide - 1 /\ Wide - 1 - sum' <= words'
    BY <1>1, <1>2, <2>1
  <2> QED
    BY <1>1, <2>3, <2>4 DEF TypeOK, Header, Summed, Complemented, Sent
<1>7. CASE s < UShortMax
  <2>1. sum' = UShortMax - 1 - s
    <3>1. sum + UShortMax = Wide + (UShortMax - 1 - s)
      BY <1>2
    <3>2. UShortMax - 1 - s \in Nat /\ UShortMax - 1 - s < Wide
      BY <1>2, <1>4, <1>7
    <3>3. Uint32(Wide + (UShortMax - 1 - s)) = UShortMax - 1 - s
      BY <1>2, <3>2 DEF Uint32
    <3> QED
      BY <1>1, <3>1, <3>3
  <2>2. words + 1 + sum' = words - s + UShortMax /\ words - s \in Nat
    BY <1>2, <1>4, <2>1
  <2>3. Multiple(words' + 1 + sum')
    BY <1>1, <1>4, <2>2, MultiplePlus
  <2>4. sum' < UShortMax /\ sum' \in 0 .. Wide - 1
    BY <1>2, <1>4, <1>7, <2>1
  <2> QED
    BY <1>1, <2>3, <2>4 DEF TypeOK, Header, Summed, Complemented, Sent
<1> QED
  BY <1>2, <1>4, <1>6, <1>7

LEMMA SendStep == IInv /\ Send => IInv'
<1> SUFFICES ASSUME IInv, Send PROVE IInv'
  OBVIOUS
<1> USE DEF IInv
<1>1. /\ pc = "raise" /\ pc' = "sent" /\ at' = at /\ left' = left
      /\ replyID' = NextReply(replyID) /\ words' = words - replyID + replyID'
      /\ sum' = sum % (UShortMax + 1) /\ ~Negative(sum)
  BY DEF Send
<1>2. /\ sum \in Nat /\ sum < Wide /\ words \in Nat /\ replyID \in 0 .. UShortMax
      /\ Wide \in Nat /\ UShortMax \in Nat \ {0}
  BY PacketAssumption DEF TypeOK, Words
<1>3. words >= replyID
  BY <1>1 DEF Header
<1>4. sum < UShortMax /\ Multiple(words + 1 + sum)
  BY <1>1, <1>2, Sign DEF Complemented
<1>5. sum' = sum
  BY <1>1, <1>2, <1>4
<1>6. Multiple(words' + sum') /\ words' \in Nat /\ replyID' \in 0 .. UShortMax
  <2>1. CASE replyID + 1 >= UShortMax
    <3>1. replyID' = replyID + 1 - UShortMax
      BY <1>1, <2>1 DEF NextReply
    <3> DEFINE n == words + 1 + sum
    <3>2. words' = words + 1 - UShortMax
      BY <1>1, <1>2, <3>1
    <3>3. n \in Nat /\ n >= UShortMax /\ words' + sum' = n - UShortMax
      BY <1>2, <1>3, <1>5, <2>1, <3>2
    <3>4. Multiple(n - UShortMax)
      <4>1. Multiple(n)
        BY <1>4
      <4> HIDE DEF n
      <4> QED
        BY <3>3, <4>1, MultipleMinus
    <3>5. words' \in Nat
      BY <1>1, <1>2, <1>3, <2>1, <3>1
    <3> QED
      BY <1>2, <2>1, <3>1, <3>3, <3>4, <3>5
  <2>2. CASE ~(replyID + 1 >= UShortMax)
    <3>1. replyID' = replyID + 1
      BY <1>1, <2>2 DEF NextReply
    <3>2. words' + sum' = words + 1 + sum
      BY <1>1, <1>2, <1>5, <3>1
    <3>3. words' \in Nat
      BY <1>1, <1>2, <3>1
    <3> QED
      BY <1>2, <1>4, <2>2, <3>1, <3>2, <3>3
  <2> QED
    BY <2>1, <2>2
<1>7. TypeOK'
  BY <1>1, <1>2, <1>5, <1>6 DEF TypeOK, Words
<1> QED
  BY <1>1, <1>4, <1>5, <1>6, <1>7 DEF Header, Summed, Complemented, Sent

LEMMA Inductive == IInv /\ [Next]_vars => IInv'
<1> SUFFICES ASSUME IInv, [Next]_vars PROVE IInv'
  OBVIOUS
<1>1. CASE UNCHANGED vars
  BY <1>1 DEF vars, IInv, TypeOK, Header, Summed, Complemented, Sent, Multiple
<1>2. CASE Done
  BY <1>1, <1>2 DEF Done
<1> QED
  BY <1>1, <1>2, WordAdded, ByteAdded, FoldStep, NegateStep, RaiseStep, SendStep
     DEF Next

LEMMA Invariant == Spec => []IInv
BY Initially, Inductive, PTL DEF Spec

\* The variables of the checksum keep their types; in particular the sum never
\* is as wide as a uint32.
THEOREM PacketTypeCorrect == Spec => []TypeOK
<1>1. IInv => TypeOK
  BY DEF IInv
<1> QED
  BY <1>1, Invariant, PTL

\* The folds and the last loop lose nothing but multiples of 65535, for packets
\* of every length, and the checksum never is 65535.
THEOREM ChecksumIsExact == Spec => []ChecksumExact
<1>1. IInv => ChecksumExact
  BY DEF IInv, ChecksumExact, Summed, Sent
<1> QED
  BY <1>1, Invariant, PTL

\* The words of every packet that is sent add up to a multiple of 65535,
\* although its checksum was computed with another reply id.
THEOREM EveryPacketBalanced == Spec => []PacketBalanced
<1>1. IInv => PacketBalanced
  BY DEF IInv, PacketBalanced, Sent
<1> QED
  BY <1>1, Invariant, PTL

-----------------------------------------------------------------------------
(* FrameReader: the frames in the stream *)

\* A set of numbers has a least one.
LEMMA Least ==
  ASSUME NEW T \in SUBSET Nat, T # {}
  PROVE  Min(T) \in T /\ \A y \in T : Min(T) <= y
<1> DEFINE R == {ss \in Nat \X Nat : ss[1] < ss[2]}
<1>1. IsWellFoundedOn(R, Nat)
  BY NatLessThanWellFounded DEF OpToRel
<1>2. \A x, y \in Nat : <<y, x>> \notin R => x <= y
  OBVIOUS
<1> HIDE DEF R
<1>3. \E x \in T : \A y \in T : ~(<<y, x>> \in R)
  BY <1>1, WFMin
<1> QED
  BY <1>2, <1>3 DEF Min

Wires ==
  [ans : {"getTime", "fragment"}, code : {"OK", "none"}, size : {0}, id : {0},
   data : Seq(Nat), fresh : BOOLEAN]

Frames == [till : Nat \ {0}, wire : Wires]

BeginIn(frames, i) == IF i = 1 THEN 0 ELSE frames[i - 1].till

\* A frame that begins at byte b has the bytes that its data needs, and a fragment
\* fewer.
Sized(f, b) ==
  LET bytes == HeadLen + Unit * Len(f.wire.data) IN
  IF IsFragment(f)
  THEN /\ f.till - b < bytes
       /\ f.wire.code = "none" /\ ~f.wire.fresh
  ELSE /\ f.till - b = bytes
       /\ f.wire.code = "OK"

\* The frames follow each other, and no byte of the last has arrived only if it
\* is what was left of a frame.
InStream(frames, n) ==
  /\ frames \in Seq(Frames)
  /\ \A i \in 1 .. Len(frames) : BeginIn(frames, i) < frames[i].till
  /\ \A i, j \in 1 .. Len(frames) : i < j => frames[i].till < frames[j].till
  /\ \A i \in 1 .. Len(frames) : Sized(frames[i], BeginIn(frames, i))
  /\ n \in Nat
  /\ n <= IF frames = <<>> THEN 0 ELSE frames[Len(frames)].till
  /\ frames # <<>> =>
       \/ BeginIn(frames, Len(frames)) < n
       \/ Len(frames) = 1 /\ IsFragment(frames[1])

StreamInv == InStream(stream, arrived)

ReadInv ==
  /\ got \in 0 .. arrived
  /\ stage = "idle" => got = 0
  /\ stage = "head" => got < HeadLen
  /\ stage = "body" =>
       stream # <<>> /\ ~IsFragment(stream[1]) /\ got < stream[1].till

ReaderIInv == ReaderTypeOK /\ StreamInv /\ ReadInv

-----------------------------------------------------------------------------
(* What a read of k bytes leaves *)

LEMMA Units ==
  /\ HeadLen \in Nat \ {0} /\ Unit \in Nat \ {0} /\ ReadBuf \in Nat \ {0}
  /\ HeadLen = 4 * Unit
BY ReaderAssumption

LEMMA UnitsOf ==
  ASSUME NEW d \in Nat
  PROVE  /\ Unit * d \in Nat
         /\ d >= 4 => Unit * (d - 4) = Unit * d - HeadLen
         /\ d <= 4 => Unit * d <= HeadLen
<1>1. Unit * d \in Nat /\ (d >= 4 => Unit * (d - 4) = Unit * d - HeadLen)
  BY Units
<1>2. CASE d <= 4
  <2>1. d \in {0, 1, 2, 3, 4}
    BY <1>2
  <2> QED
    BY Units, <1>1, <2>1
<1>3. CASE ~(d <= 4)
  BY <1>1, <1>3
<1> QED
  BY <1>2, <1>3

LEMMA FrameOf ==
  ASSUME StreamInv, NEW i \in 1 .. Len(stream)
  PROVE  /\ stream[i] \in Frames /\ stream[i].till \in Nat \ {0}
         /\ stream[i].wire \in Wires
         /\ BeginIn(stream, i) = Begin(i) /\ Begin(i) \in Nat /\ Begin(i) < stream[i].till
         /\ Sized(stream[i], Begin(i))
         /\ stream # <<>> /\ Len(stream) \in Nat \ {0}
         /\ Head(stream) = stream[1]
         /\ StreamBytes = stream[Len(stream)].till
<1>1. stream \in Seq(Frames) /\ Len(stream) \in Nat
  BY DEF StreamInv, InStream
<1>2. stream[i] \in Frames
  BY <1>1, ElementOfSeq
<1>3. i # 1 => stream[i - 1] \in Frames
  <2>1. i # 1 => i - 1 \in 1 .. Len(stream)
    BY <1>1
  <2> QED
    BY <1>1, <2>1, ElementOfSeq
<1>4. stream # <<>>
  BY <1>1
<1>5. BeginIn(stream, i) = Begin(i) /\ Begin(i) \in Nat
  BY <1>3 DEF BeginIn, Begin, Frames
<1> QED
  BY <1>1, <1>2, <1>4, <1>5 DEF StreamInv, InStream, Frames, StreamBytes

\* The frame in which the read stops.
LEMMA StopsIn ==
  ASSUME StreamInv, NEW k \in Nat, k < StreamBytes, NEW met
  PROVE  \E i \in 1 .. Len(stream) :
           /\ Begin(i) <= k /\ k < stream[i].till
           /\ Rest(k, met) = RestFrom(i, k, met)
<1> DEFINE T == {j \in 1 .. Len(stream) : stream[j].till > k}
           i == Min(T)
<1>1. stream \in Seq(Frames) /\ stream # <<>> /\ Len(stream) \in Nat \ {0}
  BY EmptySeq DEF StreamBytes, StreamInv, InStream
<1>2. StreamBytes = stream[Len(stream)].till /\ Len(stream) \in T
  BY <1>1 DEF StreamBytes
<1>3. i \in T /\ \A j \in T : i <= j
  <2>1. T \in SUBSET Nat /\ T # {}
    BY <1>1, <1>2
  <2> HIDE DEF T
  <2> QED
    BY <2>1, Least
<1>4. i \in 1 .. Len(stream) /\ k < stream[i].till
  BY <1>3
<1>5. Begin(i) <= k
  <2>1. CASE i = 1
    BY <2>1 DEF Begin
  <2>2. CASE i # 1
    <3>1. i - 1 \in 1 .. Len(stream) /\ ~(i <= i - 1)
      BY <1>1, <1>4, <2>2
    <3>2. i - 1 \notin T
      BY <1>3, <3>1
    <3>3. stream[i - 1].till \in Nat
      BY <3>1, FrameOf
    <3> QED
      BY <2>2, <3>1, <3>2, <3>3 DEF Begin
  <2> QED
    BY <2>1, <2>2
<1>6. k # StreamBytes
  BY <1>1, <1>2, FrameOf
<1>7. Rest(k, met) = RestFrom(i, k, met)
  BY <1>6 DEF Rest
<1> QED
  BY <1>4, <1>5, <1>7

\* A sequence without its first four elements.
LEMMA Beheaded ==
  ASSUME NEW s \in Seq(Nat)
  PROVE  /\ SubSeq(s, 5, Len(s)) \in Seq(Nat)
         /\ Len(SubSeq(s, 5, Len(s))) = IF 5 <= Len(s) THEN Len(s) - 4 ELSE 0
<1>1. Len(s) \in Nat
  OBVIOUS
<1>2. \A i \in 5 .. Len(s) : s[i] \in Nat
  BY <1>1, ElementOfSeq
<1> QED
  BY <1>1, <1>2, SubSeqProperties

\* A frame that is cut keeps too few bytes for its data, also where a read met it
\* and it lost a header's worth of both.
LEMMA CutSized ==
  ASSUME NEW f \in Frames, NEW b \in Int, Sized(f, b), b < f.till,
         NEW k \in Int, b < k, k < f.till, NEW met \in BOOLEAN,
         met /\ IsFragment(f) => k >= b + HeadLen
  PROVE  /\ Cut(f, met) \in Wires
         /\ f.till - k < HeadLen + Unit * Len(Cut(f, met).data)
<1> DEFINE d == Len(f.wire.data)
           c == Cut(f, met)
<1>1. f.till \in Nat /\ f.wire \in Wires /\ f.wire.data \in Seq(Nat) /\ d \in Nat
  BY DEF Frames, Wires
<1>2. f.till - b <= HeadLen + Unit * d
  <2>1. Unit * d \in Nat /\ HeadLen \in Nat
    BY <1>1, Units, UnitsOf
  <2> QED
    BY <1>1, <2>1 DEF Sized
<1>3. CASE met /\ IsFragment(f)
  <2>1. /\ c.data = SubSeq(f.wire.data, 5, d)
        /\ c = [ans |-> "fragment", code |-> "none", size |-> 0, id |-> 0,
                data |-> SubSeq(f.wire.data, 5, d), fresh |-> FALSE]
    BY <1>3 DEF Cut
  <2>3. /\ SubSeq(f.wire.data, 5, d) \in Seq(Nat)
        /\ Len(SubSeq(f.wire.data, 5, d)) = IF 5 <= d THEN d - 4 ELSE 0
    BY <1>1, Beheaded
  <2>4. c \in Wires
    BY <2>1, <2>3 DEF Wires
  <2>5. f.till - k < Unit * d
    <3>1. f.till - b < HeadLen + Unit * d /\ k >= b + HeadLen
      BY <1>3 DEF Sized
    <3> DEFINE w == Unit * d
               till == f.till
    <3>2. /\ w \in Nat /\ HeadLen \in Nat /\ till \in Nat
          /\ till - b < HeadLen + w
      BY <1>1, <3>1, Units, UnitsOf
    <3> HIDE DEF w, till
    <3>3. till - k < w
      BY ONLY <3>1, <3>2, k \in Int, b \in Int
    <3> QED
      BY <3>3 DEF w, till
  <2>6. CASE d >= 5
    <3>1. Len(c.data) = d - 4
      <4>1. Len(c.data) = Len(SubSeq(f.wire.data, 5, d))
        BY <2>1
      <4>2. Len(SubSeq(f.wire.data, 5, d)) = d - 4
        BY <2>3, <2>6
      <4> QED
        BY ONLY <4>1, <4>2
    <3>2. Unit * (d - 4) = Unit * d - HeadLen /\ Unit * d \in Nat /\ HeadLen \in Nat
      <4>1. d >= 4
        BY ONLY <1>1, <2>6
      <4> HIDE DEF d
      <4>2. HeadLen \in Nat
        BY Units
      <4> QED
        BY ONLY <1>1, <4>1, <4>2, UnitsOf
    <3>3. HeadLen + Unit * (d - 4) = Unit * d
      BY ONLY <3>2
    <3> QED
      BY <2>4, <2>5, <3>1, <3>3
  <2>7. CASE d < 5
    <3>1. Len(c.data) = 0 /\ Unit * 0 = 0
      BY <1>1, <2>1, <2>3, <2>7, Units
    <3>2. Unit * d <= HeadLen /\ Unit * d \in Nat /\ HeadLen \in Nat
      BY <1>1, <2>7, Units, UnitsOf
    <3> QED
      BY ONLY <1>1, <2>4, <2>5, <3>1, <3>2, k \in Int
  <2> QED
    BY <1>1, <2>6, <2>7
<1>4. CASE ~(met /\ IsFragment(f))
  <2>1. c = [ans |-> "fragment", code |-> "none", size |-> 0, id |-> 0,
             data |-> f.wire.data, fresh |-> FALSE]
    BY <1>4 DEF Cut
  <2>2. c \in Wires /\ Len(c.data) = d
    BY <1>1, <2>1 DEF Wires
  <2>3. Unit * d \in Nat /\ HeadLen \in Nat
    BY <1>1, Units, UnitsOf
  <2>4. f.till - k < HeadLen + Unit * d
    <3> DEFINE w == Unit * d
               till == f.till
    <3>1. till \in Nat /\ w \in Nat /\ HeadLen \in Nat /\ till - b <= HeadLen + w
      BY <1>1, <1>2, <2>3
    <3> HIDE DEF w, till
    <3>2. till - k < HeadLen + w
      BY ONLY <3>1, k \in Int, b \in Int, b < k
    <3> QED
      BY <3>2 DEF w, till
  <2> QED
    BY <2>2, <2>4
<1> QED
  BY <1>3, <1>4

\* The rest from frame i on.
LEMMA RestElements ==
  ASSUME StreamInv, NEW i \in 1 .. Len(stream), NEW k \in Nat, NEW met \in BOOLEAN,
         Begin(i) <= k, k < stream[i].till,
         met /\ i = 1 /\ k # 0 /\ IsFragment(stream[1]) => k >= HeadLen
  PROVE  LET r == RestFrom(i, k, met) IN
         /\ r \in Seq(Frames) /\ Len(r) = Len(stream) - i + 1 /\ Len(r) \in Nat \ {0}
         /\ r # <<>>
         /\ r[1].till = stream[i].till - k
         /\ r[1].wire = IF k # Begin(i) THEN Cut(stream[i], met /\ i = 1)
                                        ELSE stream[i].wire
         /\ \A j \in 1 .. Len(r) : r[j].till = stream[i + j - 1].till - k
         /\ \A j \in 2 .. Len(r) : r[j].wire = stream[i + j - 1].wire
<1> DEFINE n == Len(stream) - i + 1
           e(j) == LET f == stream[i + j - 1] IN
                   [till |-> f.till - k,
                    wire |-> IF j = 1 /\ k # Begin(i) THEN Cut(f, met /\ i = 1)
                                                      ELSE f.wire]
           r == RestFrom(i, k, met)
<1>0. Len(stream) \in Nat /\ n \in Nat \ {0}
  BY DEF StreamInv, InStream
<1>1. r = [j \in 1 .. n |-> e(j)]
  BY DEF RestFrom
<1>2. ASSUME NEW j \in 1 .. n PROVE e(j) \in Frames
  <2> DEFINE f == stream[i + j - 1]
  <2>1. i + j - 1 \in 1 .. Len(stream) /\ i + j - 1 >= i
    BY <1>0
  <2>2. f \in Frames /\ f.till \in Nat /\ f.wire \in Wires
    BY <2>1, FrameOf
  <2>3. k < f.till
    <3>1. stream[i].till <= f.till
      <4>1. CASE j = 1
        BY <4>1, FrameOf
      <4>2. CASE j # 1
        <5>1. i < i + j - 1
          BY <1>0, <4>2
        <5>2. \A a, b \in 1 .. Len(stream) : a < b => stream[a].till < stream[b].till
          BY DEF StreamInv, InStream
        <5>3. stream[i].till < f.till
          BY ONLY <2>1, <5>1, <5>2, i \in 1 .. Len(stream)
        <5>4. stream[i].till \in Nat
          BY FrameOf
        <5> HIDE DEF f
        <5> QED
          BY ONLY <2>2, <5>3, <5>4
      <4> QED
        BY <4>1, <4>2
    <3> QED
      BY <2>2, <3>1, FrameOf
  <2>4. f.till - k \in Nat \ {0}
    <3>1. \A a, b \in Nat : b < a => a - b \in Nat \ {0}
      OBVIOUS
    <3> HIDE DEF f
    <3> QED
      BY <2>2, <2>3, <3>1, Zenon
  <2>5. j = 1 /\ k # Begin(i) => Cut(f, met /\ i = 1) \in Wires
    <3> SUFFICES ASSUME j = 1, k # Begin(i) PROVE Cut(f, met /\ i = 1) \in Wires
      OBVIOUS
    <3>1. f = stream[i] /\ Begin(i) < k /\ Begin(i) \in Nat /\ Sized(f, Begin(i))
          /\ Begin(i) < f.till
      BY FrameOf
    <3>2. i = 1 => Begin(i) = 0
      BY DEF Begin
    <3>3. (met /\ i = 1) /\ IsFragment(f) => k >= Begin(i) + HeadLen
      BY <3>1, <3>2, Units
    <3>4. ASSUME NEW m \in BOOLEAN, m /\ IsFragment(f) => k >= Begin(i) + HeadLen
          PROVE  Cut(f, m) \in Wires
      <4> HIDE DEF f
      <4>1. k \in Int /\ Begin(i) \in Int
        BY <3>1
      <4> QED
        BY <2>2, <2>3, <3>1, <3>4, <4>1, CutSized
    <3> QED
      BY <3>3, <3>4
  <2> QED
    BY <2>2, <2>4, <2>5 DEF Frames
<1> HIDE DEF e
<1>3. r \in Seq(Frames) /\ Len(r) = n
  BY <1>0, <1>1, <1>2
<1>4. \A j \in 1 .. n : r[j] = e(j)
  BY <1>1
<1>5. /\ \A j \in 1 .. n : r[j].till = stream[i + j - 1].till - k
      /\ \A j \in 2 .. n : r[j].wire = stream[i + j - 1].wire
      /\ r[1].till = stream[i].till - k
      /\ r[1].wire = IF k # Begin(i) THEN Cut(stream[i], met /\ i = 1)
                                     ELSE stream[i].wire
  <2>1. 1 \in 1 .. n /\ i + 1 - 1 = i /\ \A j \in 2 .. n : j # 1 /\ j \in 1 .. n
    BY <1>0
  <2>2. r[1] = e(1) /\ \A j \in 2 .. n : r[j] = e(j)
    BY <1>4, <2>1
  <2>3. ASSUME NEW j \in 1 .. n PROVE r[j].till = stream[i + j - 1].till - k
    <3>1. r[j] = e(j)
      BY <1>4
    <3>2. e(j).till = stream[i + j - 1].till - k
      BY DEF e
    <3> QED
      BY <3>1, <3>2
  <2>4. ASSUME NEW j \in 2 .. n PROVE r[j].wire = stream[i + j - 1].wire
    <3>1. r[j] = e(j) /\ j # 1
      BY <2>1, <2>2
    <3>2. e(j).wire = stream[i + j - 1].wire
      BY <3>1 DEF e
    <3> QED
      BY <3>1, <3>2
  <2>5. /\ r[1].till = stream[i].till - k
        /\ r[1].wire = IF k # Begin(i) THEN Cut(stream[i], met /\ i = 1)
                                       ELSE stream[i].wire
    BY <2>1, <2>2 DEF e
  <2> QED
    BY <2>3, <2>4, <2>5
<1> QED
  BY <1>0, <1>3, <1>5, EmptySeq

LEMMA RestInStream ==
  ASSUME StreamInv, NEW k \in 0 .. arrived, NEW met \in BOOLEAN,
         met /\ k # 0 /\ stream # <<>> /\ k < stream[1].till /\ IsFragment(stream[1])
           => k >= HeadLen
  PROVE  InStream(Rest(k, met), arrived - k)
<1>0. arrived \in Nat /\ arrived <= StreamBytes /\ k \in Nat
  BY DEF StreamInv, InStream, StreamBytes
<1>1. CASE k = StreamBytes
  <2>1. Rest(k, met) = <<>> /\ arrived - k \in Nat /\ arrived - k <= 0
    BY <1>0, <1>1 DEF Rest
  <2>2. <<>> \in Seq(Frames) /\ Len(<<>>) = 0
    BY EmptySeq
  <2> QED
    BY <2>1, <2>2 DEF InStream
<1>2. CASE k # StreamBytes
  <2>0. k < StreamBytes
    <3>1. StreamBytes \in Int
      <4>1. CASE stream = <<>>
        BY <4>1 DEF StreamBytes
      <4>2. CASE stream # <<>>
        BY <4>2, FrameOf, EmptySeq DEF StreamInv, InStream
      <4> QED
        BY <4>1, <4>2
    <3> QED
      BY <1>0, <1>2, <3>1
  <2>1. PICK i \in 1 .. Len(stream) :
          /\ Begin(i) <= k /\ k < stream[i].till
          /\ Rest(k, met) = RestFrom(i, k, met)
    BY <1>0, <2>0, StopsIn
  <2> DEFINE r == RestFrom(i, k, met)
             n == Len(stream) - i + 1
  <2>2. /\ stream \in Seq(Frames) /\ Len(stream) \in Nat \ {0} /\ n \in Nat \ {0}
        /\ stream # <<>>
        /\ StreamBytes = stream[Len(stream)].till
    BY FrameOf DEF StreamInv, InStream
  <2>3. met /\ i = 1 /\ k # 0 /\ IsFragment(stream[1]) => k >= HeadLen
    BY <2>1, <2>2
  <2>4. /\ r \in Seq(Frames) /\ Len(r) = n /\ r # <<>>
        /\ r[1].till = stream[i].till - k
        /\ r[1].wire = IF k # Begin(i) THEN Cut(stream[i], met /\ i = 1)
                                       ELSE stream[i].wire
        /\ \A j \in 1 .. n : r[j].till = stream[i + j - 1].till - k
        /\ \A j \in 2 .. n : r[j].wire = stream[i + j - 1].wire
    <3>1. k \in Nat /\ Begin(i) <= k /\ k < stream[i].till
      BY <1>0, <2>1
    <3> QED
      BY <2>2, <2>3, <3>1, RestElements
  <2> HIDE DEF r
  <2>5. \A j \in 2 .. n : /\ i + j - 1 \in 1 .. Len(stream) /\ i + j - 1 # 1
                          /\ i + (j - 1) - 1 = (i + j - 1) - 1
                          /\ j - 1 \in 1 .. n /\ j # 1 /\ j \in 1 .. n
    BY <2>2
  <2>6. \A j \in 2 .. n : BeginIn(r, j) = Begin(i + j - 1) - k
    BY <2>4, <2>5 DEF BeginIn, Begin
  <2>7. BeginIn(r, 1) = 0
    BY DEF BeginIn
  <2>8. r[1].till > 0 /\ stream[i].till \in Nat /\ Begin(i) \in Nat
    BY <1>0, <2>1, <2>4, FrameOf
  <2>9. \A j \in 1 .. n : BeginIn(r, j) < r[j].till
    <3> SUFFICES ASSUME NEW j \in 1 .. n PROVE BeginIn(r, j) < r[j].till
      OBVIOUS
    <3>1. CASE j = 1
      BY <2>7, <2>8, <3>1
    <3>2. CASE j # 1
      <4>1. j \in 2 .. n
        BY <2>2, <3>2
      <4>2. Begin(i + j - 1) < stream[i + j - 1].till /\ Begin(i + j - 1) \in Nat
            /\ stream[i + j - 1].till \in Nat
        BY <2>5, <4>1, FrameOf
      <4>3. BeginIn(r, j) = Begin(i + j - 1) - k /\ r[j].till = stream[i + j - 1].till - k
        BY <2>4, <2>6, <4>1
      <4> QED
        BY ONLY <1>0, <4>2, <4>3
    <3> QED
      BY <3>1, <3>2
  <2>10. \A a, b \in 1 .. n : a < b => r[a].till < r[b].till
    <3> SUFFICES ASSUME NEW a \in 1 .. n, NEW b \in 1 .. n, a < b
                 PROVE  r[a].till < r[b].till
      OBVIOUS
    <3>1. /\ i + a - 1 \in 1 .. Len(stream) /\ i + b - 1 \in 1 .. Len(stream)
          /\ i + a - 1 < i + b - 1
      <4>1. i \in 1 .. Len(stream) /\ Len(stream) \in Nat
        BY <2>2
      <4>2. a \in 1 .. Len(stream) - i + 1 /\ b \in 1 .. Len(stream) - i + 1
        OBVIOUS
      <4> QED
        BY ONLY <4>1, <4>2, a < b
    <3>2. /\ stream[i + a - 1].till < stream[i + b - 1].till
          /\ stream[i + a - 1].till \in Nat /\ stream[i + b - 1].till \in Nat
      BY <3>1, FrameOf DEF StreamInv, InStream
    <3>3. /\ r[a].till = stream[i + a - 1].till - k
          /\ r[b].till = stream[i + b - 1].till - k
      BY <2>4
    <3> QED
      <4> HIDE DEF n
      <4>1. k \in Int
        BY <1>0
      <4>2. \A x, y \in Nat : x < y => x - k < y - k
        BY ONLY <4>1
      <4> QED
        BY <3>2, <3>3, <4>2, Zenon
  <2>11. \A j \in 1 .. n : Sized(r[j], BeginIn(r, j))
    <3> SUFFICES ASSUME NEW j \in 1 .. n PROVE Sized(r[j], BeginIn(r, j))
      OBVIOUS
    <3>1. CASE j # 1
      <4>1. j \in 2 .. n
        BY <2>2, <3>1
      <4> DEFINE f == stream[i + j - 1]
      <4>2. /\ Begin(i + j - 1) \in Nat /\ f.till \in Nat
            /\ Sized(f, Begin(i + j - 1))
        BY <2>5, <4>1, FrameOf
      <4>3. /\ r[j].wire = f.wire
            /\ r[j].till - BeginIn(r, j) = f.till - Begin(i + j - 1)
        <5>1. j \in 1 .. n /\ k \in Int
          BY <1>0
        <5>2. r[j].wire = f.wire /\ r[j].till = f.till - k
          BY <2>4, <4>1, <5>1
        <5>3. BeginIn(r, j) = Begin(i + j - 1) - k
          BY <2>6, <4>1
        <5> HIDE DEF f
        <5> QED
          BY ONLY <4>2, <5>1, <5>2, <5>3
      <4> HIDE DEF f
      <4> QED
        BY <4>2, <4>3 DEF Sized, IsFragment
    <3>2. CASE j = 1 /\ k = Begin(i)
      <4>1. Sized(stream[i], Begin(i))
        BY FrameOf
      <4>2. /\ r[j].wire = stream[i].wire
            /\ r[j].till - BeginIn(r, j) = stream[i].till - Begin(i)
        BY <2>4, <2>7, <2>8, <3>2
      <4> QED
        BY <4>1, <4>2 DEF Sized, IsFragment
    <3>3. CASE j = 1 /\ k # Begin(i)
      <4>1. /\ stream[i] \in Frames /\ Sized(stream[i], Begin(i))
            /\ Begin(i) < k /\ Begin(i) < stream[i].till
        BY <1>0, <2>1, <2>8, <3>3, FrameOf
      <4>2. (met /\ i = 1) /\ IsFragment(stream[i]) => k >= Begin(i) + HeadLen
        <5>1. i = 1 => Begin(i) = 0
          BY DEF Begin
        <5> QED
          BY <1>0, <2>3, <3>3, <5>1, Units
      <4>3. stream[i].till - k < HeadLen + Unit * Len(Cut(stream[i], met /\ i = 1).data)
        <5>1. (met /\ i = 1) \in BOOLEAN /\ k \in Int /\ Begin(i) \in Int
          BY <1>0, <2>8
        <5> QED
          BY <2>1, <4>1, <4>2, <5>1, CutSized
      <4>4. /\ r[j].wire = Cut(stream[i], met /\ i = 1)
            /\ r[j].till - BeginIn(r, j) = stream[i].till - k
        BY <1>0, <2>4, <2>7, <2>8, <3>3
      <4>5. /\ Cut(stream[i], met /\ i = 1).ans = "fragment"
            /\ Cut(stream[i], met /\ i = 1).code = "none"
            /\ ~Cut(stream[i], met /\ i = 1).fresh
        BY DEF Cut
      <4> QED
        BY <4>3, <4>4, <4>5 DEF Sized, IsFragment
    <3> QED
      BY <3>1, <3>2, <3>3
  <2>12. arrived - k \in Nat /\ arrived - k <= r[n].till
    <3>1. n \in 1 .. n /\ i + n - 1 = Len(stream)
      BY <2>2
    <3>2. r[n].till = StreamBytes - k
      BY <2>2, <2>4, <3>1
    <3>3. StreamBytes \in Nat
      BY <2>2, FrameOf
    <3> QED
      BY <1>0, <3>2, <3>3
  <2>13. \/ BeginIn(r, n) < arrived - k
         \/ n = 1 /\ IsFragment(r[1])
    <3>1. \/ Begin(Len(stream)) < arrived
          \/ Len(stream) = 1 /\ IsFragment(stream[1])
      BY <2>2, FrameOf DEF StreamInv, InStream
    <3>2. Begin(Len(stream)) \in Nat
      BY <2>2, FrameOf
    <3>3. CASE n # 1
      <4>1. n \in 2 .. n /\ i + n - 1 = Len(stream) /\ Len(stream) # 1
        BY <2>2, <3>3
      <4>2. BeginIn(r, n) = Begin(Len(stream)) - k
        BY <2>6, <4>1
      <4>3. Begin(Len(stream)) < arrived
        BY <3>1, <4>1
      <4> QED
        BY ONLY <1>0, <3>2, <4>2, <4>3
    <3>4. CASE n = 1
      <4>1. i = Len(stream)
        BY <2>2, <3>4
      <4>2. CASE k < arrived
        BY <1>0, <2>7, <3>4, <4>2
      <4>3. CASE k = arrived /\ k # Begin(i)
        BY <2>4, <3>4, <4>3 DEF Cut, IsFragment
      <4>4. CASE k = arrived /\ k = Begin(i)
        <5>1. i = 1 /\ IsFragment(stream[1])
          BY <1>0, <3>1, <3>2, <4>1, <4>4
        <5> QED
          BY <2>4, <3>4, <4>4, <5>1 DEF IsFragment
      <4> QED
        BY <1>0, <4>2, <4>3, <4>4
    <3> QED
      BY <3>3, <3>4
  <2> QED
    BY <2>1, <2>4, <2>9, <2>10, <2>11, <2>12, <2>13 DEF InStream, r
<1> QED
  BY <1>1, <1>2

-----------------------------------------------------------------------------
(* The steps *)

LEMMA ReaderInitial == ReaderInit => ReaderIInv /\ LimitHonest
<1> SUFFICES ASSUME ReaderInit PROVE ReaderIInv /\ LimitHonest
  OBVIOUS
<1> USE DEF ReaderInit
<1>1. <<>> \in Seq(Frames) /\ <<>> \in Seq(BOOLEAN) /\ Len(<<>>) = 0
  BY EmptySeq
<1>2. StreamInv
  BY <1>1 DEF StreamInv, InStream
<1>3. ReadInv
  BY Units DEF ReadInv
<1>4. ReaderTypeOK
  BY <1>1, ReaderAssumption DEF ReaderTypeOK, Results
<1> QED
  BY <1>2, <1>3, <1>4 DEF ReaderIInv, LimitHonest

\* The types of what Finish does not take from the stream.
LEMMA Tills ==
  ASSUME NEW frames, NEW n, InStream(frames, n)
  PROVE  \A i \in 1 .. Len(frames) : frames[i].till \in Nat \ {0}
<1>1. frames \in Seq(Frames)
  BY DEF InStream
<1>2. \A i \in 1 .. Len(frames) : frames[i] \in Frames
  BY <1>1, ElementOfSeq
<1> QED
  BY <1>2 DEF Frames

\* The bytes of a Read.
LEMMA ReadBytes ==
  ASSUME ReaderIInv, got < arrived
  PROVE  LET k == Min({got + ReadBuf, arrived}) IN
         /\ k \in Nat /\ got < k /\ k <= arrived /\ k <= got + ReadBuf
         /\ got \in Nat /\ arrived \in Nat
         /\ stream # <<>> /\ Head(stream) = stream[1] /\ 1 \in 1 .. Len(stream)
         /\ stream[1].till \in Nat
<1>1. got \in Nat /\ arrived \in Nat
  BY DEF ReaderIInv, ReaderTypeOK
<1>2. {got + ReadBuf, arrived} \in SUBSET Nat
  BY <1>1, Units
<1>3. LET k == Min({got + ReadBuf, arrived}) IN
      k \in {got + ReadBuf, arrived} /\ \A y \in {got + ReadBuf, arrived} : k <= y
  BY <1>2, Least
<1>4. got < got + ReadBuf
  BY <1>1, Units
<1>5. stream \in Seq(Frames) /\ stream # <<>>
  BY <1>1 DEF ReaderIInv, StreamInv, InStream
<1>6. 1 \in 1 .. Len(stream) /\ Head(stream) = stream[1]
  BY <1>5, EmptySeq
<1>7. stream[1].till \in Nat
  BY <1>6, FrameOf DEF ReaderIInv
<1> QED
  BY <1>1, <1>2, <1>3, <1>4, <1>5, <1>6, <1>7

\* A read that ends leaves a stream again, if it took no less than a header from
\* a fragment that it looked at.
LEMMA FinishLeaves ==
  ASSUME ReaderIInv, NEW how \in Results, NEW k \in 0 .. arrived,
         NEW leaves \in {0, 1}, NEW cost \in {0, 1},
         Finish(how, k, leaves, cost), UNCHANGED <<conn, owed, writes>>,
         how \notin {"late", "error"} /\ k # 0 /\ stream # <<>> /\ k < stream[1].till
           /\ IsFragment(stream[1]) => k >= HeadLen
  PROVE  ReaderIInv'
<1>1. InStream(stream', arrived')
  <2>1. CASE how = "error"
    <3>1. stream' = <<>> /\ arrived' = 0
      BY <2>1 DEF Finish
    <3>2. <<>> \in Seq(Frames) /\ Len(<<>>) = 0
      BY EmptySeq
    <3> QED
      BY <3>1, <3>2 DEF InStream
  <2>2. CASE how # "error"
    <3>1. stream' = Rest(k, how # "late") /\ arrived' = arrived - k
      BY <2>2 DEF Finish
    <3>2. StreamInv
      BY DEF ReaderIInv
    <3>3. ASSUME NEW met \in BOOLEAN, met => how # "late"
          PROVE  InStream(Rest(k, met), arrived - k)
      <4>1. met /\ k # 0 /\ stream # <<>> /\ k < stream[1].till /\ IsFragment(stream[1])
              => k >= HeadLen
        BY <2>2, <3>3
      <4> QED
        BY <3>2, <4>1, RestInStream
    <3>4. (how # "late") \in BOOLEAN
      OBVIOUS
    <3> QED
      BY <3>1, <3>3, <3>4
  <2> QED
    BY <2>1, <2>2
<1>2. StreamInv'
  BY <1>1 DEF StreamInv
<1>3. arrived' \in Nat
  BY <1>1 DEF InStream
<1>4. ReadInv'
  BY <1>3 DEF ReadInv, Finish
<1>5. total' \in Nat
  <2>1. stream # <<>> => Head(stream) = stream[1] /\ stream[1].till \in Nat
    <3>1. stream # <<>> => 1 \in 1 .. Len(stream) /\ Head(stream) = stream[1]
      BY EmptySeq DEF ReaderIInv, StreamInv, InStream
    <3> QED
      BY <3>1, FrameOf DEF ReaderIInv
  <2> QED
    BY <2>1 DEF Finish
<1>6. ReaderTypeOK'
  <2>1. \A i \in 1 .. Len(stream') : stream'[i].till \in Nat \ {0}
    BY <1>1, Tills
  <2>2. late' \in Nat /\ faults' \in 0 .. MaxFaults
    BY ReaderAssumption DEF ReaderIInv, ReaderTypeOK, Finish
  <2>3. faulted' \subseteq {"conn", "getTime"}
    BY DEF ReaderIInv, ReaderTypeOK, Finish
  <2> QED
    BY <1>3, <1>5, <2>1, <2>2, <2>3 DEF ReaderIInv, ReaderTypeOK, Finish
<1> QED
  BY <1>2, <1>4, <1>6 DEF ReaderIInv

LEMMA WriteStep == ReaderIInv /\ Write => ReaderIInv'
<1> SUFFICES ASSUME ReaderIInv, Write PROVE ReaderIInv'
  OBVIOUS
<1> DEFINE n == Len(stream)
<1>1. stream \in Seq(Frames) /\ n \in Nat /\ InStream(stream, arrived)
  BY DEF ReaderIInv, StreamInv, InStream
<1>2. \A i \in 1 .. n : [stream[i] EXCEPT !.wire.fresh = FALSE] \in Frames
  <2> SUFFICES ASSUME NEW i \in 1 .. n
               PROVE  [stream[i] EXCEPT !.wire.fresh = FALSE] \in Frames
    OBVIOUS
  <2>1. stream[i] \in Frames
    BY <1>1, ElementOfSeq
  <2> QED
    BY <2>1 DEF Frames, Wires
<1>3. /\ stream' \in Seq(Frames) /\ Len(stream') = n
      /\ \A i \in 1 .. n : stream'[i] = [stream[i] EXCEPT !.wire.fresh = FALSE]
  <2>1. stream' = [i \in 1 .. n |-> [stream[i] EXCEPT !.wire.fresh = FALSE]]
    BY DEF Write, Superseded
  <2> QED
    BY <1>1, <1>2, <2>1
<1>4. \A i \in 1 .. n : /\ stream'[i].till = stream[i].till
                        /\ stream'[i].wire.ans = stream[i].wire.ans
                        /\ stream'[i].wire.code = stream[i].wire.code
                        /\ stream'[i].wire.data = stream[i].wire.data
                        /\ stream'[i].wire.fresh = FALSE
  <2> SUFFICES ASSUME NEW i \in 1 .. n
               PROVE  /\ stream'[i].till = stream[i].till
                      /\ stream'[i].wire.ans = stream[i].wire.ans
                      /\ stream'[i].wire.code = stream[i].wire.code
                      /\ stream'[i].wire.data = stream[i].wire.data
                      /\ stream'[i].wire.fresh = FALSE
    OBVIOUS
  <2>1. stream[i] \in Frames /\ stream'[i] = [stream[i] EXCEPT !.wire.fresh = FALSE]
    BY <1>1, <1>3, ElementOfSeq
  <2>2. ASSUME NEW f \in Frames
        PROVE  LET g == [f EXCEPT !.wire.fresh = FALSE] IN
               /\ g.till = f.till /\ g.wire.ans = f.wire.ans
               /\ g.wire.code = f.wire.code /\ g.wire.data = f.wire.data
               /\ g.wire.fresh = FALSE
    BY DEF Frames, Wires
  <2> QED
    BY <2>1, <2>2
<1>5. arrived' = arrived /\ (stream' = <<>> <=> stream = <<>>)
  BY <1>1, <1>3, EmptySeq DEF Write
<1>6. \A i \in 1 .. n : BeginIn(stream', i) = BeginIn(stream, i)
  <2>1. \A i \in 1 .. n : i # 1 => i - 1 \in 1 .. n
    BY <1>1
  <2> QED
    BY <1>4, <2>1 DEF BeginIn
<1>7. \A i \in 1 .. n : Sized(stream'[i], BeginIn(stream', i))
  <2>1. \A i \in 1 .. n : Sized(stream[i], BeginIn(stream, i))
    BY <1>1 DEF InStream
  <2> QED
    BY <1>4, <1>6, <2>1 DEF Sized, IsFragment
<1>8. StreamInv'
  <2>1. \A i \in 1 .. n : BeginIn(stream', i) < stream'[i].till
    BY <1>1, <1>4, <1>6 DEF InStream
  <2>2. \A i, j \in 1 .. n : i < j => stream'[i].till < stream'[j].till
    BY <1>1, <1>4 DEF InStream
  <2>3. arrived' \in Nat
        /\ arrived' <= IF stream' = <<>> THEN 0 ELSE stream'[n].till
    <3>1. stream # <<>> => n \in 1 .. n
      BY <1>1, EmptySeq
    <3> QED
      BY <1>1, <1>4, <1>5, <3>1 DEF InStream
  <2>4. stream' # <<>> =>
          \/ BeginIn(stream', n) < arrived'
          \/ n = 1 /\ IsFragment(stream'[1])
    <3>1. stream # <<>> => n \in 1 .. n /\ 1 \in 1 .. n
      BY <1>1, EmptySeq
    <3> QED
      BY <1>1, <1>4, <1>5, <1>6, <3>1 DEF InStream, IsFragment
  <2> QED
    BY <1>3, <1>7, <2>1, <2>2, <2>3, <2>4 DEF StreamInv, InStream
<1>9. ReadInv'
  <2>1. got' = 0 /\ stage' = "head"
    BY DEF Write
  <2>2. arrived' \in Nat
    BY <1>1, <1>5 DEF InStream
  <2> QED
    BY <2>1, <2>2, Units DEF ReadInv
<1>10. ReaderTypeOK'
  <2>1. \A i \in 1 .. Len(stream') : stream'[i].till \in Nat \ {0}
    BY <1>8, Tills DEF StreamInv
  <2>2. owed' \in Seq(BOOLEAN)
    <3>1. owed \in Seq(BOOLEAN) /\ Len(owed) \in Nat
      BY DEF ReaderIInv, ReaderTypeOK
    <3>2. [i \in 1 .. Len(owed) |-> FALSE] \in Seq(BOOLEAN)
      BY <3>1
    <3>3. Append([i \in 1 .. Len(owed) |-> FALSE], TRUE) \in Seq(BOOLEAN)
      BY <3>2, AppendProperties
    <3> QED
      BY <3>1, <3>3 DEF Write
  <2>3. writes' \in 0 .. MaxWrites
    BY ReaderAssumption DEF ReaderIInv, ReaderTypeOK, Write
  <2>4. got' \in 0 .. arrived' /\ arrived' \in Nat
    BY <1>9, <1>1, <1>5 DEF ReadInv, InStream
  <2> QED
    BY <2>1, <2>2, <2>3, <2>4 DEF ReaderIInv, ReaderTypeOK, Write
<1> QED
  BY <1>8, <1>9, <1>10 DEF ReaderIInv

LEMMA AnswerStep == ReaderIInv /\ AnswerArrives => ReaderIInv'
<1> SUFFICES ASSUME ReaderIInv, AnswerArrives PROVE ReaderIInv'
  OBVIOUS
<1> DEFINE n == Len(stream)
<1>1. stream \in Seq(Frames) /\ n \in Nat /\ InStream(stream, arrived)
      /\ (stream = <<>> <=> n = 0)
  BY EmptySeq DEF ReaderIInv, StreamInv, InStream
<1>2. arrived = StreamBytes /\ arrived \in Nat
  BY DEF AnswerArrives, ReaderIInv, ReaderTypeOK
<1>3. PICK d \in DataLens :
        /\ stream' = Append(stream, Frame(d, Head(owed)))
        /\ arrived' \in arrived + 1 .. Frame(d, Head(owed)).till
  BY DEF AnswerArrives
<1> DEFINE f == Frame(d, Head(owed))
<1>4. d \in Nat /\ Unit * d \in Nat /\ HeadLen \in Nat \ {0}
  BY ReaderAssumption, Units, UnitsOf
<1>5. owed \in Seq(BOOLEAN) /\ Head(owed) \in BOOLEAN /\ Tail(owed) \in Seq(BOOLEAN)
  BY HeadTailProperties DEF AnswerArrives, ReaderIInv, ReaderTypeOK
<1>6. /\ f.till = arrived + HeadLen + Unit * d
      /\ f.wire.ans = "getTime" /\ f.wire.code = "OK"
      /\ Len(f.wire.data) = d
      /\ f.wire \in Wires
  <2>1. [i \in 1 .. d |-> 0] \in Seq(Nat) /\ Len([i \in 1 .. d |-> 0]) = d
    BY <1>4
  <2> QED
    BY <1>2, <1>5, <2>1 DEF Frame, Wires
<1>7. f.till \in Nat /\ f.till > arrived /\ f \in Frames
  <2>1. f.till \in Nat /\ f.till > arrived
    BY ONLY <1>2, <1>4, <1>6
  <2>2. f.till \in Nat \ {0}
    BY <1>2, <2>1
  <2>3. f = [till |-> f.till, wire |-> f.wire]
    BY DEF Frame
  <2> HIDE DEF f
  <2> QED
    BY <1>6, <2>1, <2>2, <2>3 DEF Frames
<1>8. /\ arrived' \in Nat /\ arrived < arrived' /\ arrived' <= f.till
  BY <1>2, <1>3, <1>7
<1> HIDE DEF f
<1>9. /\ stream' \in Seq(Frames) /\ Len(stream') = n + 1
      /\ \A i \in 1 .. n : stream'[i] = stream[i]
      /\ stream'[n + 1] = f
  <2>1. stream' = Append(stream, f)
    BY <1>3 DEF f
  <2> QED
    BY <1>1, <1>7, <2>1, AppendProperties
<1>10. /\ \A i \in 1 .. n : BeginIn(stream', i) = BeginIn(stream, i)
       /\ BeginIn(stream', n + 1) = arrived
  <2>1. \A i \in 1 .. n : i # 1 => i - 1 \in 1 .. n
    BY <1>1
  <2>2. CASE n = 0
    BY <1>1, <1>2, <2>2 DEF BeginIn, StreamBytes
  <2>3. CASE n # 0
    <3>1. n \in 1 .. n /\ n + 1 # 1 /\ n + 1 - 1 = n
      BY <1>1, <2>3
    <3> QED
      BY <1>1, <1>2, <1>9, <2>1, <2>3, <3>1 DEF BeginIn, StreamBytes
  <2> QED
    BY <2>2, <2>3
<1>11. 1 .. n + 1 = (1 .. n) \cup {n + 1}
  BY <1>1
<1>12. StreamInv'
  <2>1. \A i \in 1 .. n + 1 : BeginIn(stream', i) < stream'[i].till
    BY <1>1, <1>7, <1>9, <1>10, <1>11 DEF InStream
  <2>2. \A i, j \in 1 .. n + 1 : i < j => stream'[i].till < stream'[j].till
    <3> SUFFICES ASSUME NEW i \in 1 .. n + 1, NEW j \in 1 .. n + 1, i < j
                 PROVE  stream'[i].till < stream'[j].till
      OBVIOUS
    <3>1. i \in 1 .. n
      BY <1>1
    <3>2. CASE j \in 1 .. n
      BY <1>1, <1>9, <3>1, <3>2 DEF InStream
    <3>3. CASE j = n + 1
      <4>1. stream[i].till <= arrived
        <5>1. n \in 1 .. n /\ n # 0
          BY <1>1, <3>1
        <5>2. arrived = stream[n].till
          BY <1>1, <1>2, <5>1 DEF StreamBytes
        <5>3. CASE i = n
          BY <1>2, <5>2, <5>3
        <5>4. CASE i # n
          <6>1. i < n
            BY <1>1, <3>1, <5>4
          <6>2. stream[i].till < stream[n].till /\ stream[i].till \in Nat
            BY <1>1, <3>1, <5>1, <6>1, Tills DEF InStream
          <6> QED
            BY <1>2, <5>2, <6>2
        <5> QED
          BY <5>3, <5>4
      <4>2. stream[i].till \in Nat
        BY <1>1, <3>1, Tills
      <4> QED
        BY <1>2, <1>7, <1>9, <3>1, <3>3, <4>1, <4>2
    <3> QED
      BY <1>11, <3>2, <3>3
  <2>3. \A i \in 1 .. n + 1 : Sized(stream'[i], BeginIn(stream', i))
    <3>1. \A i \in 1 .. n : Sized(stream'[i], BeginIn(stream', i))
      BY <1>1, <1>9, <1>10 DEF InStream
    <3>2. f.till - arrived = HeadLen + Unit * Len(f.wire.data)
      BY ONLY <1>2, <1>4, <1>6
    <3>3. Sized(f, arrived)
      BY <1>6, <3>2 DEF Sized, IsFragment
    <3> QED
      BY <1>9, <1>10, <1>11, <3>1, <3>3
  <2>4. stream' # <<>>
    BY <1>1, <1>9, EmptySeq
  <2> QED
    BY <1>8, <1>9, <1>10, <2>1, <2>2, <2>3, <2>4 DEF StreamInv, InStream
<1>13. ReadInv'
  <2>1. got' = got /\ stage' = stage
    BY DEF AnswerArrives
  <2>2. got \in 0 .. arrived'
    BY <1>2, <1>8 DEF ReaderIInv, ReadInv
  <2>3. stream # <<>> => stream'[1] = stream[1] /\ stream' # <<>>
    BY <1>1, <1>9, EmptySeq
  <2> QED
    BY <2>1, <2>2, <2>3 DEF ReaderIInv, ReadInv
<1>14. ReaderTypeOK'
  <2>1. \A i \in 1 .. Len(stream') : stream'[i].till \in Nat \ {0}
    BY <1>12, Tills DEF StreamInv
  <2>2. got' \in 0 .. arrived'
    BY <1>13 DEF ReadInv
  <2> QED
    BY <1>5, <1>8, <2>1, <2>2 DEF ReaderIInv, ReaderTypeOK, AnswerArrives
<1> QED
  BY <1>12, <1>13, <1>14 DEF ReaderIInv

LEMMA BytesStep == ReaderIInv /\ BytesArrive => ReaderIInv'
<1> SUFFICES ASSUME ReaderIInv, BytesArrive PROVE ReaderIInv'
  OBVIOUS
<1>1. arrived \in Nat /\ got \in 0 .. arrived
  BY DEF ReaderIInv, ReaderTypeOK
<1>2. arrived' \in arrived + 1 .. StreamBytes
  BY DEF BytesArrive
<1>3. arrived' \in Nat /\ arrived < arrived' /\ arrived' <= StreamBytes
  <2>1. StreamBytes \in Int
    BY FrameOf, EmptySeq DEF ReaderIInv, StreamInv, InStream, StreamBytes
  <2> QED
    BY <1>1, <1>2, <2>1
<1>4. stream' = stream
  BY DEF BytesArrive
<1>5. StreamInv'
  <2>1. stream # <<>> => BeginIn(stream, Len(stream)) \in Int
    BY FrameOf, EmptySeq DEF ReaderIInv, StreamInv, InStream
  <2> QED
    BY <1>1, <1>3, <1>4, <2>1 DEF ReaderIInv, StreamInv, InStream, StreamBytes
<1>6. ReadInv'
  BY <1>1, <1>3, <1>4 DEF ReaderIInv, ReadInv, BytesArrive
<1>7. ReaderTypeOK'
  BY <1>1, <1>3, <1>4 DEF ReaderIInv, ReaderTypeOK, BytesArrive
<1> QED
  BY <1>5, <1>6, <1>7 DEF ReaderIInv

LEMMA DropStep == ReaderIInv /\ ConnectionDrops => ReaderIInv'
<1> SUFFICES ASSUME ReaderIInv, ConnectionDrops PROVE ReaderIInv'
  OBVIOUS
<1> USE DEF ReaderIInv, ConnectionDrops
<1>1. StreamInv' /\ ReadInv'
  BY DEF StreamInv, ReadInv
<1>2. <<>> \in Seq(BOOLEAN)
  BY EmptySeq
<1>3. ReaderTypeOK'
  BY <1>2, ReaderAssumption DEF ReaderTypeOK
<1> QED
  BY <1>1, <1>3

\* What a Read may come to, and what is known then.
GoesOn(k) ==
  /\ stage' \in {"head", "body"} /\ got' = k
  /\ UNCHANGED <<stream, arrived, result, total, late, faults, faulted>>
  /\ ReadInv'

EndsWithFrame(k) ==
  /\ Finish("frame", k, 0, 0)
  /\ ~IsFragment(stream[1]) /\ stream[1].till <= k /\ k <= Limit

EndsWithMagic(k) ==
  /\ Finish("magic", k, Left(k), 0)
  /\ IsFragment(stream[1]) /\ k >= HeadLen

EndsTooLarge(k) ==
  /\ Finish("large", k, Left(k), 0)
  /\ ~IsFragment(stream[1]) /\ k > Limit /\ got < stream[1].till

LEMMA LeftCases ==
  ASSUME stream # <<>>, Head(stream) = stream[1], stream[1].till \in Nat, NEW k \in Nat
  PROVE  /\ Left(k) \in {0, 1}
         /\ Left(k) = 0 <=> stream[1].till <= k
BY DEF Left

LEMMA ReadCases ==
  ASSUME ReaderIInv, ReadReturns
  PROVE  \E k \in 1 .. arrived :
           /\ got < k /\ k <= got + ReadBuf
           /\ GoesOn(k) \/ EndsWithFrame(k) \/ EndsWithMagic(k) \/ EndsTooLarge(k)
<1> DEFINE k == Min({got + ReadBuf, arrived})
<1>1. got < arrived
  BY DEF ReadReturns
<1>2. /\ k \in Nat /\ got < k /\ k <= arrived /\ k <= got + ReadBuf
      /\ got \in Nat /\ arrived \in Nat
      /\ stream # <<>> /\ Head(stream) = stream[1] /\ stream[1].till \in Nat
  BY <1>1, ReadBytes
<1>3. /\ stage \in {"head", "body"}
      /\ IF stage = "head" THEN InHead(k) ELSE InBody(k)
      /\ stage' # "idle" => UNCHANGED <<stream, arrived, result, total, late, faults, faulted>>
  BY DEF ReadReturns, ReaderIInv, ReaderTypeOK
<1> HIDE DEF k
<1>4. k \in 1 .. arrived
  BY <1>2
<1>5. Left(k) \in {0, 1} /\ (Left(k) = 0 <=> stream[1].till <= k)
  BY <1>2, LeftCases
<1>6. k \in 0 .. arrived
  BY <1>2
<1>7. CASE stage = "head"
  <2>1. InHead(k)
    BY <1>3, <1>7
  <2>2. got < HeadLen /\ HeadLen \in Nat /\ ReadBuf \in Nat /\ Limit \in Nat
        /\ HeadLen + ReadBuf <= Limit
    BY <1>7, Units, ReaderAssumption DEF ReaderIInv, ReadInv
  <2>3. k <= Limit
    BY ONLY <1>2, <2>2
  <2>4. CASE k < HeadLen
    <3>0. ~(k >= HeadLen)
      BY ONLY <1>2, <2>2, <2>4
    <3>1. stage' = "head" /\ got' = k
      BY <2>1, <2>4, <3>0 DEF InHead
    <3>2. UNCHANGED <<stream, arrived, result, total, late, faults, faulted>>
      BY <1>3, <3>1
    <3>3. ReadInv'
      BY <1>6, <2>4, <3>1, <3>2 DEF ReadInv
    <3> QED
      BY <1>2, <1>4, <3>1, <3>2, <3>3 DEF GoesOn
  <2>5. CASE k >= HeadLen /\ IsFragment(stream[1])
    <3>1. ~(k < HeadLen)
      BY <1>2, <2>2, <2>5
    <3>2. Finish("magic", k, Left(k), 0)
      BY <1>2, <2>1, <2>5, <3>1 DEF InHead
    <3> QED
      BY <1>2, <1>4, <2>5, <3>2 DEF EndsWithMagic
  <2>6. CASE k >= HeadLen /\ ~IsFragment(stream[1])
    <3>1. ~(k < HeadLen)
      BY <1>2, <2>2, <2>6
    <3>2. Framed(k)
      BY <1>2, <2>1, <2>6, <3>1 DEF InHead
    <3>3. CASE Left(k) = 0
      <4>1. Finish("frame", k, 0, 0)
        BY <3>2, <3>3 DEF Framed
      <4> QED
        BY <1>2, <1>4, <1>5, <2>3, <2>6, <3>3, <4>1 DEF EndsWithFrame
    <3>4. CASE Left(k) # 0
      <4>1. stage' = "body" /\ got' = k
        BY <3>2, <3>4 DEF Framed
      <4>2. UNCHANGED <<stream, arrived, result, total, late, faults, faulted>>
        BY <1>3, <4>1
      <4>3. k < stream[1].till
        BY <1>2, <1>5, <3>4
      <4>4. ReadInv'
        BY <1>2, <1>6, <2>6, <4>1, <4>2, <4>3 DEF ReadInv, IsFragment
      <4> QED
        BY <1>2, <1>4, <4>1, <4>2, <4>4 DEF GoesOn
    <3> QED
      BY <3>3, <3>4
  <2> QED
    BY <1>2, <2>2, <2>4, <2>5, <2>6
<1>8. CASE stage # "head"
  <2>1. InBody(k) /\ stage = "body"
    BY <1>3, <1>8
  <2>2. ~IsFragment(stream[1]) /\ got < stream[1].till
    BY <2>1 DEF ReaderIInv, ReadInv
  <2>3. CASE k > Limit
    <3>1. Finish("large", k, Left(k), 0)
      BY <2>1, <2>3 DEF InBody, TooLarge
    <3> QED
      BY <1>2, <1>4, <2>2, <2>3, <3>1 DEF EndsTooLarge
  <2>4. CASE ~(k > Limit)
    <3>1. Framed(k) /\ k <= Limit
      BY <1>2, <2>1, <2>4, ReaderAssumption DEF InBody, TooLarge
    <3>2. CASE Left(k) = 0
      <4>1. Finish("frame", k, 0, 0)
        BY <3>1, <3>2 DEF Framed
      <4> QED
        BY <1>2, <1>4, <1>5, <2>2, <3>1, <3>2, <4>1 DEF EndsWithFrame
    <3>3. CASE Left(k) # 0
      <4>1. stage' = "body" /\ got' = k
        BY <3>1, <3>3 DEF Framed
      <4>2. UNCHANGED <<stream, arrived, result, total, late, faults, faulted>>
        BY <1>3, <4>1
      <4>3. k < stream[1].till
        BY <1>2, <1>5, <3>3
      <4>4. ReadInv'
        BY <1>2, <1>6, <2>2, <4>1, <4>2, <4>3 DEF ReadInv, IsFragment
      <4> QED
        BY <1>2, <1>4, <4>1, <4>2, <4>4 DEF GoesOn
    <3> QED
      BY <3>2, <3>3
  <2> QED
    BY <2>3, <2>4
<1> QED
  BY <1>7, <1>8

LEMMA ReadStep == ReaderIInv /\ ReadReturns => ReaderIInv'
<1> SUFFICES ASSUME ReaderIInv, ReadReturns PROVE ReaderIInv'
  OBVIOUS
<1>1. PICK k \in 1 .. arrived :
        /\ got < k
        /\ GoesOn(k) \/ EndsWithFrame(k) \/ EndsWithMagic(k) \/ EndsTooLarge(k)
  BY ReadCases
<1>2. UNCHANGED <<conn, owed, writes>>
  BY DEF ReadReturns
<1>3. got < arrived /\ arrived \in Nat /\ got \in Nat
  BY DEF ReadReturns, ReaderIInv, ReaderTypeOK
<1>4. /\ stream # <<>> /\ Head(stream) = stream[1] /\ stream[1].till \in Nat
  BY <1>3, ReadBytes
<1>5. Left(k) \in {0, 1} /\ (Left(k) = 0 <=> stream[1].till <= k)
  BY <1>4, LeftCases
<1>6. k \in 0 .. arrived
  BY <1>3
<1>7. CASE GoesOn(k)
  <2>1. StreamInv'
    BY <1>7 DEF GoesOn, ReaderIInv, StreamInv
  <2>2. ReaderTypeOK'
    BY <1>2, <1>7 DEF GoesOn, ReaderIInv, ReaderTypeOK, ReadInv
  <2> QED
    BY <1>7, <2>1, <2>2 DEF GoesOn, ReaderIInv
<1>8. CASE EndsWithFrame(k)
  <2>1. Finish("frame", k, 0, 0) /\ ~(k < stream[1].till)
    BY <1>3, <1>4, <1>8 DEF EndsWithFrame
  <2>2. "frame" \in Results
    BY DEF Results
  <2> QED
    BY <1>2, <1>6, <2>1, <2>2, FinishLeaves
<1>9. CASE EndsWithMagic(k)
  <2>1. Finish("magic", k, Left(k), 0) /\ k >= HeadLen
    BY <1>9 DEF EndsWithMagic
  <2>2. "magic" \in Results
    BY DEF Results
  <2> QED
    BY <1>2, <1>5, <1>6, <2>1, <2>2, FinishLeaves
<1>10. CASE EndsTooLarge(k)
  <2>1. Finish("large", k, Left(k), 0) /\ ~IsFragment(stream[1])
    BY <1>10 DEF EndsTooLarge
  <2>2. "large" \in Results
    BY DEF Results
  <2> QED
    BY <1>2, <1>5, <1>6, <2>1, <2>2, FinishLeaves
<1> QED
  BY <1>1, <1>7, <1>8, <1>9, <1>10

\* A deadline passes on a frame that was not read to its end, or on nothing to
\* be read.
LEMMA DeadlineCases ==
  ASSUME ReaderIInv, DeadlinePasses
  PROVE  \/ /\ stream # <<>> /\ got < stream[1].till
            /\ Finish("late", got, 1, 1)
         \/ /\ stream # <<>> /\ stream[1].till <= got /\ IsFragment(stream[1])
            /\ Finish("deadline", got, 0, 0)
         \/ /\ stream = <<>> /\ owed # <<>> /\ got = 0
            /\ Finish("deadline", got, 1, 1)
         \/ /\ stream = <<>> /\ owed = <<>> /\ got = 0
            /\ Finish("deadline", got, 0, 0)
<1>1. got \in Nat /\ arrived \in Nat /\ got = arrived
      /\ stage \in {"head", "body"}
  BY DEF DeadlinePasses, DeadlineStages, ReaderIInv, ReaderTypeOK
<1> DEFINE leaves == IF stream = <<>> /\ owed # <<>> THEN 1 ELSE Left(got)
<1>2. Finish(IF Left(got) = 1 THEN "late" ELSE "deadline", got, leaves, leaves)
  BY DEF DeadlinePasses
<1>3. CASE stream = <<>>
  <2>1. Left(got) = 0
    BY <1>3 DEF Left
  <2>2. got = 0
    BY <1>1, <1>3 DEF ReaderIInv, StreamInv, InStream
  <2> QED
    BY <1>2, <1>3, <2>1, <2>2
<1>4. CASE stream # <<>>
  <2>1. Head(stream) = stream[1] /\ 1 \in 1 .. Len(stream) /\ Len(stream) \in Nat
    BY <1>4, EmptySeq DEF ReaderIInv, StreamInv, InStream
  <2>2. stream[1].till \in Nat /\ Sized(stream[1], Begin(1)) /\ stream[1].wire \in Wires
    BY <2>1, FrameOf DEF ReaderIInv
  <2>3. Left(got) \in {0, 1} /\ (Left(got) = 0 <=> stream[1].till <= got)
    BY <1>1, <1>4, <2>1, <2>2, LeftCases
  <2>4. CASE Left(got) = 1
    <3>1. got < stream[1].till
      BY <1>1, <2>2, <2>3, <2>4
    <3> QED
      BY <1>2, <1>4, <2>4, <3>1
  <2>5. CASE Left(got) = 0
    <3>1. IsFragment(stream[1])
      <4>1. stage # "body"
        BY <1>1, <2>2, <2>3, <2>5 DEF ReaderIInv, ReadInv
      <4>2. got < HeadLen
        BY <1>1, <4>1 DEF ReaderIInv, ReadInv
      <4>3. HeadLen \in Nat /\ Len(stream[1].wire.data) \in Nat
            /\ Unit * Len(stream[1].wire.data) \in Nat
        <5>1. Len(stream[1].wire.data) \in Nat
          BY <2>2 DEF Wires
        <5>2. HeadLen \in Nat
          BY Units
        <5> QED
          BY <5>1, <5>2, UnitsOf
      <4>4. SUFFICES ASSUME ~IsFragment(stream[1]) PROVE FALSE
        OBVIOUS
      <4>5. stream[1].till - 0 = HeadLen + Unit * Len(stream[1].wire.data)
        BY <2>2, <4>4 DEF Sized, Begin
      <4>6. stream[1].till <= got
        BY <2>3, <2>5
      <4> QED
        BY ONLY <1>1, <2>2, <4>2, <4>3, <4>5, <4>6
    <3> QED
      BY <1>2, <1>4, <2>3, <2>5, <3>1
  <2> QED
    BY <2>3, <2>4, <2>5
<1> QED
  BY <1>3, <1>4

LEMMA DeadlineStep == ReaderIInv /\ DeadlinePasses => ReaderIInv'
<1> SUFFICES ASSUME ReaderIInv, DeadlinePasses PROVE ReaderIInv'
  OBVIOUS
<1>1. UNCHANGED <<conn, owed, writes>>
  BY DEF DeadlinePasses
<1>2. got \in 0 .. arrived /\ got \in Nat
  BY DEF ReaderIInv, ReaderTypeOK
<1>3. "late" \in Results /\ "deadline" \in Results
  BY DEF Results
<1>4. stream # <<>> => stream[1].till \in Nat
  <2>1. stream # <<>> => 1 \in 1 .. Len(stream)
    BY EmptySeq DEF ReaderIInv, StreamInv, InStream
  <2> QED
    BY <2>1, FrameOf DEF ReaderIInv
<1>5. CASE Finish("late", got, 1, 1)
  BY <1>1, <1>2, <1>3, <1>5, FinishLeaves
<1>6. CASE Finish("deadline", got, 0, 0) /\ (stream # <<>> => stream[1].till <= got)
  <2>1. stream # <<>> => ~(got < stream[1].till)
    BY <1>2, <1>4, <1>6
  <2> QED
    BY <1>1, <1>2, <1>3, <1>6, <2>1, FinishLeaves
<1>7. CASE Finish("deadline", got, 1, 1) /\ stream = <<>>
  BY <1>1, <1>2, <1>3, <1>7, FinishLeaves
<1> QED
  BY <1>5, <1>6, <1>7, DeadlineCases

LEMMA ErrorStep == ReaderIInv /\ ConnectionError => ReaderIInv'
<1> SUFFICES ASSUME ReaderIInv, ConnectionError PROVE ReaderIInv'
  OBVIOUS
<1>1. UNCHANGED <<conn, owed, writes>> /\ Finish("error", got, 0, 0)
  BY DEF ConnectionError
<1>2. got \in 0 .. arrived /\ "error" \in Results
  BY DEF ReaderIInv, ReaderTypeOK, Results
<1> QED
  BY <1>1, <1>2, FinishLeaves

LEMMA ReaderInductive == ReaderIInv /\ [ReaderNext]_readerVars => ReaderIInv'
<1> SUFFICES ASSUME ReaderIInv, [ReaderNext]_readerVars PROVE ReaderIInv'
  OBVIOUS
<1>1. CASE UNCHANGED readerVars
  BY <1>1 DEF readerVars, ReaderIInv, ReaderTypeOK, StreamInv, ReadInv
<1> QED
  BY <1>1, WriteStep, ReadStep, DeadlineStep, ErrorStep, AnswerStep, BytesStep,
     DropStep DEF ReaderNext, Reader, Finished

\* The reader keeps its types: it has never got more than what has arrived.
THEOREM ReaderTypeCorrect == ReaderSpec => []ReaderTypeOK
<1>1. ReaderInit => ReaderIInv
  BY ReaderInitial
<1>2. ReaderIInv /\ [ReaderNext]_readerVars => ReaderIInv'
  BY ReaderInductive
<1>3. ReaderIInv => ReaderTypeOK
  BY DEF ReaderIInv
<1> QED
  BY <1>1, <1>2, <1>3, PTL DEF ReaderSpec

\* For every buffer and limit and any segments: a frame is refused only if it is
\* longer than the limit less one buffer, and none above the limit comes through.
THEOREM HonestLimit == ReaderSpec => []LimitHonest
<1>1. ReaderInit => ReaderIInv /\ LimitHonest
  BY ReaderInitial
<1>2. ReaderIInv /\ LimitHonest /\ [ReaderNext]_readerVars => (ReaderIInv /\ LimitHonest)'
  <2> SUFFICES ASSUME ReaderIInv, LimitHonest, [ReaderNext]_readerVars PROVE LimitHonest'
    BY ReaderInductive
  <2>1. CASE UNCHANGED <<result, total>>
    BY <2>1 DEF LimitHonest
  <2>2. CASE ReadReturns
    <3>1. PICK k \in 1 .. arrived :
            /\ got < k /\ k <= got + ReadBuf
            /\ GoesOn(k) \/ EndsWithFrame(k) \/ EndsWithMagic(k) \/ EndsTooLarge(k)
      BY <2>2, ReadCases
    <3>2. /\ got \in Nat /\ arrived \in Nat /\ stream # <<>> /\ Head(stream) = stream[1]
          /\ stream[1].till \in Nat
      BY <2>2, ReadBytes DEF ReadReturns
    <3>3. k \in Nat /\ Limit \in Nat /\ ReadBuf \in Nat
      BY <3>2, ReaderAssumption
    <3>4. CASE GoesOn(k)
      BY <2>1, <3>4 DEF GoesOn
    <3>5. CASE EndsWithFrame(k)
      <4>1. result' = "frame" /\ total' = stream[1].till
        BY <3>2, <3>5 DEF EndsWithFrame, Finish
      <4>2. stream[1].till <= Limit
        BY <3>2, <3>3, <3>5 DEF EndsWithFrame
      <4> QED
        BY <4>1, <4>2 DEF LimitHonest
    <3>6. CASE EndsWithMagic(k)
      BY <3>6 DEF EndsWithMagic, Finish, LimitHonest
    <3>7. CASE EndsTooLarge(k)
      <4>1. result' = "large" /\ total' = stream[1].till
        BY <3>2, <3>7 DEF EndsTooLarge, Finish
      <4>2. k > Limit /\ got < stream[1].till
        BY <3>7 DEF EndsTooLarge
      <4>3. stream[1].till + ReadBuf > Limit + 1
        BY ONLY <3>1, <3>2, <3>3, <4>2
      <4> QED
        BY <4>1, <4>3 DEF LimitHonest
    <3> QED
      BY <3>1, <3>4, <3>5, <3>6, <3>7
  <2>3. CASE DeadlinePasses
    <3>1. result' \in {"late", "deadline"}
      BY <2>3 DEF DeadlinePasses, Finish
    <3> QED
      BY <3>1 DEF LimitHonest
  <2>4. CASE ConnectionError
    BY <2>4 DEF ConnectionError, Finish, LimitHonest
  <2> QED
    BY <2>1, <2>2, <2>3, <2>4
       DEF ReaderNext, Reader, Write, AnswerArrives, BytesArrive, ConnectionDrops,
           Finished, readerVars
<1> QED
  BY <1>1, <1>2, PTL DEF ReaderSpec

-----------------------------------------------------------------------------
(* The steps are those of ZKWire *)

WireReplies(frames) == [i \in 1 .. Len(frames) |-> frames[i].wire]

WireRequests(commands) ==
  [i \in 1 .. Len(commands) |->
     [cmd |-> "getTime", start |-> 0, n |-> 0, id |-> 0, fresh |-> commands[i]]]

LEMMA WiresOf ==
  ASSUME NEW frames \in Seq(Frames)
  PROVE  /\ WireReplies(frames) \in Seq(Wires)
         /\ Len(WireReplies(frames)) = Len(frames) /\ Len(frames) \in Nat
         /\ \A i \in 1 .. Len(frames) : WireReplies(frames)[i] = frames[i].wire
         /\ WireReplies(frames) = <<>> <=> frames = <<>>
<1>1. \A i \in 1 .. Len(frames) : frames[i].wire \in Wires
  <2>1. \A i \in 1 .. Len(frames) : frames[i] \in Frames
    BY ElementOfSeq
  <2> QED
    BY <2>1 DEF Frames
<1>2. /\ WireReplies(frames) \in Seq(Wires)
      /\ Len(WireReplies(frames)) = Len(frames) /\ Len(frames) \in Nat
  BY <1>1 DEF WireReplies
<1> QED
  BY <1>2, EmptySeq DEF WireReplies

\* A sequence that ends as w does.
LEMMA Spliced ==
  ASSUME NEW S, NEW u \in Seq(S), NEW w \in Seq(S), NEW x \in S,
         NEW i \in 1 .. Len(w), Len(u) = Len(w) - i + 1, u[1] = x,
         \A j \in 2 .. Len(u) : u[j] = w[i + j - 1]
  PROVE  u = <<x>> \o SubSeq(w, i + 1, Len(w))
<1> DEFINE t == SubSeq(w, i + 1, Len(w))
<1>1. Len(w) \in Nat /\ i \in Int /\ i <= Len(w) /\ i >= 1
  OBVIOUS
<1>2. /\ t \in Seq(S)
      /\ Len(t) = IF i + 1 <= Len(w) THEN Len(w) - (i + 1) + 1 ELSE 0
      /\ \A j \in 1 .. Len(w) - (i + 1) + 1 : t[j] = w[i + 1 + j - 1]
  <2>1. \A j \in i + 1 .. Len(w) : w[j] \in S
    BY <1>1, ElementOfSeq
  <2>2. i + 1 \in Int /\ Len(w) \in Int
    BY <1>1
  <2> QED
    BY <2>1, <2>2, SubSeqProperties
<1>3. Len(t) = Len(w) - i
  BY <1>1, <1>2
<1>4. <<x>> \in Seq(S) /\ Len(<<x>>) = 1 /\ <<x>>[1] = x
  OBVIOUS
<1> HIDE DEF t
<1>5. /\ <<x>> \o t \in Seq(S)
      /\ Len(<<x>> \o t) = 1 + Len(t)
      /\ \A j \in 1 .. 1 + Len(t) : (<<x>> \o t)[j] = IF j <= 1 THEN <<x>>[j] ELSE t[j - 1]
  BY <1>2, <1>4, ConcatProperties
<1>6. \A j \in 1 .. Len(u) : u[j] = (<<x>> \o t)[j]
  <2> SUFFICES ASSUME NEW j \in 1 .. Len(u) PROVE u[j] = (<<x>> \o t)[j]
    OBVIOUS
  <2>1. j \in 1 .. 1 + Len(t)
    BY <1>1, <1>3
  <2>2. CASE j = 1
    BY <1>4, <1>5, <2>1, <2>2
  <2>3. CASE j # 1
    <3>1. j \in 2 .. Len(u) /\ ~(j <= 1) /\ j - 1 \in 1 .. Len(w) - (i + 1) + 1
          /\ i + 1 + (j - 1) - 1 = i + j - 1
      BY <1>1, <2>3
    <3> QED
      BY <1>2, <1>5, <2>1, <3>1
  <2> QED
    BY <2>2, <2>3
<1>7. Len(u) = Len(<<x>> \o t)
  BY <1>1, <1>3, <1>5
<1> QED
  BY <1>5, <1>6, <1>7, SeqEqual DEF t

\* The rest from frame i on, as ZKWire sees it.
LEMMA RestFromWire ==
  ASSUME StreamInv, NEW i \in 1 .. Len(stream), NEW k \in Nat, NEW met \in BOOLEAN,
         Begin(i) <= k, k < stream[i].till,
         met /\ i = 1 /\ k # 0 /\ IsFragment(stream[1]) => k >= HeadLen
  PROVE  WireReplies(RestFrom(i, k, met)) =
           <<IF k # Begin(i) THEN Cut(stream[i], met /\ i = 1) ELSE stream[i].wire>>
             \o SubSeq(WireReplies(stream), i + 1, Len(stream))
<1> DEFINE r == RestFrom(i, k, met)
           w == WireReplies(stream)
           u == WireReplies(r)
           x == IF k # Begin(i) THEN Cut(stream[i], met /\ i = 1) ELSE stream[i].wire
<1>1. /\ r \in Seq(Frames) /\ Len(r) = Len(stream) - i + 1 /\ Len(r) \in Nat \ {0}
      /\ r[1].wire = x
      /\ \A j \in 2 .. Len(r) : r[j].wire = stream[i + j - 1].wire
  <2> HIDE DEF r, x
  <2>1. RestFrom(i, k, met) = r /\
        (IF k # Begin(i) THEN Cut(stream[i], met /\ i = 1) ELSE stream[i].wire) = x
    BY DEF r, x
  <2>2. LET q == RestFrom(i, k, met) IN
        /\ q \in Seq(Frames) /\ Len(q) = Len(stream) - i + 1 /\ Len(q) \in Nat \ {0}
        /\ q[1].wire = IF k # Begin(i) THEN Cut(stream[i], met /\ i = 1)
                                        ELSE stream[i].wire
        /\ \A j \in 2 .. Len(q) : q[j].wire = stream[i + j - 1].wire
    BY RestElements
  <2> QED
    BY <2>1, <2>2
<1>2. stream \in Seq(Frames) /\ Len(stream) \in Nat
  BY DEF StreamInv, InStream
<1> HIDE DEF r, x
<1>3. /\ w \in Seq(Wires) /\ Len(w) = Len(stream)
      /\ \A j \in 1 .. Len(stream) : w[j] = stream[j].wire
  BY <1>2, WiresOf
<1>4. /\ u \in Seq(Wires) /\ Len(u) = Len(r)
      /\ \A j \in 1 .. Len(r) : u[j] = r[j].wire
  BY <1>1, WiresOf
<1> HIDE DEF u, w
<1>5. u[1] = x /\ 1 \in 1 .. Len(u)
  BY <1>1, <1>4
<1>6. x \in Wires
  BY <1>4, <1>5, ElementOfSeq
<1>7. \A j \in 2 .. Len(u) : u[j] = w[i + j - 1]
  <2> SUFFICES ASSUME NEW j \in 2 .. Len(u) PROVE u[j] = w[i + j - 1]
    OBVIOUS
  <2>1. j \in 1 .. Len(r) /\ j \in 2 .. Len(r) /\ i + j - 1 \in 1 .. Len(stream)
    BY <1>1, <1>2, <1>4
  <2> QED
    BY <1>1, <1>3, <1>4, <2>1
<1>8. u = <<x>> \o SubSeq(w, i + 1, Len(w))
  <2>1. i \in 1 .. Len(w) /\ Len(u) = Len(w) - i + 1
    BY <1>1, <1>3, <1>4
  <2>2. u \in Seq(Wires) /\ w \in Seq(Wires)
    BY <1>3, <1>4
  <2> QED
    BY ONLY <1>5, <1>6, <1>7, <2>1, <2>2, Spliced
<1> QED
  BY <1>3, <1>8 DEF u, w, r, x

\* A read that stops in the first frame leaves what is left of it, and the others.
LEMMA RestOfFirst ==
  ASSUME StreamInv, stream # <<>>, NEW k \in Nat, k < stream[1].till, NEW met \in BOOLEAN,
         met /\ k # 0 /\ IsFragment(stream[1]) => k >= HeadLen
  PROVE  WireReplies(Rest(k, met)) =
           <<IF k # 0 THEN Cut(stream[1], met) ELSE stream[1].wire>>
             \o Tail(WireReplies(stream))
<1>1. stream \in Seq(Frames) /\ Len(stream) \in Nat \ {0} /\ 1 \in 1 .. Len(stream)
      /\ Len(stream) \in 1 .. Len(stream)
  BY EmptySeq DEF StreamInv, InStream
<1>2. Begin(1) = 0
  BY DEF Begin
<1>3. \A i \in 1 .. Len(stream) : i # 1 => k < Begin(i)
  <2> SUFFICES ASSUME NEW i \in 1 .. Len(stream), i # 1 PROVE k < Begin(i)
    OBVIOUS
  <2>1. i - 1 \in 1 .. Len(stream) /\ Begin(i) = stream[i - 1].till
    BY <1>1 DEF Begin
  <2>2. stream[1].till \in Nat /\ stream[i - 1].till \in Nat
    BY <1>1, <2>1, FrameOf
  <2>3. stream[1].till <= stream[i - 1].till
    <3>1. CASE i - 1 = 1
      BY <2>2, <3>1
    <3>2. CASE i - 1 # 1
      <4>1. 1 < i - 1
        BY <2>1, <3>2
      <4>2. stream[1].till < stream[i - 1].till
        BY <1>1, <2>1, <4>1 DEF StreamInv, InStream
      <4> QED
        BY <2>2, <4>2
    <3> QED
      BY <3>1, <3>2
  <2> QED
    BY ONLY k \in Nat, k < stream[1].till, <2>1, <2>2, <2>3
<1>4. k < StreamBytes
  <2>1. StreamBytes = stream[Len(stream)].till /\ stream[1].till \in Nat
        /\ stream[Len(stream)].till \in Nat
    BY <1>1, FrameOf
  <2>2. CASE Len(stream) = 1
    BY <2>1, <2>2
  <2>3. CASE Len(stream) # 1
    <3>1. 1 < Len(stream)
      <4>1. \A m \in Nat \ {0} : m # 1 => 1 < m
        OBVIOUS
      <4> QED
        BY <1>1, <2>3, <4>1, Zenon
    <3>2. stream[1].till < stream[Len(stream)].till
      BY <1>1, <3>1 DEF StreamInv, InStream
    <3> QED
      BY <2>1, <3>2
  <2> QED
    BY <2>2, <2>3
<1>5. PICK i \in 1 .. Len(stream) :
        /\ Begin(i) <= k /\ k < stream[i].till
        /\ Rest(k, met) = RestFrom(i, k, met)
  BY <1>4, StopsIn
<1>6. i = 1
  <2>1. Begin(i) \in Nat
    BY FrameOf
  <2> QED
    BY <1>3, <1>5, <2>1
<1>7. WireReplies(RestFrom(1, k, met)) =
        <<IF k # 0 THEN Cut(stream[1], met /\ 1 = 1) ELSE stream[1].wire>>
          \o SubSeq(WireReplies(stream), 1 + 1, Len(stream))
  BY <1>1, <1>2, <1>5, <1>6, RestFromWire
<1>8. (met /\ 1 = 1) = met
  OBVIOUS
<1>9. SubSeq(WireReplies(stream), 1 + 1, Len(stream)) = Tail(WireReplies(stream))
  BY <1>1, WiresOf, TailIsSubSeq
<1> QED
  BY <1>5, <1>6, <1>7, <1>8, <1>9

LEMMA Behind ==
  ASSUME NEW s
  PROVE  /\ <<>> \in Wire!AfterRead(s)
         /\ \A t \in Wire!Suffixes(s) :
              /\ t \in Wire!AfterRead(s)
              /\ t # <<>> => <<Wire!Fragment(Head(t))>> \o Tail(t) \in Wire!AfterRead(s)
BY DEF Wire!AfterRead, Wire!Suffixes

\* A read that takes the first frame leaves what ZKWire calls AfterRead.
LEMMA RestBehindFirst ==
  ASSUME StreamInv, stream # <<>>, NEW k \in 0 .. arrived, stream[1].till <= k,
         NEW met \in BOOLEAN
  PROVE  WireReplies(Rest(k, met)) \in Wire!AfterRead(Tail(WireReplies(stream)))
<1> DEFINE w == WireReplies(stream)
           n == Len(stream)
           s == Tail(w)
<1>1. stream \in Seq(Frames) /\ n \in Nat \ {0} /\ 1 \in 1 .. n
  BY EmptySeq DEF StreamInv, InStream
<1>2. w \in Seq(Wires) /\ Len(w) = n /\ w # <<>>
      /\ \A i \in 1 .. n : w[i] = stream[i].wire
  BY <1>1, WiresOf
<1>3. s \in Seq(Wires) /\ Len(s) = n - 1 /\ s = SubSeq(w, 2, n)
      /\ \A i \in 1 .. n - 1 : s[i] = w[i + 1]
  BY <1>1, <1>2, HeadTailProperties, TailIsSubSeq
<1>4. k <= StreamBytes /\ k \in Nat
  <2>1. arrived \in Nat /\ arrived <= StreamBytes
    BY DEF StreamInv, InStream, StreamBytes
  <2>2. StreamBytes \in Nat
    BY <1>1, FrameOf
  <2> QED
    BY ONLY k \in 0 .. arrived, <2>1, <2>2
<1>5. CASE k = StreamBytes
  <2>1. Rest(k, met) = <<>>
    BY <1>5 DEF Rest
  <2>2. WireReplies(<<>>) = <<>>
    BY WiresOf, EmptySeq
  <2> QED
    BY <2>1, <2>2, Behind
<1>6. CASE k # StreamBytes
  <2>0. k < StreamBytes
    <3>1. StreamBytes \in Nat
      BY <1>1, FrameOf
    <3> QED
      BY <1>4, <1>6, <3>1
  <2>1. PICK i \in 1 .. Len(stream) :
          /\ Begin(i) <= k /\ k < stream[i].till
          /\ Rest(k, met) = RestFrom(i, k, met)
    BY <1>4, <2>0, StopsIn
  <2>2. i # 1
    <3>1. stream[1].till \in Nat
      BY <1>1, FrameOf
    <3> QED
      BY <1>4, <2>1, <3>1
  <2> DEFINE t == SubSeq(s, i - 1, Len(s))
             x == IF k # Begin(i) THEN Cut(stream[i], FALSE) ELSE stream[i].wire
  <2>3. WireReplies(Rest(k, met)) = <<x>> \o SubSeq(w, i + 1, n)
    <3>1. WireReplies(RestFrom(i, k, met)) =
            <<IF k # Begin(i) THEN Cut(stream[i], met /\ i = 1) ELSE stream[i].wire>>
              \o SubSeq(w, i + 1, n)
      BY <1>4, <2>1, <2>2, RestFromWire
    <3>2. (met /\ i = 1) = FALSE
      BY <2>2
    <3> QED
      BY <2>1, <3>1, <3>2
  <2>4. /\ i \in 1 .. Len(w) /\ n \in i .. Len(w) /\ i \in Int
        /\ i - 1 \in 1 .. n - 1 /\ n - 1 \in 1 .. n - 1
        /\ 2 \in 1 .. Len(w) /\ n \in 1 .. Len(w)
    BY <1>1, <1>2, <2>2
  <2>5. t \in Wire!Suffixes(s)
    BY <1>3, <2>4 DEF Wire!Suffixes
  <2>6. t = SubSeq(w, i, n)
    <3> DEFINE m == i - 1
               l == n - 1
    <3>1. /\ m \in 1 .. n - 2 + 1 /\ l \in 1 .. n - 2 + 1
          /\ 2 + m - 1 = i /\ 2 + l - 1 = n
      BY <1>1, <2>4
    <3>2. t = SubSeq(SubSeq(w, 2, n), m, l)
      <4>1. s = SubSeq(w, 2, n) /\ Len(s) = l
        BY <1>3
      <4>2. t = SubSeq(s, m, Len(s))
        OBVIOUS
      <4> HIDE DEF t, m, l, s
      <4> QED
        BY <4>1, <4>2
    <3> HIDE DEF m, l, t
    <3>3. SubSeq(SubSeq(w, 2, n), m, l) = SubSeq(w, 2 + m - 1, 2 + l - 1)
      <4>1. w \in Seq(Wires) /\ 2 \in 1 .. Len(w) /\ n \in 1 .. Len(w)
            /\ m \in 1 .. n - 2 + 1 /\ l \in 1 .. n - 2 + 1
        BY <1>2, <2>4, <3>1
      <4> HIDE DEF w, n, s, x
      <4> QED
        BY <4>1, SubSeqOfSubSeq
    <3> QED
      BY <3>1, <3>2, <3>3
  <2> HIDE DEF t, s
  <2>7. SubSeq(w, i, n) = <<w[i]>> \o SubSeq(w, i + 1, n)
    BY <1>2, <2>4, SubSeqRecursiveFirst
  <2>8. Head(t) = w[i] /\ Tail(t) = SubSeq(w, i + 1, n)
    BY <1>2, <2>4, <2>6, HeadTailOfSubSeq
  <2>9. t # <<>>
    <3>1. /\ \A j \in i .. n : w[j] \in Wires
          /\ i \in Int /\ n \in Int /\ i <= n
      BY <1>1, <1>2, <2>4, ElementOfSeq
    <3>2. Len(SubSeq(w, i, n)) = n - i + 1
      BY <3>1, SubSeqProperties
    <3>3. Len(SubSeq(w, i, n)) # 0
      BY <3>1, <3>2
    <3>4. Len(<<>>) = 0
      BY EmptySeq
    <3> QED
      BY <2>6, <3>3, <3>4, Zenon
  <2>10. CASE k = Begin(i)
    <3>1. x = w[i]
      BY <1>2, <2>10
    <3> QED
      BY <2>3, <2>5, <2>6, <2>7, <3>1, Behind DEF s
  <2>11. CASE k # Begin(i)
    <3>1. x = Wire!Fragment(Head(t))
      BY <1>2, <2>8, <2>11 DEF Cut, Wire!Fragment
    <3>2. WireReplies(Rest(k, met)) = <<Wire!Fragment(Head(t))>> \o Tail(t)
      BY <2>3, <2>8, <3>1
    <3> QED
      BY <2>5, <2>9, <3>2, Behind DEF s
  <2> QED
    BY <2>10, <2>11
<1> QED
  BY <1>5, <1>6

-----------------------------------------------------------------------------
(* Each step of the reader, the device and the network *)

LEMMA WireStutter ==
  ASSUME UNCHANGED <<conn, owed, stream, late, faults, faulted>>,
         (stage' # "idle") = (stage # "idle")
  PROVE  UNCHANGED Wire!wireVars
BY DEF Wire!wireVars

\* A read that ends, and the outcome that ZKWire has for it.
LEMMA ReturnsAs ==
  ASSUME NEW how, NEW k, NEW leaves, NEW cost,
         Finish(how, k, leaves, cost), UNCHANGED <<conn, owed>>, stage # "idle",
         NEW o \in Wire!ReadOutcomes,
         o.rest = WireReplies(stream'), o.late = leaves, o.cost = cost,
         o.ok <=> how = "frame", o.ok => o.id = 0
  PROVE  WireStep
<1>1. /\ stage' = "idle" /\ result' = how
      /\ late' = late + leaves /\ faults' = faults + cost
      /\ faulted' = IF cost > 0 THEN faulted \cup {"getTime"} ELSE faulted
      /\ UNCHANGED <<conn, owed>>
  BY DEF Finish
<1>2. 0 = IF o.ok THEN o.id ELSE 0
  OBVIOUS
<1>3. Wire!Return(o, "getTime")
  BY <1>1, <1>2 DEF Wire!Return, WireReplies
<1>4. o.ok <=> result' = "frame"
  BY <1>1
<1> QED
  BY <1>1, <1>3, <1>4 DEF WireStep

LEMMA FirstWire ==
  ASSUME StreamInv, stream # <<>>
  PROVE  /\ WireReplies(stream) # <<>> /\ Head(WireReplies(stream)) = stream[1].wire
         /\ stream[1].wire \in Wires /\ stream[1].till \in Nat
         /\ Wire!IsFragment(Head(WireReplies(stream))) <=> IsFragment(stream[1])
         /\ Sized(stream[1], 0)
<1>1. stream \in Seq(Frames) /\ 1 \in 1 .. Len(stream) /\ Begin(1) = 0
  BY EmptySeq DEF StreamInv, InStream, Begin
<1>2. WireReplies(stream) \in Seq(Wires) /\ WireReplies(stream) # <<>>
      /\ WireReplies(stream)[1] = stream[1].wire
  BY <1>1, WiresOf
<1>3. Head(WireReplies(stream)) = stream[1].wire
  BY <1>2
<1>4. stream[1].wire \in Wires /\ stream[1].till \in Nat /\ Sized(stream[1], 0)
  BY <1>1, FrameOf
<1> QED
  BY <1>2, <1>3, <1>4 DEF IsFragment, Wire!IsFragment

LEMMA FrameAsWire ==
  ASSUME StreamInv, stream # <<>>, stage # "idle", UNCHANGED <<conn, owed>>,
         NEW k \in 0 .. arrived, k \in Nat, EndsWithFrame(k)
  PROVE  WireStep
<1> DEFINE w == WireReplies(stream)
           o == Wire!Success(Head(w), WireReplies(stream'))
<1>1. Finish("frame", k, 0, 0) /\ ~IsFragment(stream[1]) /\ stream[1].till <= k
  BY DEF EndsWithFrame
<1>2. stream' = Rest(k, TRUE)
  BY <1>1 DEF Finish
<1>3. WireReplies(stream') \in Wire!AfterRead(Tail(w))
  BY <1>1, <1>2, RestBehindFirst
<1>4. w # <<>> /\ ~Wire!IsFragment(Head(w)) /\ Head(w).id = 0
  BY <1>1, FirstWire DEF Wires
<1>5. o \in Wire!ReadOutcomes
  BY <1>3, <1>4 DEF Wire!ReadOutcomes, Wire!FrameArrives, WireReplies
<1>6. o.rest = WireReplies(stream') /\ o.late = 0 /\ o.cost = 0 /\ o.ok /\ o.id = 0
  BY <1>4 DEF Wire!Success
<1> HIDE DEF o
<1> QED
  BY <1>1, <1>5, <1>6, ReturnsAs

LEMMA FailsAs ==
  ASSUME NEW how, how # "frame", NEW k, NEW leaves, NEW cost,
         Finish(how, k, leaves, cost), UNCHANGED <<conn, owed>>, stage # "idle",
         Wire!Failure(WireReplies(stream'), leaves, cost) \in Wire!ReadOutcomes
  PROVE  WireStep
<1> DEFINE o == Wire!Failure(WireReplies(stream'), leaves, cost)
<1>1. o.rest = WireReplies(stream') /\ o.late = leaves /\ o.cost = cost /\ ~o.ok
  BY DEF Wire!Failure
<1> HIDE DEF o
<1> QED
  BY <1>1, ReturnsAs DEF o

LEMMA MagicAsWire ==
  ASSUME StreamInv, stream # <<>>, Head(stream) = stream[1], stage # "idle",
         UNCHANGED <<conn, owed>>, NEW k \in 0 .. arrived, k \in Nat, EndsWithMagic(k)
  PROVE  WireStep
<1> DEFINE w == WireReplies(stream)
           f == stream[1].wire
<1>1. Finish("magic", k, Left(k), 0) /\ IsFragment(stream[1]) /\ k >= HeadLen
  BY DEF EndsWithMagic
<1>2. stream' = Rest(k, TRUE)
  BY <1>1 DEF Finish
<1>3. w # <<>> /\ Wire!IsFragment(Head(w)) /\ Head(w) = f /\ f \in Wires
      /\ stream[1].till \in Nat /\ Sized(stream[1], 0)
  BY <1>1, FirstWire
<1>4. Left(k) \in {0, 1} /\ (Left(k) = 0 <=> stream[1].till <= k)
  BY <1>3, LeftCases
<1>5. CASE Left(k) = 0
  <2>1. WireReplies(stream') \in Wire!AfterRead(Tail(w))
    BY <1>2, <1>4, <1>5, RestBehindFirst
  <2>2. Wire!Failure(WireReplies(stream'), 0, 0) \in Wire!ReadOutcomes
    BY <1>3, <2>1 DEF Wire!ReadOutcomes, Wire!BadMagic, WireReplies
  <2> QED
    BY <1>1, <1>5, <2>2, FailsAs
<1>6. CASE Left(k) = 1
  <2>1. k < stream[1].till /\ k # 0
    BY <1>1, <1>3, <1>4, <1>6, Units
  <2>2. WireReplies(stream') = <<Cut(stream[1], TRUE)>> \o Tail(w)
    BY <1>1, <1>2, <2>1, RestOfFirst
  <2>3. Cut(stream[1], TRUE) = [f EXCEPT !.data = SubSeq(@, 5, Len(@))]
    <3>1. f = [ans |-> "fragment", code |-> "none", size |-> 0, id |-> 0,
               data |-> f.data, fresh |-> FALSE]
      BY <1>1, <1>3 DEF Wires, Sized, IsFragment
    <3>2. Cut(stream[1], TRUE) =
            [ans |-> "fragment", code |-> "none", size |-> 0, id |-> 0,
             data |-> SubSeq(f.data, 5, Len(f.data)), fresh |-> FALSE]
      BY <1>1 DEF Cut
    <3> DEFINE e == SubSeq(f.data, 5, Len(f.data))
               x == [f EXCEPT !.data = e]
    <3>3. f.data \in Seq(Nat) /\ Len(f.data) \in Nat
      BY <1>3 DEF Wires
    <3>4. e \in Seq(Nat)
      <4> HIDE DEF f
      <4>1. \A i \in 5 .. Len(f.data) : f.data[i] \in Nat
        BY <3>3, ElementOfSeq
      <4> QED
        BY <3>3, <4>1, SubSeqProperties
    <3>5. [f EXCEPT !.data = SubSeq(@, 5, Len(@))] = x
      OBVIOUS
    <3>6. f.ans = "fragment" /\ f.code = "none" /\ f.size = 0 /\ f.id = 0 /\ f.fresh = FALSE
      BY <3>1
    <3> HIDE DEF f, e
    <3>7. x \in Wires /\ x.ans = f.ans /\ x.code = f.code /\ x.size = f.size
          /\ x.id = f.id /\ x.data = e /\ x.fresh = f.fresh
      BY <1>3, <3>4 DEF Wires
    <3> HIDE DEF x
    <3>8. x = [ans |-> x.ans, code |-> x.code, size |-> x.size, id |-> x.id,
               data |-> x.data, fresh |-> x.fresh]
      BY <3>7 DEF Wires
    <3> QED
      BY <3>2, <3>5, <3>6, <3>7, <3>8 DEF e
  <2>4. f.data # <<>>
    <3> SUFFICES ASSUME f.data = <<>> PROVE FALSE
      OBVIOUS
    <3>1. Len(f.data) = 0 /\ Unit * 0 = 0 /\ HeadLen \in Nat
      BY EmptySeq, Units
    <3>2. stream[1].till - 0 < HeadLen + Unit * Len(f.data)
      BY <1>1, <1>3 DEF Sized
    <3>3. stream[1].till - 0 < HeadLen + 0
      BY <3>1, <3>2
    <3>4. stream[1].till \in Nat /\ k >= HeadLen /\ k < stream[1].till
      BY <1>1, <1>3, <2>1
    <3> QED
      BY ONLY <3>1, <3>3, <3>4, k \in Nat
  <2>5. Wire!Failure(WireReplies(stream'), 1, 0) \in Wire!ReadOutcomes
    <3>1. WireReplies(stream') =
            <<[Head(w) EXCEPT !.data = SubSeq(@, 5, Len(@))]>> \o Tail(w)
      BY <1>3, <2>2, <2>3
    <3>2. Wire!Failure(WireReplies(stream'), 1, 0) \in Wire!BadMagic
      BY <1>3, <2>4, <3>1 DEF Wire!BadMagic, WireReplies
    <3> QED
      BY <3>2 DEF Wire!ReadOutcomes
  <2> QED
    BY <1>1, <1>6, <2>5, FailsAs
<1> QED
  BY <1>4, <1>5, <1>6

LEMMA DeadlineAsWire ==
  ASSUME ReaderIInv, DeadlinePasses
  PROVE  WireStep
<1> DEFINE w == WireReplies(stream)
<1>1. /\ conn = "up" /\ stage # "idle" /\ UNCHANGED <<conn, owed>> /\ got = arrived
      /\ got \in 0 .. arrived /\ got \in Nat /\ StreamInv
      /\ faults \in 0 .. MaxFaults /\ MaxFaults \in Nat
  BY ReaderAssumption DEF DeadlinePasses, DeadlineStages, ReaderIInv, ReaderTypeOK
<1>2. CASE stream # <<>> /\ got < stream[1].till /\ Finish("late", got, 1, 1)
  <2>1. stream' = Rest(got, FALSE) /\ faults + 1 <= MaxFaults
    BY <1>2 DEF Finish
  <2>2. WireReplies(stream') =
          <<IF got # 0 THEN Cut(stream[1], FALSE) ELSE stream[1].wire>> \o Tail(w)
    BY <1>1, <1>2, <2>1, RestOfFirst
  <2>3. /\ w # <<>> /\ Head(w) = stream[1].wire /\ stream[1].wire \in Wires
        /\ Sized(stream[1], 0)
    BY <1>1, <1>2, FirstWire
  <2>4. (IF got # 0 THEN Cut(stream[1], FALSE) ELSE stream[1].wire) = Wire!Fragment(Head(w))
    <3>1. CASE got # 0
      BY <2>3, <3>1 DEF Cut, Wire!Fragment
    <3>2. CASE got = 0
      <4>1. IsFragment(stream[1])
        <5>1. Len(stream) \in 1 .. Len(stream)
          BY <1>1, <1>2, EmptySeq DEF StreamInv, InStream
        <5>2. BeginIn(stream, Len(stream)) \in Nat
          BY <1>1, <5>1, FrameOf
        <5>3. ~(BeginIn(stream, Len(stream)) < arrived)
          BY <1>1, <3>2, <5>2
        <5> QED
          BY <1>1, <1>2, <5>3 DEF StreamInv, InStream
      <4> DEFINE f == stream[1].wire
      <4>2. f = [ans |-> "fragment", code |-> "none", data |-> f.data, size |-> 0,
                 id |-> 0, fresh |-> FALSE]
        BY <2>3, <4>1 DEF Wires, Sized, IsFragment
      <4> HIDE DEF f
      <4>3. f = Wire!Fragment(f)
        BY <4>2 DEF Wire!Fragment
      <4> QED
        BY <2>3, <3>2, <4>3 DEF f
    <3> QED
      BY <3>1, <3>2
  <2>5. faults < MaxFaults
    BY <1>1, <2>1
  <2>6. Wire!Failure(WireReplies(stream'), 1, 1) \in Wire!DeadlineInsideFrame
    BY <1>1, <2>2, <2>3, <2>4, <2>5 DEF Wire!DeadlineInsideFrame, WireReplies
  <2>7. Wire!Failure(WireReplies(stream'), 1, 1) \in Wire!ReadOutcomes
    BY <2>6 DEF Wire!ReadOutcomes
  <2> QED
    BY <1>1, <1>2, <2>7, FailsAs
<1>3. CASE /\ stream # <<>> /\ stream[1].till <= got /\ IsFragment(stream[1])
           /\ Finish("deadline", got, 0, 0)
  <2>1. stream' = Rest(got, TRUE)
    BY <1>3 DEF Finish
  <2>2. WireReplies(stream') \in Wire!AfterRead(Tail(w))
    BY <1>1, <1>3, <2>1, RestBehindFirst
  <2>3. w # <<>> /\ Wire!IsFragment(Head(w))
    BY <1>1, <1>3, FirstWire
  <2>4. Wire!Failure(WireReplies(stream'), 0, 0) \in Wire!ReadOutcomes
    BY <2>2, <2>3 DEF Wire!ReadOutcomes, Wire!BadMagic, WireReplies
  <2> QED
    BY <1>1, <1>3, <2>4, FailsAs
<1>4. ASSUME stream = <<>>, NEW l, NEW c, Finish("deadline", got, l, c), got = 0
      PROVE  WireReplies(stream') = <<>> /\ WireReplies(stream) = <<>>
  <2>1. stream' = <<>>
    BY <1>4 DEF Finish, Rest, StreamBytes
  <2> QED
    BY <1>4, <2>1, WiresOf, EmptySeq
<1>5. CASE stream = <<>> /\ owed # <<>> /\ got = 0 /\ Finish("deadline", got, 1, 1)
  <2>1. WireReplies(stream') = <<>> /\ WireReplies(stream) = <<>>
    BY <1>4, <1>5
  <2>2. faults < MaxFaults
    BY <1>1, <1>5 DEF Finish
  <2>3. WireRequests(owed) # <<>>
    <3>1. Len(owed) \in Nat /\ Len(owed) # 0
      BY <1>5, EmptySeq DEF ReaderIInv, ReaderTypeOK
    <3>2. Len(WireRequests(owed)) = Len(owed)
      BY <3>1 DEF WireRequests
    <3>3. Len(<<>>) = 0
      BY EmptySeq
    <3> QED
      BY <3>1, <3>2, <3>3, Zenon
  <2>4. Wire!Failure(WireReplies(stream'), 1, 1) \in Wire!DeadlineBeforeFrame
    BY <1>1, <2>1, <2>2, <2>3 DEF Wire!DeadlineBeforeFrame, WireReplies, WireRequests
  <2>5. Wire!Failure(WireReplies(stream'), 1, 1) \in Wire!ReadOutcomes
    BY <2>4 DEF Wire!ReadOutcomes
  <2> QED
    BY <1>1, <1>5, <2>5, FailsAs
<1>6. CASE stream = <<>> /\ owed = <<>> /\ got = 0 /\ Finish("deadline", got, 0, 0)
  <2>1. WireReplies(stream') = <<>> /\ WireReplies(stream) = <<>>
    BY <1>4, <1>6
  <2>2. WireRequests(owed) = <<>>
    BY <1>6, EmptySeq DEF WireRequests
  <2>3. Wire!Failure(WireReplies(stream'), 0, 0) \in Wire!DeadlineBeforeFrame
    BY <1>1, <2>1, <2>2 DEF Wire!DeadlineBeforeFrame, WireReplies, WireRequests
  <2>4. Wire!Failure(WireReplies(stream'), 0, 0) \in Wire!ReadOutcomes
    BY <2>3 DEF Wire!ReadOutcomes
  <2> QED
    BY <1>1, <1>6, <2>4, FailsAs
<1> QED
  BY <1>2, <1>3, <1>5, <1>6, DeadlineCases

LEMMA ErrorAsWire ==
  ASSUME ConnectionError
  PROVE  WireStep
<1>1. /\ conn = "broken" /\ stage # "idle" /\ UNCHANGED <<conn, owed>>
      /\ Finish("error", got, 0, 0)
  BY DEF ConnectionError
<1>2. WireReplies(stream') = <<>>
  <2>1. stream' = <<>>
    BY <1>1 DEF Finish
  <2> QED
    BY <2>1, WiresOf, EmptySeq
<1>3. Wire!Failure(WireReplies(stream'), 0, 0) \in Wire!ReadOutcomes
  BY <1>1, <1>2 DEF Wire!ReadOutcomes, Wire!ConnectionError
<1> QED
  BY <1>1, <1>3, FailsAs

LEMMA ReadAsWire ==
  ASSUME ReaderIInv, ReadReturns, result' # "large"
  PROVE  WireStep \/ UNCHANGED Wire!wireVars
<1>1. PICK k \in 1 .. arrived :
        GoesOn(k) \/ EndsWithFrame(k) \/ EndsWithMagic(k) \/ EndsTooLarge(k)
  BY ReadCases
<1>2. /\ stage # "idle" /\ UNCHANGED <<conn, owed>> /\ got < arrived
      /\ StreamInv /\ arrived \in Nat
  BY DEF ReadReturns, ReaderIInv, ReaderTypeOK
<1>3. stream # <<>> /\ Head(stream) = stream[1]
  BY <1>2, ReadBytes
<1>4. k \in 0 .. arrived /\ k \in Nat
  BY <1>2
<1>5. CASE GoesOn(k)
  <2>1. (stage' # "idle") = (stage # "idle")
    BY <1>2, <1>5 DEF GoesOn
  <2>2. UNCHANGED <<conn, owed, stream, late, faults, faulted>>
    BY <1>2, <1>5 DEF GoesOn
  <2> QED
    BY <2>1, <2>2, WireStutter
<1>6. CASE EndsWithFrame(k)
  BY <1>2, <1>3, <1>4, <1>6, FrameAsWire
<1>7. CASE EndsWithMagic(k)
  BY <1>2, <1>3, <1>4, <1>7, MagicAsWire
<1>8. CASE EndsTooLarge(k)
  BY <1>8 DEF EndsTooLarge, Finish
<1> QED
  BY <1>1, <1>5, <1>6, <1>7, <1>8

LEMMA RequestsOf ==
  ASSUME NEW commands \in Seq(BOOLEAN)
  PROVE  /\ Len(WireRequests(commands)) = Len(commands) /\ Len(commands) \in Nat
         /\ WireRequests(commands) \in
              Seq([cmd : {"getTime"}, start : {0}, n : {0}, id : {0}, fresh : BOOLEAN])
         /\ \A i \in 1 .. Len(commands) :
              WireRequests(commands)[i] =
                [cmd |-> "getTime", start |-> 0, n |-> 0, id |-> 0, fresh |-> commands[i]]
<1>1. \A i \in 1 .. Len(commands) : commands[i] \in BOOLEAN
  BY ElementOfSeq
<1> QED
  BY <1>1 DEF WireRequests

LEMMA WriteAsWire ==
  ASSUME ReaderIInv, Write
  PROVE  WireStep
<1> DEFINE R == [cmd : {"getTime"}, start : {0}, n : {0}, id : {0}, fresh : BOOLEAN]
           q(b) == [cmd |-> "getTime", start |-> 0, n |-> 0, id |-> 0, fresh |-> b]
<1>1. /\ stage = "idle" /\ stage' = "head"
      /\ UNCHANGED <<conn, late, faults, faulted>>
      /\ owed' = IF conn = "up" THEN Append([i \in 1 .. Len(owed) |-> FALSE], TRUE) ELSE owed
      /\ stream' = Superseded(stream)
  BY DEF Write
<1>2. owed \in Seq(BOOLEAN) /\ Len(owed) \in Nat
      /\ stream \in Seq(Frames) /\ Len(stream) \in Nat
  BY DEF ReaderIInv, ReaderTypeOK, StreamInv, InStream
<1>3. WireReplies(stream') = Wire!Superseded(WireReplies(stream))
  <2> DEFINE w == WireReplies(stream)
  <2>1. Len(stream') = Len(stream)
        /\ \A i \in 1 .. Len(stream) : stream'[i] = [stream[i] EXCEPT !.wire.fresh = FALSE]
    BY <1>1, <1>2 DEF Superseded
  <2>2. Len(w) = Len(stream) /\ \A i \in 1 .. Len(stream) : w[i] = stream[i].wire
    BY <1>2, WiresOf
  <2>3. \A i \in 1 .. Len(stream) : stream'[i].wire = [w[i] EXCEPT !.fresh = FALSE]
    <3> SUFFICES ASSUME NEW i \in 1 .. Len(stream)
                 PROVE  stream'[i].wire = [stream[i].wire EXCEPT !.fresh = FALSE]
      BY <2>2
    <3>1. stream[i] \in Frames /\ stream'[i] = [stream[i] EXCEPT !.wire.fresh = FALSE]
      BY <1>2, <2>1, ElementOfSeq
    <3>2. ASSUME NEW f \in Frames
          PROVE  [f EXCEPT !.wire.fresh = FALSE].wire = [f.wire EXCEPT !.fresh = FALSE]
      BY DEF Frames
    <3> QED
      BY <3>1, <3>2
  <2>4. WireReplies(stream') = [i \in 1 .. Len(stream) |-> stream'[i].wire]
    BY <2>1 DEF WireReplies
  <2>5. Wire!Superseded(w) = [i \in 1 .. Len(stream) |-> [w[i] EXCEPT !.fresh = FALSE]]
    BY <2>2 DEF Wire!Superseded
  <2> HIDE DEF w
  <2> QED
    BY <2>3, <2>4, <2>5 DEF w
<1>4. conn = "up" =>
        WireRequests(owed') = Append(Wire!Superseded(WireRequests(owed)), q(TRUE))
  <2> SUFFICES ASSUME conn = "up"
               PROVE  WireRequests(owed') = Append(Wire!Superseded(WireRequests(owed)), q(TRUE))
    OBVIOUS
  <2> DEFINE old == [i \in 1 .. Len(owed) |-> FALSE]
             u == WireRequests(owed')
             v == Wire!Superseded(WireRequests(owed))
  <2>1. old \in Seq(BOOLEAN) /\ Len(old) = Len(owed)
    BY <1>2
  <2>2. owed' = Append(old, TRUE)
    BY <1>1
  <2>3. /\ owed' \in Seq(BOOLEAN) /\ Len(owed') = Len(owed) + 1
        /\ \A i \in 1 .. Len(owed) : owed'[i] = FALSE
        /\ owed'[Len(owed) + 1] = TRUE
    BY <1>2, <2>1, <2>2, AppendProperties
  <2>4. /\ u \in Seq(R) /\ Len(u) = Len(owed) + 1
        /\ \A i \in 1 .. Len(owed) + 1 : u[i] = q(owed'[i])
    BY <2>3, RequestsOf
  <2>5. /\ v \in Seq(R) /\ Len(v) = Len(owed)
        /\ \A i \in 1 .. Len(owed) : v[i] = q(FALSE)
    <3>1. /\ Len(WireRequests(owed)) = Len(owed)
          /\ \A i \in 1 .. Len(owed) : WireRequests(owed)[i] = q(owed[i])
      BY <1>2, RequestsOf
    <3>2. ASSUME NEW b \in BOOLEAN PROVE [q(b) EXCEPT !.fresh = FALSE] = q(FALSE)
      <4>1. q(b) \in R
        OBVIOUS
      <4>2. ASSUME NEW g \in R
            PROVE  LET x == [g EXCEPT !.fresh = FALSE] IN
                   x \in R /\ x.cmd = g.cmd /\ x.start = g.start /\ x.n = g.n
                     /\ x.id = g.id /\ x.fresh = FALSE
        OBVIOUS
      <4>3. ASSUME NEW x \in R
            PROVE  x = [cmd |-> x.cmd, start |-> x.start, n |-> x.n, id |-> x.id,
                        fresh |-> x.fresh]
        OBVIOUS
      <4>4. q(b).cmd = "getTime" /\ q(b).start = 0 /\ q(b).n = 0 /\ q(b).id = 0
        OBVIOUS
      <4> DEFINE x == [q(b) EXCEPT !.fresh = FALSE]
      <4>5. x \in R /\ x.cmd = "getTime" /\ x.start = 0 /\ x.n = 0 /\ x.id = 0
            /\ x.fresh = FALSE
        BY <4>1, <4>2, <4>4
      <4> HIDE DEF x
      <4> QED
        BY <4>3, <4>5 DEF x
    <3>3. \A i \in 1 .. Len(owed) : owed[i] \in BOOLEAN
      BY <1>2, ElementOfSeq
    <3>4. v = [i \in 1 .. Len(owed) |-> [WireRequests(owed)[i] EXCEPT !.fresh = FALSE]]
      BY <3>1 DEF Wire!Superseded
    <3>5. \A i \in 1 .. Len(owed) : [WireRequests(owed)[i] EXCEPT !.fresh = FALSE] = q(FALSE)
      BY <3>1, <3>2, <3>3
    <3>6. q(FALSE) \in R
      OBVIOUS
    <3> HIDE DEF q, v, R
    <3>7. \A i \in 1 .. Len(owed) : v[i] = q(FALSE)
      BY <3>4, <3>5
    <3>8. v = [i \in 1 .. Len(owed) |-> q(FALSE)]
      BY <3>4, <3>5
    <3>9. ASSUME NEW S, NEW x \in S, NEW n \in Nat
          PROVE  [i \in 1 .. n |-> x] \in Seq(S) /\ Len([i \in 1 .. n |-> x]) = n
      OBVIOUS
    <3>10. v \in Seq(R) /\ Len(v) = Len(owed)
      BY <1>2, <3>6, <3>8, <3>9
    <3> QED
      BY <3>7, <3>10
  <2>6. q(TRUE) \in R
    OBVIOUS
  <2> HIDE DEF q, u, v, R
  <2>7. /\ Append(v, q(TRUE)) \in Seq(R) /\ Len(Append(v, q(TRUE))) = Len(owed) + 1
        /\ \A i \in 1 .. Len(owed) : Append(v, q(TRUE))[i] = v[i]
        /\ Append(v, q(TRUE))[Len(owed) + 1] = q(TRUE)
    <3> DEFINE x == q(TRUE)
    <3> HIDE DEF x
    <3>1. v \in Seq(R) /\ x \in R
      BY <2>5, <2>6 DEF x
    <3>2. /\ Append(v, x) \in Seq(R) /\ Len(Append(v, x)) = Len(v) + 1
          /\ \A i \in 1 .. Len(v) : Append(v, x)[i] = v[i]
          /\ Append(v, x)[Len(v) + 1] = x
      BY <3>1, AppendProperties
    <3>3. Len(v) = Len(owed)
      BY <2>5
    <3> QED
      BY <3>2, <3>3, Zenon DEF x
  <2>8. \A i \in 1 .. Len(u) : u[i] = Append(v, q(TRUE))[i]
    <3> SUFFICES ASSUME NEW i \in 1 .. Len(u) PROVE u[i] = Append(v, q(TRUE))[i]
      OBVIOUS
    <3>1. CASE i = Len(owed) + 1
      BY <2>3, <2>4, <2>7, <3>1
    <3>2. CASE i # Len(owed) + 1
      <4>1. i \in 1 .. Len(owed) /\ i \in 1 .. Len(owed) + 1
        BY <1>2, <2>4, <3>2
      <4> QED
        BY <2>3, <2>4, <2>5, <2>7, <4>1
    <3> QED
      BY <3>1, <3>2
  <2>9. Len(u) = Len(Append(v, q(TRUE)))
    BY <2>4, <2>7
  <2> QED
    BY <2>4, <2>7, <2>8, <2>9, SeqEqual DEF u, v
<1>5. Wire!NextReplyId(0) = 0
  BY DEF Wire!NextReplyId
<1>6. Wire!Write("getTime", 0, 0)
  <2>1. WireRequests(owed') = IF conn = "up"
                              THEN Append(Wire!Superseded(WireRequests(owed)), q(TRUE))
                              ELSE WireRequests(owed)
    BY <1>1, <1>4
  <2>2. ~(stage # "idle") /\ (stage' # "idle") = TRUE
    BY <1>1
  <2>3. Wire!NextReplyId(0) = 0 /\ UNCHANGED <<conn, late, faults, faulted>>
    BY <1>1, <1>5
  <2> QED
    BY <1>3, <2>1, <2>2, <2>3 DEF Wire!Write, WireReplies, WireRequests
<1> QED
  BY <1>6 DEF WireStep

LEMMA AnswerAsWire ==
  ASSUME ReaderIInv, AnswerArrives
  PROVE  WireStep
<1> DEFINE w == WireReplies(stream)
           R == [cmd : {"getTime"}, start : {0}, n : {0}, id : {0}, fresh : BOOLEAN]
<1>1. /\ conn = "up" /\ owed # <<>> /\ owed' = Tail(owed)
      /\ UNCHANGED <<conn, stage, late, faults, faulted>>
      /\ faults \in 0 .. MaxFaults /\ MaxFaults \in Nat
      /\ owed \in Seq(BOOLEAN) /\ stream \in Seq(Frames)
  BY ReaderAssumption
     DEF AnswerArrives, ReaderIInv, ReaderTypeOK, StreamInv, InStream
<1>2. PICK d \in DataLens : stream' = Append(stream, Frame(d, Head(owed)))
  BY DEF AnswerArrives
<1> DEFINE f == Frame(d, Head(owed))
           a == [code |-> "OK", size |-> 0, data |-> [i \in 1 .. d |-> 0]]
<1>3. /\ Head(owed) = owed[1] /\ Head(owed) \in BOOLEAN /\ Tail(owed) \in Seq(BOOLEAN)
      /\ Len(Tail(owed)) = Len(owed) - 1 /\ 1 \in 1 .. Len(owed) /\ Len(owed) \in Nat
      /\ \A i \in 1 .. Len(Tail(owed)) : Tail(owed)[i] = owed[i + 1]
  BY <1>1, HeadTailProperties, EmptySeq
<1>4. /\ WireRequests(owed) # <<>>
      /\ Head(WireRequests(owed)) =
           [cmd |-> "getTime", start |-> 0, n |-> 0, id |-> 0, fresh |-> Head(owed)]
  <2>1. /\ WireRequests(owed) \in Seq(R) /\ Len(WireRequests(owed)) = Len(owed)
        /\ WireRequests(owed)[1] =
             [cmd |-> "getTime", start |-> 0, n |-> 0, id |-> 0, fresh |-> Head(owed)]
    BY <1>1, <1>3, RequestsOf
  <2>2. Len(WireRequests(owed)) # 0 /\ Len(<<>>) = 0
    BY <1>3, <2>1, EmptySeq
  <2>3. WireRequests(owed) # <<>>
    BY <2>2, Zenon
  <2>4. Head(WireRequests(owed)) = WireRequests(owed)[1]
    BY <2>1, <2>3
  <2> QED
    BY <2>1, <2>3, <2>4
<1>5. WireRequests(owed') = Tail(WireRequests(owed))
  <2> DEFINE u == WireRequests(Tail(owed))
             v == WireRequests(owed)
  <2>1. /\ v \in Seq(R) /\ Len(v) = Len(owed)
        /\ \A i \in 1 .. Len(owed) :
             v[i] = [cmd |-> "getTime", start |-> 0, n |-> 0, id |-> 0, fresh |-> owed[i]]
    BY <1>1, RequestsOf
  <2>2. /\ u \in Seq(R) /\ Len(u) = Len(owed) - 1
        /\ \A i \in 1 .. Len(owed) - 1 :
             u[i] = [cmd |-> "getTime", start |-> 0, n |-> 0, id |-> 0,
                     fresh |-> Tail(owed)[i]]
    BY <1>3, RequestsOf
  <2>3. v # <<>>
    BY <1>4
  <2> HIDE DEF u, v, R
  <2>4. /\ Tail(v) \in Seq(R) /\ Len(Tail(v)) = Len(owed) - 1
        /\ \A i \in 1 .. Len(owed) - 1 : Tail(v)[i] = v[i + 1]
    BY <2>1, <2>3, HeadTailProperties
  <2>5. \A i \in 1 .. Len(u) : u[i] = Tail(v)[i]
    <3> SUFFICES ASSUME NEW i \in 1 .. Len(owed) - 1 PROVE u[i] = Tail(v)[i]
      BY <2>2
    <3>1. i + 1 \in 1 .. Len(owed)
      BY <1>3
    <3>2. Tail(owed)[i] = owed[i + 1]
      BY <1>3
    <3>3. v[i + 1] = [cmd |-> "getTime", start |-> 0, n |-> 0, id |-> 0, fresh |-> owed[i + 1]]
      BY <2>1, <3>1
    <3>4. u[i] = [cmd |-> "getTime", start |-> 0, n |-> 0, id |-> 0, fresh |-> Tail(owed)[i]]
      BY <2>2
    <3> QED
      BY <2>4, <3>2, <3>3, <3>4
  <2>6. Len(u) = Len(Tail(v))
    BY <2>2, <2>4
  <2>7. u = Tail(v)
    BY <2>2, <2>4, <2>5, <2>6, SeqEqual
  <2> QED
    BY <1>1, <2>7 DEF u, v
<1>6. f.wire = [ans |-> "getTime", code |-> a.code, data |-> a.data, size |-> a.size,
                id |-> 0, fresh |-> Head(owed)]
  BY DEF Frame
<1>7. f \in Frames
  <2>1. InStream(stream', arrived')
    BY AnswerStep DEF ReaderIInv, StreamInv
  <2>2. stream' \in Seq(Frames)
    BY <2>1 DEF InStream
  <2>3. Len(stream) \in Nat /\ Len(stream') = Len(stream) + 1
        /\ stream'[Len(stream) + 1] = f
    BY <1>1, <1>2
  <2>4. Len(stream) + 1 \in 1 .. Len(stream')
    BY <2>3
  <2> HIDE DEF f
  <2> QED
    BY <2>2, <2>3, <2>4, ElementOfSeq
<1>8. WireReplies(stream') = Append(w, f.wire)
  <2>1. stream' = Append(stream, f)
    BY <1>2
  <2> HIDE DEF f
  <2>2. /\ stream' \in Seq(Frames) /\ Len(stream') = Len(stream) + 1 /\ Len(stream) \in Nat
        /\ \A i \in 1 .. Len(stream) : stream'[i] = stream[i]
        /\ stream'[Len(stream) + 1] = f
    BY <1>1, <1>7, <2>1, AppendProperties
  <2>3. f.wire \in Wires
    BY <1>7 DEF Frames
  <2>4. /\ w \in Seq(Wires) /\ Len(w) = Len(stream)
        /\ \A i \in 1 .. Len(stream) : w[i] = stream[i].wire
    BY <1>1, WiresOf
  <2> DEFINE u == WireReplies(stream')
  <2>5. /\ u \in Seq(Wires) /\ Len(u) = Len(stream) + 1
        /\ \A i \in 1 .. Len(stream) + 1 : u[i] = stream'[i].wire
    BY <2>2, WiresOf
  <2> HIDE DEF u, w
  <2>6. /\ Append(w, f.wire) \in Seq(Wires) /\ Len(Append(w, f.wire)) = Len(stream) + 1
        /\ \A i \in 1 .. Len(stream) : Append(w, f.wire)[i] = w[i]
        /\ Append(w, f.wire)[Len(stream) + 1] = f.wire
    BY <2>3, <2>4, AppendProperties
  <2>7. \A i \in 1 .. Len(u) : u[i] = Append(w, f.wire)[i]
    <3> SUFFICES ASSUME NEW i \in 1 .. Len(stream) + 1 PROVE u[i] = Append(w, f.wire)[i]
      BY <2>5
    <3>1. CASE i = Len(stream) + 1
      BY <2>2, <2>5, <2>6, <3>1
    <3>2. CASE i # Len(stream) + 1
      <4>1. i \in 1 .. Len(stream)
        BY <2>2, <3>2
      <4> QED
        BY <2>2, <2>4, <2>5, <2>6, <4>1
    <3> QED
      BY <3>1, <3>2
  <2>8. Len(u) = Len(Append(w, f.wire))
    BY <2>5, <2>6
  <2> QED
    BY <2>5, <2>6, <2>7, <2>8, SeqEqual DEF u
<1>9. Wire!Handle(a, 0)
  <2> HIDE DEF f
  <2>1. faults + 0 <= MaxFaults /\ faults' = faults + 0 /\ conn # "broken"
    BY <1>1
  <2>2. WireReplies(stream') =
          Append(w, [ans |-> "getTime", code |-> a.code, data |-> a.data, size |-> a.size,
                     id |-> 0, fresh |-> Head(owed)])
    BY <1>6, <1>8
  <2>3. Head(WireRequests(owed)).cmd = "getTime" /\ Head(WireRequests(owed)).id = 0
        /\ Head(WireRequests(owed)).fresh = Head(owed)
    BY <1>4
  <2> HIDE DEF a
  <2>4. /\ UNCHANGED <<conn, stage # "idle", 0, late>>
        /\ faulted' = IF 0 > 0 THEN faulted \cup {Head(WireRequests(owed)).cmd} ELSE faulted
    BY <1>1
  <2> QED
    BY <1>1, <1>4, <1>5, <2>1, <2>2, <2>3, <2>4 DEF Wire!Handle, WireReplies, WireRequests
<1> QED
  BY <1>9 DEF WireStep

LEMMA DropAsWire ==
  ASSUME ConnectionDrops
  PROVE  WireStep
<1>1. WireRequests(owed') = <<>>
  BY EmptySeq DEF ConnectionDrops, WireRequests
<1>2. Wire!Drop
  BY <1>1 DEF ConnectionDrops, Wire!Drop, WireRequests
<1> QED
  BY <1>2 DEF WireStep

\* Refinement: whatever the segments, the buffer and the limit, a read that is not
\* refused for its length ends as ZKWire says, and what it leaves in the stream is
\* what ZKWire leaves.
THEOREM ReaderImplementsWire == ReaderSpec => ReadsAsWire
<1>1. ReaderInit => ReaderIInv
  BY ReaderInitial
<1>2. ReaderIInv /\ [ReaderNext]_readerVars => ReaderIInv'
  BY ReaderInductive
<1>3. ReaderIInv /\ [ReaderNext]_readerVars
        => [WireStep \/ result' = "large"]_(Wire!wireVars)
  <2> SUFFICES ASSUME ReaderIInv, [ReaderNext]_readerVars
               PROVE  WireStep \/ result' = "large" \/ UNCHANGED Wire!wireVars
    OBVIOUS
  <2>1. CASE UNCHANGED readerVars \/ BytesArrive
    BY <2>1, WireStutter DEF readerVars, BytesArrive
  <2>2. CASE ReadReturns
    BY <2>2, ReadAsWire
  <2> QED
    BY <2>1, <2>2, WriteAsWire, DeadlineAsWire, ErrorAsWire, AnswerAsWire, DropAsWire
       DEF ReaderNext, Reader, Finished
<1> QED
  BY <1>1, <1>2, <1>3, PTL DEF ReaderSpec, ReadsAsWire

-----------------------------------------------------------------------------
(* CommKey: numbers bit by bit *)

\* Counting up to a bound.
LEMMA UpTo ==
  ASSUME NEW m \in Nat, NEW T, 0 \in T,
         \A k \in 0 .. m - 1 : k \in T => k + 1 \in T
  PROVE  \A k \in 0 .. m : k \in T
<1> DEFINE Bad == {k \in 0 .. m : k \notin T}
<1> SUFFICES ASSUME Bad # {} PROVE FALSE
  OBVIOUS
<1>1. Bad \in SUBSET Nat
  OBVIOUS
<1>2. PICK x \in Bad : \A y \in Bad : x <= y
  BY <1>1, Least
<1>3. x # 0 /\ x \in Nat /\ x <= m
  OBVIOUS
<1>4. x - 1 \in 0 .. m - 1 /\ x - 1 \in 0 .. m /\ (x - 1) + 1 = x
  BY <1>3
<1>5. x - 1 \notin Bad
  BY <1>2, <1>3, <1>4
<1> QED
  BY <1>4, <1>5

\* f is what m steps make of e.
Follows(f, m, V, e, step) ==
  /\ f \in [0 .. m -> V]
  /\ f[0] = e
  /\ \A i \in 1 .. m : f[i] = step[i][f[i - 1]]

\* A recursive definition by steps inside a set has a value.
LEMMA Recursion ==
  ASSUME NEW m \in Nat, NEW V, NEW e \in V, NEW step \in [1 .. m -> [V -> V]]
  PROVE  \E f : Follows(f, m, V, e, step)
<1> DEFINE T == {j \in 0 .. m : \E f : Follows(f, j, V, e, step)}
<1>1. 0 \in T
  <2> DEFINE f == [k \in 0 .. 0 |-> e]
  <2>1. Follows(f, 0, V, e, step)
    BY DEF Follows
  <2>2. 0 \in 0 .. m
    OBVIOUS
  <2> HIDE DEF f
  <2> QED
    BY <2>1, <2>2
<1>2. ASSUME NEW j \in 0 .. m - 1, j \in T
      PROVE  j + 1 \in T
  <2>1. PICK f : Follows(f, j, V, e, step)
    BY <1>2
  <2>2. f[j] \in V /\ j + 1 \in 1 .. m /\ j + 1 \in 0 .. m
    BY <2>1 DEF Follows
  <2>3. step[j + 1][f[j]] \in V
    BY <2>2
  <2> DEFINE g == [k \in 0 .. j + 1 |-> IF k = j + 1 THEN step[j + 1][f[j]] ELSE f[k]]
  <2>4. g \in [0 .. j + 1 -> V]
    BY <2>1, <2>3 DEF Follows
  <2>5. \A k \in 0 .. j : g[k] = f[k]
    OBVIOUS
  <2>6. g[j + 1] = step[j + 1][f[j]]
    OBVIOUS
  <2>7. g[0] = e
    BY <2>1, <2>5 DEF Follows
  <2> HIDE DEF g
  <2>8. ASSUME NEW k \in 1 .. j + 1
        PROVE  g[k] = step[k][g[k - 1]]
    <3>1. CASE k = j + 1
      BY <2>5, <2>6, <3>1
    <3>2. CASE k # j + 1
      <4>1. k \in 1 .. j /\ k \in 0 .. j /\ k - 1 \in 0 .. j
        BY <3>2
      <4> QED
        BY <2>1, <2>5, <4>1 DEF Follows
    <3> QED
      BY <3>1, <3>2
  <2>9. Follows(g, j + 1, V, e, step)
    BY <2>4, <2>7, <2>8 DEF Follows
  <2> QED
    BY <2>2, <2>9
<1> HIDE DEF T
<1>3. \A j \in 0 .. m : j \in T
  BY <1>1, <1>2, UpTo
<1> QED
  BY <1>3 DEF T

-----------------------------------------------------------------------------
\* The bits of bytes and words.
LEMMA Widths ==
  /\ ByteBits \in Nat /\ Key!WordBits \in Nat /\ ByteBits <= Key!WordBits
  /\ 3 * ByteBits \in 0 .. Key!WordBits /\ 3 * ByteBits + ByteBits = Key!WordBits
BY KeyAssumption DEF Key!WordBits

\* What Power computes.
LEMMA PowerIs ==
  /\ Key!Power[0] = 1
  /\ \A i \in 1 .. Key!WordBits : Key!Power[i] = 2 * Key!Power[i - 1]
  /\ \A i \in 0 .. Key!WordBits : Key!Power[i] \in Nat \ {0}
<1> DEFINE step == [k \in 1 .. Key!WordBits |-> [v \in Nat \ {0} |-> 2 * v]]
<1>1. step \in [1 .. Key!WordBits -> [Nat \ {0} -> Nat \ {0}]] /\ 1 \in Nat \ {0}
  OBVIOUS
<1>2. PICK f : Follows(f, Key!WordBits, Nat \ {0}, 1, step)
  <2>1. Key!WordBits \in Nat
    BY Widths
  <2> HIDE DEF step
  <2> DEFINE V == Nat \ {0}
             e == 1
  <2>2. e \in V /\ step \in [1 .. Key!WordBits -> [V -> V]]
    BY <1>1
  <2> HIDE DEF V, e
  <2>3. \E f : Follows(f, Key!WordBits, V, e, step)
    BY <2>1, <2>2, Recursion
  <2> QED
    BY <2>3 DEF V, e
<1>3. ASSUME NEW k \in 0 .. Key!WordBits PROVE f[k] = IF k = 0 THEN 1 ELSE 2 * f[k - 1]
  <2>1. k # 0 => k \in 1 .. Key!WordBits /\ k - 1 \in 0 .. Key!WordBits
    BY Widths
  <2> QED
    BY <1>2, <2>1 DEF Follows
<1>4. f = [k \in 0 .. Key!WordBits |-> IF k = 0 THEN 1 ELSE 2 * f[k - 1]]
  BY <1>3, <1>2 DEF Follows
<1>5. Key!Power = [k \in 0 .. Key!WordBits |-> IF k = 0 THEN 1 ELSE 2 * Key!Power[k - 1]]
  <2>1. Key!Power = CHOOSE g : g = [k \in 0 .. Key!WordBits |-> IF k = 0 THEN 1 ELSE 2 * g[k - 1]]
    BY DEF Key!Power
  <2> QED
    BY <1>4, <2>1
<1>6. /\ Key!Power[0] = 1
      /\ \A i \in 1 .. Key!WordBits : Key!Power[i] = 2 * Key!Power[i - 1]
  BY <1>5, Widths
<1> DEFINE T == {k \in 0 .. Key!WordBits : Key!Power[k] \in Nat \ {0}}
<1>7. 0 \in T
  BY <1>6, Widths
<1>8. ASSUME NEW k \in 0 .. Key!WordBits - 1, k \in T PROVE k + 1 \in T
  <2>1. k + 1 \in 1 .. Key!WordBits /\ (k + 1) - 1 = k /\ k + 1 \in 0 .. Key!WordBits
    BY Widths
  <2> QED
    BY <1>6, <1>8, <2>1
<1> HIDE DEF T
<1>9. \A k \in 0 .. Key!WordBits : k \in T
  BY <1>7, <1>8, Widths, UpTo
<1> QED
  BY <1>6, <1>9 DEF T

\* One power to the next.
LEMMA PowerStep ==
  ASSUME NEW i \in 0 .. Key!WordBits - 1
  PROVE  /\ Key!Power[i] \in Nat \ {0} /\ Key!Power[i + 1] \in Nat \ {0}
         /\ Key!Power[i + 1] = 2 * Key!Power[i]
<1>1. i + 1 \in 1 .. Key!WordBits /\ i + 1 \in 0 .. Key!WordBits /\ i \in 0 .. Key!WordBits
      /\ (i + 1) - 1 = i
  BY Widths
<1> QED
  BY <1>1, PowerIs

\* Powers grow.
LEMMA PowerGrows ==
  ASSUME NEW i \in 0 .. Key!WordBits
  PROVE  \A j \in 0 .. Key!WordBits : i <= j => Key!Power[i] <= Key!Power[j]
<1> DEFINE T == {j \in 0 .. Key!WordBits : i <= j => Key!Power[i] <= Key!Power[j]}
<1>1. 0 \in T
  BY Widths, PowerIs
<1>2. ASSUME NEW j \in 0 .. Key!WordBits - 1, j \in T PROVE j + 1 \in T
  <2>1. j + 1 \in 0 .. Key!WordBits /\ Key!Power[j + 1] = 2 * Key!Power[j]
        /\ Key!Power[j] \in Nat /\ Key!Power[i] \in Nat
    BY PowerStep, PowerIs, Widths
  <2>2. CASE i <= j
    BY <1>2, <2>1, <2>2
  <2>3. CASE ~(i <= j)
    <3>1. i <= j + 1 => i = j + 1
      BY <2>3
    <3> QED
      BY <2>1, <3>1
  <2> QED
    BY <2>2, <2>3
<1> HIDE DEF T
<1>3. \A j \in 0 .. Key!WordBits : j \in T
  BY <1>1, <1>2, Widths, UpTo
<1> QED
  BY <1>3 DEF T

\* Powers of sums are products.
LEMMA PowerSum ==
  ASSUME NEW i \in 0 .. Key!WordBits
  PROVE  \A j \in 0 .. Key!WordBits : i + j <= Key!WordBits => Key!Power[i + j] = Key!Power[i] * Key!Power[j]
<1> DEFINE T == {j \in 0 .. Key!WordBits : i + j <= Key!WordBits => Key!Power[i + j] = Key!Power[i] * Key!Power[j]}
<1>1. 0 \in T
  BY Widths, PowerIs
<1>2. ASSUME NEW j \in 0 .. Key!WordBits - 1, j \in T PROVE j + 1 \in T
  <2> SUFFICES ASSUME i + (j + 1) <= Key!WordBits
               PROVE  Key!Power[i + (j + 1)] = Key!Power[i] * Key!Power[j + 1]
    BY Widths
  <2>1. i + j \in 0 .. Key!WordBits - 1 /\ i + (j + 1) = (i + j) + 1
    BY Widths
  <2>2. Key!Power[i + (j + 1)] = 2 * Key!Power[i + j] /\ Key!Power[j + 1] = 2 * Key!Power[j]
    BY <2>1, PowerStep
  <2>3. Key!Power[i + j] = Key!Power[i] * Key!Power[j]
    <3>1. i + j <= Key!WordBits
      BY <2>1, Widths
    <3> QED
      BY <1>2, <3>1
  <2>4. Key!Power[i] \in Int /\ Key!Power[j] \in Int
    BY PowerIs, Widths
  <2>5. 2 * (Key!Power[i] * Key!Power[j]) = Key!Power[i] * (2 * Key!Power[j])
    BY <2>4
  <2> QED
    BY <2>2, <2>3, <2>5
<1> HIDE DEF T
<1>3. \A j \in 0 .. Key!WordBits : j \in T
  BY <1>1, <1>2, Widths, UpTo
<1> QED
  BY <1>3 DEF T

-----------------------------------------------------------------------------
\* What shifting a key gives, bit by bit.
LEMMA ShiftedIs ==
  ASSUME NEW k \in Nat
  PROVE  /\ Key!Shifted(k)[0] = k
         /\ \A i \in 0 .. Key!WordBits - 1 : Key!Shifted(k)[i + 1] = Key!Shifted(k)[i] \div 2
         /\ \A i \in 0 .. Key!WordBits : Key!Shifted(k)[i] \in Nat
<1> DEFINE step == [i \in 1 .. Key!WordBits |-> [v \in Nat |-> v \div 2]]
           s == Key!Shifted(k)
<1>1. step \in [1 .. Key!WordBits -> [Nat -> Nat]]
  OBVIOUS
<1>2. PICK f : Follows(f, Key!WordBits, Nat, k, step)
  <2>1. Key!WordBits \in Nat
    BY Widths
  <2> HIDE DEF step
  <2> DEFINE V == Nat
             e == k
  <2>2. e \in V /\ step \in [1 .. Key!WordBits -> [V -> V]]
    BY <1>1
  <2> HIDE DEF V, e
  <2>3. \E f : Follows(f, Key!WordBits, V, e, step)
    BY <2>1, <2>2, Recursion
  <2> QED
    BY <2>3 DEF V, e
<1>3. ASSUME NEW i \in 0 .. Key!WordBits PROVE f[i] = IF i = 0 THEN k ELSE f[i - 1] \div 2
  <2>1. i # 0 => i \in 1 .. Key!WordBits /\ i - 1 \in 0 .. Key!WordBits
    BY Widths
  <2> QED
    BY <1>2, <2>1 DEF Follows
<1>4. f = [i \in 0 .. Key!WordBits |-> IF i = 0 THEN k ELSE f[i - 1] \div 2]
  BY <1>3, <1>2 DEF Follows
<1>5. s = [i \in 0 .. Key!WordBits |-> IF i = 0 THEN k ELSE s[i - 1] \div 2]
  <2>1. s = CHOOSE g : g = [i \in 0 .. Key!WordBits |-> IF i = 0 THEN k ELSE g[i - 1] \div 2]
    BY DEF Key!Shifted
  <2> HIDE DEF s
  <2> QED
    BY <1>4, <2>1
<1> HIDE DEF s
<1>6. s[0] = k /\ \A i \in 0 .. Key!WordBits - 1 : s[i + 1] = s[i] \div 2
  BY <1>5, Widths
<1> DEFINE T == {i \in 0 .. Key!WordBits : s[i] \in Nat}
<1>7. 0 \in T
  BY <1>6, Widths
<1>8. ASSUME NEW i \in 0 .. Key!WordBits - 1, i \in T PROVE i + 1 \in T
  BY <1>6, <1>8, Widths
<1> HIDE DEF T
<1>9. \A i \in 0 .. Key!WordBits : i \in T
  BY <1>7, <1>8, Widths, UpTo
<1> QED
  BY <1>6, <1>9 DEF T, s

\* The mirrored bits never leave the word, so the modulus does nothing.
LEMMA ReversingIs ==
  ASSUME NEW k \in Nat
  PROVE  /\ Key!Reversing(k)[0] = 0
         /\ \A i \in 0 .. Key!WordBits - 1 :
              Key!Reversing(k)[i + 1] = 2 * Key!Reversing(k)[i] + (Key!Shifted(k)[i] % 2)
         /\ \A i \in 0 .. Key!WordBits : Key!Reversing(k)[i] \in Nat /\ Key!Reversing(k)[i] < Key!Power[i]
<1> DEFINE s == Key!Shifted(k)
           r == Key!Reversing(k)
           step == [i \in 1 .. Key!WordBits |-> [v \in Nat |-> (2 * v + (s[i - 1] % 2)) % Key!Words32]]
<1>1. /\ Key!Words32 \in Nat \ {0}
      /\ \A i \in 0 .. Key!WordBits : s[i] \in Nat
  BY PowerIs, ShiftedIs, Widths DEF Key!Words32
<1> HIDE DEF s
<1>2. step \in [1 .. Key!WordBits -> [Nat -> Nat]]
  <2>1. ASSUME NEW i \in 1 .. Key!WordBits, NEW v \in Nat
        PROVE  (2 * v + (s[i - 1] % 2)) % Key!Words32 \in Nat
    <3>1. s[i - 1] \in Nat
      BY <1>1, Widths
    <3>2. 2 * v + (s[i - 1] % 2) \in Nat
      BY <3>1
    <3> QED
      BY <1>1, <3>2
  <2> QED
    BY <2>1
<1>3. PICK f : Follows(f, Key!WordBits, Nat, 0, step)
  <2>1. Key!WordBits \in Nat
    BY Widths
  <2> HIDE DEF step
  <2> DEFINE V == Nat
             e == 0
  <2>2. e \in V /\ step \in [1 .. Key!WordBits -> [V -> V]]
    BY <1>2
  <2> HIDE DEF V, e
  <2>3. \E f : Follows(f, Key!WordBits, V, e, step)
    BY <2>1, <2>2, Recursion
  <2> QED
    BY <2>3 DEF V, e
<1>4. ASSUME NEW i \in 0 .. Key!WordBits
      PROVE  f[i] = IF i = 0 THEN 0 ELSE (2 * f[i - 1] + (s[i - 1] % 2)) % Key!Words32
  <2>1. i # 0 => i \in 1 .. Key!WordBits /\ i - 1 \in 0 .. Key!WordBits
    BY Widths
  <2> QED
    BY <1>3, <2>1 DEF Follows
<1>5. f = [i \in 0 .. Key!WordBits |->
             IF i = 0 THEN 0 ELSE (2 * f[i - 1] + (s[i - 1] % 2)) % Key!Words32]
  BY <1>4, <1>3 DEF Follows
<1>6. r = [i \in 0 .. Key!WordBits |->
             IF i = 0 THEN 0 ELSE (2 * r[i - 1] + (s[i - 1] % 2)) % Key!Words32]
  <2>1. r = CHOOSE g : g = [i \in 0 .. Key!WordBits |->
               IF i = 0 THEN 0 ELSE (2 * g[i - 1] + (s[i - 1] % 2)) % Key!Words32]
    BY DEF Key!Reversing, s
  <2> HIDE DEF r
  <2> QED
    BY <1>5, <2>1
<1> HIDE DEF r
<1>7. /\ r[0] = 0
      /\ \A i \in 0 .. Key!WordBits - 1 : r[i + 1] = (2 * r[i] + (s[i] % 2)) % Key!Words32
  BY <1>6, Widths
<1>8. ASSUME NEW i \in 0 .. Key!WordBits - 1, r[i] \in Nat, r[i] < Key!Power[i]
      PROVE  /\ r[i + 1] = 2 * r[i] + (s[i] % 2)
             /\ r[i + 1] \in Nat /\ r[i + 1] < Key!Power[i + 1]
  <2>1. /\ i \in 0 .. Key!WordBits /\ i + 1 \in 0 .. Key!WordBits /\ Key!WordBits \in 0 .. Key!WordBits
        /\ i + 1 <= Key!WordBits
    BY Widths
  <2>2. /\ Key!Power[i] \in Nat /\ Key!Power[i + 1] = 2 * Key!Power[i]
        /\ Key!Power[i + 1] <= Key!Words32
    BY <2>1, PowerStep, PowerGrows DEF Key!Words32
  <2>3. s[i] \in Nat
    BY <1>1, <2>1
  <2> DEFINE b == s[i] % 2
             n == 2 * r[i] + b
  <2>4. b \in 0 .. 1
    BY <2>3
  <2> HIDE DEF b
  <2>5. n \in Nat /\ n < Key!Power[i + 1]
    BY <1>8, <2>2, <2>4
  <2> HIDE DEF n
  <2>6. n % Key!Words32 = n
    BY <1>1, <2>2, <2>5
  <2>7. r[i + 1] = n
    BY <1>7, <2>6 DEF n, b
  <2> QED
    BY <2>5, <2>7 DEF n, b
<1> DEFINE T == {i \in 0 .. Key!WordBits : r[i] \in Nat /\ r[i] < Key!Power[i]}
<1>9. 0 \in T
  BY <1>7, PowerIs, Widths
<1>10. ASSUME NEW i \in 0 .. Key!WordBits - 1, i \in T PROVE i + 1 \in T
  BY <1>8, <1>10, Widths
<1> HIDE DEF T
<1>11. \A i \in 0 .. Key!WordBits : i \in T
  BY <1>9, <1>10, Widths, UpTo
<1>12. \A i \in 0 .. Key!WordBits : r[i] \in Nat /\ r[i] < Key!Power[i]
  BY <1>11 DEF T
<1>13. \A i \in 0 .. Key!WordBits - 1 : r[i + 1] = 2 * r[i] + (s[i] % 2)
  BY <1>8, <1>12, Widths
<1> QED
  BY <1>7, <1>12, <1>13 DEF s, r

\* The bits that were shifted in and those still to come make the number.
LEMMA SameBits ==
  ASSUME NEW k \in Nat, NEW q \in Nat
  PROVE  \A i \in 0 .. Key!WordBits :
           /\ Key!Shifted(k)[i] = Key!Shifted(q)[i]
           /\ Key!Reversing(k)[i] = Key!Reversing(q)[i]
           => k = q
<1> DEFINE sk == Key!Shifted(k)
           sq == Key!Shifted(q)
           rk == Key!Reversing(k)
           rq == Key!Reversing(q)
           T == {i \in 0 .. Key!WordBits : sk[i] = sq[i] /\ rk[i] = rq[i] => k = q}
<1>1. /\ sk[0] = k /\ sq[0] = q
      /\ \A i \in 0 .. Key!WordBits - 1 : sk[i + 1] = sk[i] \div 2 /\ sq[i + 1] = sq[i] \div 2
      /\ \A i \in 0 .. Key!WordBits : sk[i] \in Nat /\ sq[i] \in Nat
  BY ShiftedIs
<1>2. /\ \A i \in 0 .. Key!WordBits - 1 : rk[i + 1] = 2 * rk[i] + (sk[i] % 2)
                                   /\ rq[i + 1] = 2 * rq[i] + (sq[i] % 2)
      /\ \A i \in 0 .. Key!WordBits : rk[i] \in Nat /\ rq[i] \in Nat
  BY ReversingIs
<1> HIDE DEF sk, sq, rk, rq
<1>3. 0 \in T
  BY <1>1, Widths
<1>4. ASSUME NEW i \in 0 .. Key!WordBits - 1, i \in T PROVE i + 1 \in T
  <2> SUFFICES ASSUME sk[i + 1] = sq[i + 1], rk[i + 1] = rq[i + 1]
               PROVE  sk[i] = sq[i] /\ rk[i] = rq[i]
    BY <1>4, Widths
  <2>1. sk[i] \in Nat /\ sq[i] \in Nat /\ rk[i] \in Nat /\ rq[i] \in Nat
    BY <1>1, <1>2, Widths
  <2>2. /\ sk[i] \div 2 = sq[i] \div 2
        /\ 2 * rk[i] + (sk[i] % 2) = 2 * rq[i] + (sq[i] % 2)
    BY <1>1, <1>2
  <2>3. \A a, b, c, d \in Nat :
          a \div 2 = b \div 2 /\ 2 * c + (a % 2) = 2 * d + (b % 2) => a = b /\ c = d
    OBVIOUS
  <2> DEFINE x == sk[i]
             y == sq[i]
             u == rk[i]
             v == rq[i]
  <2>4. /\ x \in Nat /\ y \in Nat /\ u \in Nat /\ v \in Nat
        /\ x \div 2 = y \div 2 /\ 2 * u + (x % 2) = 2 * v + (y % 2)
    BY <2>1, <2>2
  <2> HIDE DEF x, y, u, v
  <2>5. x = y /\ u = v
    BY ONLY <2>3, <2>4
  <2> QED
    BY <2>5 DEF x, y, u, v
<1> HIDE DEF T
<1>5. \A i \in 0 .. Key!WordBits : i \in T
  BY <1>3, <1>4, Widths, UpTo
<1> QED
  BY <1>5 DEF T, sk, sq, rk, rq

\* A number of m bits is used up after m shifts.
LEMMA Shrinks ==
  ASSUME NEW k \in Nat, NEW m \in 0 .. Key!WordBits, k < Key!Power[m]
  PROVE  Key!Shifted(k)[m] = 0
<1> DEFINE s == Key!Shifted(k)
           T == {i \in 0 .. m : s[i] < Key!Power[m - i]}
<1>1. /\ s[0] = k
      /\ \A i \in 0 .. Key!WordBits - 1 : s[i + 1] = s[i] \div 2
      /\ \A i \in 0 .. Key!WordBits : s[i] \in Nat
  BY ShiftedIs
<1> HIDE DEF s
<1>2. 0 \in T
  BY <1>1, Widths
<1>3. ASSUME NEW i \in 0 .. m - 1, i \in T PROVE i + 1 \in T
  <2>1. /\ i \in 0 .. Key!WordBits - 1 /\ i \in 0 .. Key!WordBits /\ i + 1 \in 0 .. m
        /\ m - (i + 1) \in 0 .. Key!WordBits - 1 /\ (m - (i + 1)) + 1 = m - i
    BY Widths
  <2>2. Key!Power[m - (i + 1)] \in Nat /\ Key!Power[m - i] = 2 * Key!Power[m - (i + 1)]
    BY <2>1, PowerStep
  <2>3. s[i] \in Nat /\ s[i] < Key!Power[m - i] /\ s[i + 1] = s[i] \div 2
    BY <1>1, <1>3, <2>1
  <2>4. \A a, p \in Nat : a < 2 * p => a \div 2 < p
    OBVIOUS
  <2>5. s[i + 1] < Key!Power[m - (i + 1)]
    BY <2>2, <2>3, <2>4
  <2> QED
    BY <2>1, <2>5
<1> HIDE DEF T
<1>4. \A i \in 0 .. m : i \in T
  BY <1>2, <1>3, Widths, UpTo
<1>5. s[m] < Key!Power[m - m] /\ s[m] \in Nat
  BY <1>1, <1>4, Widths DEF T
<1>6. m - m = 0
  BY Widths
<1>7. s[m] < 1
  BY <1>5, <1>6, PowerIs
<1> QED
  BY <1>5, <1>7 DEF s

\* From there on zeros are shifted in.
LEMMA Zeros ==
  ASSUME NEW k \in Nat, NEW m \in 0 .. Key!WordBits, Key!Shifted(k)[m] = 0
  PROVE  \A j \in 0 .. Key!WordBits - m : Key!Reversing(k)[m + j] = Key!Power[j] * Key!Reversing(k)[m]
<1> DEFINE s == Key!Shifted(k)
           r == Key!Reversing(k)
           T == {j \in 0 .. Key!WordBits - m : s[m + j] = 0 /\ r[m + j] = Key!Power[j] * r[m]}
<1>1. /\ s[m] = 0
      /\ \A i \in 0 .. Key!WordBits - 1 : s[i + 1] = s[i] \div 2
      /\ \A i \in 0 .. Key!WordBits - 1 : r[i + 1] = 2 * r[i] + (s[i] % 2)
      /\ r[m] \in Nat
  BY ShiftedIs, ReversingIs
<1> HIDE DEF s, r
<1>2. 0 \in T
  <2>1. m + 0 = m /\ 0 \in 0 .. Key!WordBits - m
    BY Widths
  <2>2. r[m] = 1 * r[m]
    BY <1>1
  <2> QED
    BY <1>1, <2>1, <2>2, PowerIs
<1>3. ASSUME NEW j \in 0 .. Key!WordBits - m - 1, j \in T PROVE j + 1 \in T
  <2>1. /\ m + j \in 0 .. Key!WordBits - 1 /\ (m + j) + 1 = m + (j + 1)
        /\ j \in 0 .. Key!WordBits - 1 /\ j + 1 \in 0 .. Key!WordBits - m
    BY Widths
  <2>2. s[m + (j + 1)] = 0 \div 2 /\ r[m + (j + 1)] = 2 * (Key!Power[j] * r[m]) + (0 % 2)
    BY <1>1, <1>3, <2>1
  <2>3. Key!Power[j] \in Int /\ Key!Power[j + 1] = 2 * Key!Power[j]
    BY <2>1, PowerStep
  <2>4. \A a, b \in Int : 2 * (a * b) = (2 * a) * b
    OBVIOUS
  <2>5. 2 * (Key!Power[j] * r[m]) = Key!Power[j + 1] * r[m]
    BY <1>1, <2>3, <2>4
  <2>6. Key!Power[j] * r[m] \in Int
    BY <1>1, <2>3
  <2>7. \A a \in Int : 2 * a + (0 % 2) = 2 * a
    OBVIOUS
  <2>8. s[m + (j + 1)] = 0
    BY <2>2
  <2> QED
    BY <2>1, <2>2, <2>5, <2>6, <2>7, <2>8
<1> HIDE DEF T
<1>4. Key!WordBits - m \in Nat
  BY Widths
<1>5. \A j \in 0 .. Key!WordBits - m : j \in T
  BY <1>2, <1>3, <1>4, UpTo
<1> QED
  BY <1>5 DEF T, r

-----------------------------------------------------------------------------
\* What fits three bytes comes out with an empty lowest byte, and the three
\* others tell it apart.
LEMMA ReversedBytes ==
  ASSUME NEW k \in Nat, k < Key!Power[3 * ByteBits]
  PROVE  /\ Key!Reversed(k) = Key!ByteSize * Key!Reversing(k)[3 * ByteBits]
         /\ Key!Reversing(k)[3 * ByteBits] \in 0 .. Key!Power[3 * ByteBits] - 1
<1> DEFINE m == 3 * ByteBits
<1>1. /\ m \in 0 .. Key!WordBits /\ m + ByteBits = Key!WordBits
      /\ ByteBits \in 0 .. Key!WordBits - m
  BY Widths
<1>2. Key!Shifted(k)[m] = 0
  BY <1>1, Shrinks
<1>3. Key!Reversing(k)[m + ByteBits] = Key!Power[ByteBits] * Key!Reversing(k)[m]
  BY <1>1, <1>2, Zeros
<1>4. Key!Reversing(k)[m] \in Nat /\ Key!Reversing(k)[m] < Key!Power[m] /\ Key!Power[m] \in Nat
  BY <1>1, ReversingIs, PowerIs
<1> QED
  BY <1>1, <1>3, <1>4 DEF Key!Reversed, Key!ByteSize

\* Keys of three bytes whose mirrored bits agree are equal.
LEMMA ReversedApart ==
  ASSUME NEW k \in Nat, NEW q \in Nat, k < Key!Power[3 * ByteBits], q < Key!Power[3 * ByteBits],
         Key!Reversing(k)[3 * ByteBits] = Key!Reversing(q)[3 * ByteBits]
  PROVE  k = q
<1> DEFINE m == 3 * ByteBits
<1>1. m \in 0 .. Key!WordBits
  BY Widths
<1>2. Key!Shifted(k)[m] = 0 /\ Key!Shifted(q)[m] = 0
  BY <1>1, Shrinks
<1> QED
  BY <1>1, <1>2, SameBits

\* The word is a byte times what three bytes hold.
LEMMA ByteSizes ==
  /\ Key!ByteSize \in Nat \ {0}
  /\ Key!Power[3 * ByteBits] = Key!ByteSize * (Key!ByteSize * Key!ByteSize)
  /\ Key!Power[3 * ByteBits] \in Nat \ {0}
  /\ Key!Words32 = Key!ByteSize * Key!Power[3 * ByteBits]
<1> DEFINE w == ByteBits
<1>1. /\ w \in 0 .. Key!WordBits /\ w + w \in 0 .. Key!WordBits /\ w + (w + w) \in 0 .. Key!WordBits
      /\ w + (w + w) = 3 * w /\ w + 3 * w = Key!WordBits /\ 3 * w \in 0 .. Key!WordBits
      /\ w + w <= Key!WordBits /\ w + (w + w) <= Key!WordBits /\ w + 3 * w <= Key!WordBits
  BY Widths
<1>2. Key!Power[w + w] = Key!Power[w] * Key!Power[w]
  BY <1>1, PowerSum
<1>3. Key!Power[w + (w + w)] = Key!Power[w] * Key!Power[w + w]
  BY <1>1, PowerSum
<1>4. Key!Power[w + 3 * w] = Key!Power[w] * Key!Power[3 * w]
  BY <1>1, PowerSum
<1> QED
  BY <1>1, <1>2, <1>3, <1>4, PowerIs DEF Key!ByteSize, Key!Words32

-----------------------------------------------------------------------------
(* Quotients *)

\* A quotient and a remainder are what adds up to the number.
LEMMA Quotient ==
  ASSUME NEW x \in Nat, NEW b \in Nat \ {0}, NEW c \in Int, NEW d \in 0 .. b - 1,
         x = b * c + d
  PROVE  x \div b = c /\ x % b = d
<1> DEFINE h == x \div b
           l == x % b
<1>1. h \in Nat /\ l \in Nat /\ l < b /\ x = b * h + l
  OBVIOUS
<1> HIDE DEF h, l
<1>2. b * (h - c) = d - l
  BY <1>1
<1>3. \A t \in Int : t >= 1 => b * t >= b
  OBVIOUS
<1>4. \A t \in Int : t <= -1 => b * t <= -b
  OBVIOUS
<1>5. h - c = 0
  <2>1. h - c \in Int /\ d - l < b /\ d - l > -b
    BY <1>1
  <2>2. ~(h - c >= 1)
    BY <1>2, <1>3, <2>1
  <2>3. ~(h - c <= -1)
    BY <1>2, <1>4, <2>1
  <2> QED
    BY <2>1, <2>2, <2>3
<1>6. h = c
  BY <1>1, <1>5
<1>7. l = d
  BY <1>1, <1>6
<1> QED
  BY <1>6, <1>7 DEF h, l

\* A number is its quotient and its remainder.
LEMMA DivParts ==
  ASSUME NEW x \in Nat, NEW b \in Nat \ {0}
  PROVE  x \div b \in Nat /\ x % b \in 0 .. b - 1 /\ x = b * (x \div b) + (x % b)
OBVIOUS

\* The quotient of a number below a multiple.
LEMMA DivBelow ==
  ASSUME NEW x \in Nat, NEW b \in Nat \ {0}, NEW c \in Nat, x < b * c
  PROVE  x \div b < c
<1> DEFINE h == x \div b
           l == x % b
<1>1. h \in Nat /\ l \in 0 .. b - 1 /\ x = b * h + l
  BY DivParts
<1> HIDE DEF h, l
<1> SUFFICES ASSUME h >= c PROVE FALSE
  BY <1>1 DEF h
<1>2. \A t \in Nat : b * t >= 0
  OBVIOUS
<1>3. b * (h - c) >= 0
  BY <1>1, <1>2
<1>4. b * h - b * c >= 0
  BY <1>1, <1>3
<1>5. b * h \in Int /\ b * c \in Int
  BY <1>1
<1> QED
  BY <1>1, <1>4, <1>5

-----------------------------------------------------------------------------
(* Exclusive or *)

\* Exclusive or, bit by bit, stays in its bits.
LEMMA XorsIs ==
  /\ \A a, b \in Key!Bytes : Key!Xors[0][a][b] = 0
  /\ \A w \in 0 .. ByteBits - 1 : \A a, b \in Key!Bytes :
       Key!Xors[w + 1][a][b] = 2 * Key!Xors[w][a \div 2][b \div 2] + ((a + b) % 2)
  /\ \A w \in 0 .. ByteBits : \A a, b \in Key!Bytes : Key!Xors[w][a][b] \in 0 .. Key!Power[w] - 1
<1> DEFINE V == [Key!Bytes -> [Key!Bytes -> Nat]]
           e == [a \in Key!Bytes |-> [b \in Key!Bytes |-> 0]]
           grown(v) == [a \in Key!Bytes |-> [b \in Key!Bytes |->
                          2 * v[a \div 2][b \div 2] + ((a + b) % 2)]]
           step == [w \in 1 .. ByteBits |-> [v \in V |-> grown(v)]]
<1>1. ByteBits \in Nat /\ Key!ByteSize \in Nat \ {0}
  BY Widths, ByteSizes
<1>2. \A a \in Key!Bytes : a \div 2 \in Key!Bytes /\ a \in Nat
  BY <1>1 DEF Key!Bytes
<1>3. ASSUME NEW v \in V PROVE grown(v) \in V
  <2>1. ASSUME NEW a \in Key!Bytes, NEW b \in Key!Bytes
        PROVE  2 * v[a \div 2][b \div 2] + ((a + b) % 2) \in Nat
    <3>1. v[a \div 2][b \div 2] \in Nat
      BY <1>2
    <3>2. a \in Nat /\ b \in Nat
      BY <1>2
    <3>3. (a + b) % 2 \in Nat
      BY ONLY <3>2
    <3> QED
      BY <3>1, <3>3
  <2> QED
    BY <2>1
<1>4. e \in V
  OBVIOUS
<1> HIDE DEF V, e, grown
<1>5. step \in [1 .. ByteBits -> [V -> V]]
  BY <1>3
<1> HIDE DEF step
<1>6. PICK f : Follows(f, ByteBits, V, e, step)
  BY <1>1, <1>4, <1>5, Recursion
<1>7. ASSUME NEW w \in 0 .. ByteBits
      PROVE  f[w] = [a \in Key!Bytes |-> [b \in Key!Bytes |->
               IF w = 0 THEN 0 ELSE 2 * f[w - 1][a \div 2][b \div 2] + ((a + b) % 2)]]
  <2>1. CASE w = 0
    BY <1>6, <2>1 DEF Follows, e
  <2>2. CASE w # 0
    <3>1. w \in 1 .. ByteBits /\ w - 1 \in 0 .. ByteBits
      BY <1>1, <2>2
    <3>2. f[w - 1] \in V /\ f[w] = step[w][f[w - 1]]
      BY <1>6, <3>1 DEF Follows
    <3>3. f[w] = grown(f[w - 1])
      BY <3>1, <3>2 DEF step
    <3> QED
      BY <2>2, <3>3 DEF grown
  <2> QED
    BY <2>1, <2>2
<1>8. f = [w \in 0 .. ByteBits |-> [a \in Key!Bytes |-> [b \in Key!Bytes |->
             IF w = 0 THEN 0 ELSE 2 * f[w - 1][a \div 2][b \div 2] + ((a + b) % 2)]]]
  BY <1>6, <1>7 DEF Follows
<1>9. Key!Xors = [w \in 0 .. ByteBits |-> [a \in Key!Bytes |-> [b \in Key!Bytes |->
             IF w = 0 THEN 0 ELSE 2 * Key!Xors[w - 1][a \div 2][b \div 2] + ((a + b) % 2)]]]
  <2>1. Key!Xors = CHOOSE g : g = [w \in 0 .. ByteBits |-> [a \in Key!Bytes |-> [b \in Key!Bytes |->
             IF w = 0 THEN 0 ELSE 2 * g[w - 1][a \div 2][b \div 2] + ((a + b) % 2)]]]
    BY DEF Key!Xors
  <2> QED
    BY <1>8, <2>1
<1>10. \A a, b \in Key!Bytes : Key!Xors[0][a][b] = 0
  BY <1>1, <1>9
<1>11. ASSUME NEW w \in 0 .. ByteBits - 1, NEW a \in Key!Bytes, NEW b \in Key!Bytes
       PROVE  Key!Xors[w + 1][a][b] = 2 * Key!Xors[w][a \div 2][b \div 2] + ((a + b) % 2)
  <2>1. w + 1 \in 0 .. ByteBits /\ w + 1 # 0 /\ (w + 1) - 1 = w
    BY <1>1
  <2>2. Key!Xors[w + 1] = [x \in Key!Bytes |-> [y \in Key!Bytes |->
                        2 * Key!Xors[w][x \div 2][y \div 2] + ((x + y) % 2)]]
    BY <1>9, <2>1
  <2> QED
    BY ONLY <2>2, a \in Key!Bytes, b \in Key!Bytes
<1> DEFINE T == {w \in 0 .. ByteBits : \A a, b \in Key!Bytes : Key!Xors[w][a][b] \in 0 .. Key!Power[w] - 1}
<1>12. 0 \in T
  BY <1>1, <1>10, PowerIs
<1>13. ASSUME NEW w \in 0 .. ByteBits - 1, w \in T PROVE w + 1 \in T
  <2>1. w \in 0 .. Key!WordBits - 1 /\ w + 1 \in 0 .. ByteBits
    BY <1>1, Widths DEF Key!WordBits
  <2>2. Key!Power[w] \in Nat /\ Key!Power[w + 1] = 2 * Key!Power[w]
    BY <2>1, PowerStep
  <2>3. ASSUME NEW a \in Key!Bytes, NEW b \in Key!Bytes
        PROVE  Key!Xors[w + 1][a][b] \in 0 .. Key!Power[w + 1] - 1
    <3>1. Key!Xors[w][a \div 2][b \div 2] \in 0 .. Key!Power[w] - 1
      BY <1>2, <1>13
    <3>2. (a + b) % 2 \in 0 .. 1
      BY <1>2
    <3> QED
      BY <1>11, <2>2, <3>1, <3>2
  <2> QED
    BY <2>1, <2>3
<1> HIDE DEF T
<1>14. \A w \in 0 .. ByteBits : w \in T
  BY <1>1, <1>12, <1>13, UpTo
<1> QED
  BY <1>10, <1>11, <1>14 DEF T

\* Exclusive or of bytes is a byte.
LEMMA XorByte ==
  ASSUME NEW a \in Key!Bytes, NEW b \in Key!Bytes
  PROVE  Key!Xor(a, b) \in Key!Bytes
BY XorsIs, Widths DEF Key!Xor, Key!Bytes, Key!ByteSize

\* Whatever is mixed in, the bytes it is mixed into are told apart.
LEMMA XorApart ==
  ASSUME NEW a \in Key!Bytes, NEW c \in Key!Bytes, NEW b \in Key!Bytes, Key!Xor(a, b) = Key!Xor(c, b)
  PROVE  a = c
<1> DEFINE T == {w \in 0 .. ByteBits : \A x, y, z \in Key!Bytes :
                   x < Key!Power[w] /\ y < Key!Power[w] /\ Key!Xors[w][x][z] = Key!Xors[w][y][z] => x = y}
<1>1. ByteBits \in Nat /\ Key!ByteSize \in Nat \ {0}
  BY Widths, ByteSizes
<1>2. \A x \in Key!Bytes : x \div 2 \in Key!Bytes /\ x \in Nat
  BY <1>1 DEF Key!Bytes
<1>3. 0 \in T
  <2>1. Key!Power[0] = 1
    BY PowerIs
  <2>2. ASSUME NEW x \in Key!Bytes, x < 1 PROVE x = 0
    <3>1. x \in Nat
      BY <1>2
    <3> QED
      BY ONLY <2>2, <3>1
  <2> QED
    BY <1>1, <2>1, <2>2
<1>4. ASSUME NEW w \in 0 .. ByteBits - 1, w \in T PROVE w + 1 \in T
  <2>1. w \in 0 .. Key!WordBits - 1 /\ w + 1 \in 0 .. ByteBits /\ w \in 0 .. ByteBits
    BY <1>1, Widths DEF Key!WordBits
  <2>2. Key!Power[w] \in Nat /\ Key!Power[w + 1] = 2 * Key!Power[w]
    BY <2>1, PowerStep
  <2>3. ASSUME NEW x \in Key!Bytes, NEW y \in Key!Bytes, NEW z \in Key!Bytes,
               x < Key!Power[w + 1], y < Key!Power[w + 1], Key!Xors[w + 1][x][z] = Key!Xors[w + 1][y][z]
        PROVE  x = y
    <3> DEFINE p == Key!Xors[w][x \div 2][z \div 2]
               q == Key!Xors[w][y \div 2][z \div 2]
    <3>1. p \in Nat /\ q \in Nat
      BY <1>2, <2>1, <2>2, XorsIs
    <3>2. 2 * p + ((x + z) % 2) = 2 * q + ((y + z) % 2)
      BY <2>1, <2>3, XorsIs
    <3> HIDE DEF p, q
    <3>3. x \in Nat /\ y \in Nat /\ z \in Nat
      BY <1>2
    <3>4. p = q /\ x % 2 = y % 2
      BY ONLY <3>1, <3>2, <3>3
    <3>5. x \div 2 < Key!Power[w] /\ y \div 2 < Key!Power[w]
      BY <2>2, <2>3, <3>3
    <3>6. x \div 2 = y \div 2
      BY <1>2, <1>4, <3>4, <3>5 DEF p, q
    <3> QED
      BY <3>3, <3>4, <3>6
  <2> QED
    BY <2>1, <2>3
<1> HIDE DEF T
<1>5. \A w \in 0 .. ByteBits : w \in T
  BY <1>1, <1>3, <1>4, UpTo
<1>6. ByteBits \in T
  BY <1>1, <1>5
<1>7. a < Key!Power[ByteBits] /\ c < Key!Power[ByteBits]
  BY <1>1 DEF Key!Bytes, Key!ByteSize
<1> QED
  BY <1>6, <1>7 DEF T, Key!Xor

-----------------------------------------------------------------------------
(* The scrambled key *)

KeySessions == 0 .. Key!ByteSize * Key!ByteSize - 1

Mingled(k, session) == (Key!Reversed(k) + session) % Key!Words32

\* Remainders are bytes, quotients are numbers.
LEMMA ByteBytes ==
  ASSUME NEW n \in Nat
  PROVE  n % Key!ByteSize \in Key!Bytes /\ n \div Key!ByteSize \in Nat
BY ByteSizes, DivParts DEF Key!Bytes

\* A number's bytes are bytes.
LEMMA BytesAre ==
  ASSUME NEW n \in Nat
  PROVE  \A i \in 1 .. 4 : Key!BytesOf(n)[i] \in Key!Bytes
<1>1. n \div Key!ByteSize \in Nat
  BY ByteBytes
<1>2. (n \div Key!ByteSize) \div Key!ByteSize \in Nat
  BY <1>1, ByteBytes
<1>3. ((n \div Key!ByteSize) \div Key!ByteSize) \div Key!ByteSize \in Nat
  BY <1>2, ByteBytes
<1> QED
  BY <1>1, <1>2, <1>3, ByteBytes DEF Key!BytesOf

\* The constants are bytes.
LEMMA ConstantBytes ==
  /\ Key!Z \in Key!Bytes /\ Key!K \in Key!Bytes /\ Key!S \in Key!Bytes /\ Key!O \in Key!Bytes
  /\ Ticks % Key!ByteSize \in Key!Bytes
BY ByteBytes, KeyAssumption DEF Key!Z, Key!K, Key!S, Key!O

\* A mirrored key is a number.
LEMMA ReversedIsNat ==
  ASSUME NEW k \in Nat
  PROVE  Key!Reversed(k) \in Nat
BY ReversingIs, Widths DEF Key!Reversed

\* So is its sum with the session id.
LEMMA MingledIsNat ==
  ASSUME NEW k \in Nat, NEW session \in Nat
  PROVE  Mingled(k, session) \in Nat
<1>1. Key!Words32 \in Nat \ {0}
  BY PowerIs, Widths DEF Key!Words32
<1>2. Key!Reversed(k) + session \in Nat
  BY ReversedIsNat
<1> QED
  BY <1>1, <1>2, DivParts DEF Mingled

\* A scrambled key is four bytes.
LEMMA FourBytes ==
  ASSUME NEW k \in Nat, NEW session \in Nat
  PROVE  Key!MakeCommKey(k, session) \in [1 .. 4 -> Key!Bytes]
<1> DEFINE b == Key!BytesOf(Mingled(k, session))
           t == Ticks % Key!ByteSize
<1>1. \A i \in 1 .. 4 : b[i] \in Key!Bytes
  BY MingledIsNat, BytesAre
<1>2. t \in Key!Bytes
  BY ConstantBytes
<1>3. Key!MakeCommKey(k, session) =
        <<Key!Xor(Key!Xor(b[3], Key!S), t), Key!Xor(Key!Xor(b[4], Key!O), t), t, Key!Xor(Key!Xor(b[2], Key!K), t)>>
  BY DEF Key!MakeCommKey, Key!Mixed, Mingled
<1> HIDE DEF b, t
<1>4. Key!Xor(b[3], Key!S) \in Key!Bytes /\ Key!Xor(b[4], Key!O) \in Key!Bytes /\ Key!Xor(b[2], Key!K) \in Key!Bytes
  BY <1>1, ConstantBytes, XorByte
<1>5. Key!Xor(Key!Xor(b[3], Key!S), t) \in Key!Bytes /\ Key!Xor(Key!Xor(b[4], Key!O), t) \in Key!Bytes
      /\ Key!Xor(Key!Xor(b[2], Key!K), t) \in Key!Bytes
  BY <1>2, <1>4, XorByte
<1> QED
  BY <1>2, <1>3, <1>5

\* Three of the four bytes of what is mingled survive.
LEMMA BytesSurvive ==
  ASSUME NEW k \in Nat, NEW q \in Nat, NEW session \in Nat,
         Key!MakeCommKey(k, session) = Key!MakeCommKey(q, session)
  PROVE  \A i \in 2 .. 4 :
           Key!BytesOf(Mingled(k, session))[i] = Key!BytesOf(Mingled(q, session))[i]
<1> DEFINE b == Key!BytesOf(Mingled(k, session))
           c == Key!BytesOf(Mingled(q, session))
           t == Ticks % Key!ByteSize
<1>1. \A i \in 1 .. 4 : b[i] \in Key!Bytes /\ c[i] \in Key!Bytes
  BY MingledIsNat, BytesAre
<1>2. t \in Key!Bytes
  BY ConstantBytes
<1>3. /\ Key!MakeCommKey(k, session)[1] = Key!Xor(Key!Xor(b[3], Key!S), t)
      /\ Key!MakeCommKey(k, session)[2] = Key!Xor(Key!Xor(b[4], Key!O), t)
      /\ Key!MakeCommKey(k, session)[4] = Key!Xor(Key!Xor(b[2], Key!K), t)
      /\ Key!MakeCommKey(q, session)[1] = Key!Xor(Key!Xor(c[3], Key!S), t)
      /\ Key!MakeCommKey(q, session)[2] = Key!Xor(Key!Xor(c[4], Key!O), t)
      /\ Key!MakeCommKey(q, session)[4] = Key!Xor(Key!Xor(c[2], Key!K), t)
  BY DEF Key!MakeCommKey, Key!Mixed, Mingled
<1> HIDE DEF b, c, t
<1>4. /\ Key!Xor(Key!Xor(b[3], Key!S), t) = Key!Xor(Key!Xor(c[3], Key!S), t)
      /\ Key!Xor(Key!Xor(b[4], Key!O), t) = Key!Xor(Key!Xor(c[4], Key!O), t)
      /\ Key!Xor(Key!Xor(b[2], Key!K), t) = Key!Xor(Key!Xor(c[2], Key!K), t)
  BY <1>3
<1>5. /\ Key!Xor(b[3], Key!S) \in Key!Bytes /\ Key!Xor(b[4], Key!O) \in Key!Bytes /\ Key!Xor(b[2], Key!K) \in Key!Bytes
      /\ Key!Xor(c[3], Key!S) \in Key!Bytes /\ Key!Xor(c[4], Key!O) \in Key!Bytes /\ Key!Xor(c[2], Key!K) \in Key!Bytes
  BY <1>1, ConstantBytes, XorByte
<1>6. Key!Xor(b[3], Key!S) = Key!Xor(c[3], Key!S) /\ Key!Xor(b[4], Key!O) = Key!Xor(c[4], Key!O) /\ Key!Xor(b[2], Key!K) = Key!Xor(c[2], Key!K)
  BY <1>2, <1>4, <1>5, XorApart
<1>7. b[3] = c[3] /\ b[4] = c[4] /\ b[2] = c[2]
  BY <1>1, <1>6, ConstantBytes, XorApart
<1> QED
  BY <1>7 DEF b, c

\* They are what is left of it above its lowest byte.
LEMMA UpperBytes ==
  ASSUME NEW x \in Nat, NEW y \in Nat, x < Key!Words32, y < Key!Words32,
         \A i \in 2 .. 4 : Key!BytesOf(x)[i] = Key!BytesOf(y)[i]
  PROVE  x \div Key!ByteSize = y \div Key!ByteSize
<1> DEFINE B == Key!ByteSize
           x1 == x \div B
           x2 == x1 \div B
           x3 == x2 \div B
           y1 == y \div B
           y2 == y1 \div B
           y3 == y2 \div B
<1>1. B \in Nat \ {0} /\ B * B \in Nat /\ B * (B * B) \in Nat
      /\ x < B * (B * (B * B)) /\ y < B * (B * (B * B))
  BY ByteSizes
<1>2. Key!BytesOf(x)[2] = x1 % B /\ Key!BytesOf(x)[3] = x2 % B /\ Key!BytesOf(x)[4] = x3 % B
  BY DEF Key!BytesOf
<1>3. Key!BytesOf(y)[2] = y1 % B /\ Key!BytesOf(y)[3] = y2 % B /\ Key!BytesOf(y)[4] = y3 % B
  BY DEF Key!BytesOf
<1>4. x1 % B = y1 % B /\ x2 % B = y2 % B /\ x3 % B = y3 % B
  BY <1>2, <1>3
<1> HIDE DEF B
<1>5. x1 \in Nat /\ y1 \in Nat /\ x1 < B * (B * B) /\ y1 < B * (B * B)
  BY <1>1, DivParts, DivBelow
<1> HIDE DEF x1, y1
<1>6. x2 \in Nat /\ y2 \in Nat /\ x2 < B * B /\ y2 < B * B
      /\ x1 = B * x2 + (x1 % B) /\ y1 = B * y2 + (y1 % B)
  BY <1>1, <1>5, DivParts, DivBelow
<1> HIDE DEF x2, y2
<1>7. x3 \in Nat /\ y3 \in Nat /\ x3 < B /\ y3 < B
      /\ x2 = B * x3 + (x2 % B) /\ y2 = B * y3 + (y2 % B)
  BY <1>1, <1>6, DivParts, DivBelow
<1> HIDE DEF x3, y3
<1>8. x3 % B = x3 /\ y3 % B = y3
  BY <1>1, <1>7
<1>9. x3 = y3
  BY <1>4, <1>8
<1>10. x2 = y2
  BY <1>4, <1>7, <1>9
<1>11. x1 = y1
  BY <1>4, <1>6, <1>10
<1> QED
  BY <1>11 DEF x1, y1, B

\* The session id's upper byte is added to the three bytes of the key; its
\* lower byte meets only zeros.
LEMMA MingledUpper ==
  ASSUME NEW k \in Nat, k < Key!Power[3 * ByteBits], NEW session \in KeySessions
  PROVE  /\ Mingled(k, session) \in Nat /\ Mingled(k, session) < Key!Words32
         /\ Mingled(k, session) \div Key!ByteSize =
              (Key!Reversing(k)[3 * ByteBits] + session \div Key!ByteSize) % Key!Power[3 * ByteBits]
<1> DEFINE B == Key!ByteSize
           C == Key!Power[3 * ByteBits]
           r == Key!Reversing(k)[3 * ByteBits]
           h == session \div B
           l == session % B
           q == (r + h) \div C
           d == (r + h) % C
<1>1. B \in Nat \ {0} /\ C \in Nat \ {0} /\ Key!Words32 = B * C
  BY ByteSizes
<1>2. r \in Nat /\ Key!Reversed(k) = B * r
  BY <1>1, ReversedBytes
<1>3. session \in Nat
  BY <1>1 DEF KeySessions
<1> HIDE DEF B, C, r
<1>4. h \in Nat /\ l \in 0 .. B - 1 /\ session = B * h + l
  BY <1>1, <1>3, DivParts
<1> HIDE DEF h, l
<1>5. r + h \in Nat
  BY <1>2, <1>4
<1>6. q \in Nat /\ d \in 0 .. C - 1 /\ r + h = C * q + d
  BY <1>1, <1>5, DivParts
<1> HIDE DEF q, d
<1> DEFINE n == B * d + l
<1>7. n \in Nat
  BY <1>1, <1>4, <1>6
<1>8. n < B * C
  <2>1. \A t \in Nat : B * t >= 0
    BY <1>1
  <2>2. C - 1 - d \in Nat
    BY <1>1, <1>6
  <2>3. B * (C - 1 - d) >= 0
    BY <2>1, <2>2
  <2>4. B * (C - 1 - d) = B * C - B - B * d
    BY <1>1, <1>6
  <2>5. B * C \in Int /\ B * d \in Int
    BY <1>1, <1>6
  <2> QED
    BY <1>1, <1>4, <2>3, <2>4, <2>5
<1>9. Key!Reversed(k) + session = (B * C) * q + n
  <2>1. Key!Reversed(k) + session = B * r + (B * h + l)
    BY <1>2, <1>4
  <2>2. B * r + (B * h + l) = B * (r + h) + l
    BY <1>1, <1>2, <1>4
  <2>3. B * (r + h) = B * (C * q + d)
    BY <1>6
  <2>4. B * (C * q + d) = (B * C) * q + B * d
    BY <1>1, <1>6
  <2>5. B * C \in Int /\ (B * C) * q \in Int /\ B * d \in Int
    BY <1>1, <1>6
  <2> QED
    BY <1>4, <2>1, <2>2, <2>3, <2>4, <2>5
<1>10. n = B * d + l
  OBVIOUS
<1> HIDE DEF n
<1>11. Mingled(k, session) = n
  <2> DEFINE w == B * C
             x == Key!Reversed(k) + session
  <2>1. w \in Nat \ {0}
    BY <1>1
  <2>2. n \in 0 .. w - 1
    BY <1>7, <1>8, <2>1
  <2>3. x \in Nat /\ x = w * q + n
    BY <1>3, <1>9, ReversedIsNat
  <2>4. Mingled(k, session) = x % w
    BY <1>1 DEF Mingled
  <2> HIDE DEF w, x
  <2>5. x % w = n
    <3>1. q \in Int
      BY <1>6
    <3> QED
      BY ONLY <2>1, <2>2, <2>3, <3>1, Quotient
  <2> QED
    BY <2>4, <2>5
<1>12. n \div B = d
  <2>1. d \in Int
    BY <1>6
  <2> QED
    BY <1>1, <1>4, <1>7, <1>10, <2>1, Quotient
<1> QED
  BY <1>1, <1>7, <1>8, <1>11, <1>12 DEF d, h, r, B, C

\* Equal remainders come of equal numbers when what differs is below the divisor.
LEMMA SameResidue ==
  ASSUME NEW c \in Nat \ {0}, NEW x \in 0 .. c - 1, NEW y \in 0 .. c - 1, NEW h \in Nat,
         (x + h) % c = (y + h) % c
  PROVE  x = y
<1> DEFINE u == (x + h) \div c
           v == (y + h) \div c
           d == (x + h) % c
<1>1. x + h \in Nat /\ y + h \in Nat
  OBVIOUS
<1>2. u \in Nat /\ v \in Nat /\ d \in Nat /\ x + h = c * u + d /\ y + h = c * v + d
  <2> DEFINE xh == x + h
             yh == y + h
  <2>1. xh \in Nat /\ yh \in Nat /\ xh % c = yh % c
    BY <1>1
  <2> HIDE DEF xh, yh
  <2>2. /\ xh \div c \in Nat /\ xh % c \in 0 .. c - 1 /\ xh = c * (xh \div c) + (xh % c)
        /\ yh \div c \in Nat /\ yh = c * (yh \div c) + (yh % c)
    <3>1. c \in Nat \ {0}
      OBVIOUS
    <3> QED
      BY ONLY <2>1, <3>1, DivParts
  <2>3. yh = c * (yh \div c) + (xh % c)
    BY <2>1, <2>2
  <2> QED
    BY <2>2, <2>3 DEF xh, yh
<1> HIDE DEF u, v, d
<1>3. x - y = c * (u - v)
  BY <1>2
<1>4. \A t \in Int : (t >= 1 => c * t >= c) /\ (t <= -1 => c * t <= -c)
  OBVIOUS
<1>5. u - v \in Int /\ x - y < c /\ x - y > -c
  BY <1>2
<1>6. u - v = 0
  BY <1>3, <1>4, <1>5
<1> QED
  BY <1>3, <1>6

\* What the scrambled keys have in common decides the key.
LEMMA KeysApart ==
  ASSUME NEW k \in Nat, NEW q \in Nat, k < Key!Power[3 * ByteBits], q < Key!Power[3 * ByteBits],
         NEW session \in KeySessions, Key!MakeCommKey(k, session) = Key!MakeCommKey(q, session)
  PROVE  k = q
<1> DEFINE C == Key!Power[3 * ByteBits]
           h == session \div Key!ByteSize
           x == Key!Reversing(k)[3 * ByteBits]
           y == Key!Reversing(q)[3 * ByteBits]
<1>1. session \in Nat /\ h \in Nat
  <2>1. session \in Nat
    BY ByteSizes DEF KeySessions
  <2> QED
    BY <2>1, ByteBytes
<1>2. Mingled(k, session) \div Key!ByteSize = Mingled(q, session) \div Key!ByteSize
  BY <1>1, BytesSurvive, MingledUpper, UpperBytes
<1>3. (x + h) % C = (y + h) % C
  BY <1>2, MingledUpper
<1>4. x \in 0 .. C - 1 /\ y \in 0 .. C - 1
  BY ReversedBytes
<1>5. C \in Nat \ {0}
  BY ByteSizes
<1> HIDE DEF C, h, x, y
<1>6. x = y
  BY <1>1, <1>3, <1>4, <1>5, SameResidue
<1> QED
  BY <1>6, ReversedApart DEF x, y

-----------------------------------------------------------------------------
(* CommKey: the handshake *)

Keyed ==
  /\ keyPc \in {"connect", "auth", "verdict"} => password \in Nat
  /\ keyPc \in {"auth", "verdict"} => key # 0
  /\ keyPc # "done" => outcome = "none"
  /\ keyPc = "verdict" => payload = Key!MakeCommKey(password, sessionID)
  /\ outcome = "connected" /\ key # 0 =>
       /\ password \in Nat
       /\ Key!MakeCommKey(password, sessionID) = Key!MakeCommKey(key, sessionID)

KeyIInv == Key!TypeOK /\ Keyed

LEMMA KeyInitial == Key!Init => KeyIInv
<1> SUFFICES ASSUME Key!Init PROVE KeyIInv
  OBVIOUS
<1>1. 0 \in KeySessions
  BY ByteSizes DEF KeySessions
<1> QED
  BY <1>1, KeyAssumption DEF Key!Init, KeyIInv, Key!TypeOK, Keyed, KeySessions

LEMMA KeyInductive == KeyIInv /\ [Key!Next]_(Key!vars) => KeyIInv'
<1> SUFFICES ASSUME KeyIInv, [Key!Next]_(Key!vars) PROVE KeyIInv'
  OBVIOUS
<1> USE KeyAssumption
<1>1. CASE Key!ParseCommKey
  <2>1. /\ keyPc = "parse"
        /\ UNCHANGED <<password, key, sessionID, payload>>
    BY <1>1 DEF Key!ParseCommKey
  <2>4. password \in Int
    <3>1. password \in -MaxKey .. MaxKey
      BY DEF KeyIInv, Key!TypeOK
    <3> QED
      BY ONLY <3>1, KeyAssumption
  <2>2. CASE password >= 0
    <3>1. keyPc' = "connect" /\ outcome' = outcome /\ password' \in Nat
      BY <1>1, <2>1, <2>2, <2>4 DEF Key!ParseCommKey, Key!Valid
    <3> QED
      BY <2>1, <3>1 DEF KeyIInv, Key!TypeOK, Keyed
  <2>3. CASE ~(password >= 0)
    <3>1. keyPc' = "done" /\ outcome' = "invalid"
      BY <1>1, <2>3 DEF Key!ParseCommKey, Key!Valid
    <3> QED
      BY <2>1, <3>1 DEF KeyIInv, Key!TypeOK, Keyed
  <2> QED
    BY <2>2, <2>3
<1>2. CASE Key!ConnectReturns
  BY <1>2 DEF Key!ConnectReturns, KeyIInv, Key!TypeOK, Keyed
<1>3. CASE Key!Authenticate
  <2>1. sessionID \in Nat /\ password \in Nat
    BY <1>3, ByteSizes DEF Key!Authenticate, KeyIInv, Key!TypeOK, Keyed
  <2>2. Key!MakeCommKey(password, sessionID) \in [1 .. 4 -> Key!Bytes]
    BY <2>1, FourBytes
  <2> QED
    BY <1>3, <2>2 DEF Key!Authenticate, KeyIInv, Key!TypeOK, Keyed
<1>4. CASE Key!AuthReturns
  BY <1>4 DEF Key!AuthReturns, KeyIInv, Key!TypeOK, Keyed
<1>5. CASE UNCHANGED Key!vars
  BY <1>5 DEF Key!vars, KeyIInv, Key!TypeOK, Keyed
<1> QED
  BY <1>1, <1>2, <1>3, <1>4, <1>5 DEF Key!Next, Key!Done

LEMMA KeyImplied == KeyIInv => Key!KeysToldApart
<1> SUFFICES ASSUME KeyIInv, outcome = "connected", key # 0,
                    password < Key!Power[3 * ByteBits], key < Key!Power[3 * ByteBits]
             PROVE  password = key
  BY DEF Key!KeysToldApart
<1>1. /\ password \in Nat /\ key \in Nat /\ sessionID \in KeySessions
      /\ Key!MakeCommKey(password, sessionID) = Key!MakeCommKey(key, sessionID)
  BY KeyAssumption DEF KeyIInv, Key!TypeOK, Keyed, KeySessions
<1> QED
  BY <1>1, KeysApart

-----------------------------------------------------------------------------
(* MCWire as a whole *)

\* Each step is one of one part, and leaves the others alone.
LEMMA WirePartSteps ==
  [MCNext]_<<part, vars, readerVars, keyVars>>
    => [ReaderNext]_readerVars /\ [Key!Next]_(Key!vars)
BY DEF MCNext, PacketStep, ReaderStep, KeyStep, keyVars, Key!vars

LEMMA PartsInvariant == MCSpec => [](ReaderIInv /\ KeyIInv)
<1>1. MCInit => ReaderIInv /\ KeyIInv
  BY ReaderInitial, KeyInitial DEF MCInit
<1>2. ReaderIInv /\ KeyIInv /\ [MCNext]_<<part, vars, readerVars, keyVars>>
        => (ReaderIInv /\ KeyIInv)'
  BY WirePartSteps, ReaderInductive, KeyInductive
<1> QED
  BY <1>1, <1>2, PTL DEF MCSpec

\* The reader never gets more than has arrived, and a scrambled key is four
\* bytes, for every width of a byte (readFrame, makeCommKey).
THEOREM WirePartsTypeCorrect == MCSpec => []PartsTypeOK
<1>1. ReaderIInv /\ KeyIInv => PartsTypeOK
  BY DEF ReaderIInv, KeyIInv, PartsTypeOK
<1> QED
  BY <1>1, PartsInvariant, PTL

\* For every width of a byte and every number of ticks, keys of up to three
\* bytes are told apart, although makeCommKey throws a byte of them away
\* (proto.go:173).
THEOREM KeysAreToldApart == MCSpec => []KeysToldApart
<1>1. KeyIInv => KeysToldApart
  BY KeyImplied DEF KeysToldApart
<1> QED
  BY <1>1, PartsInvariant, PTL


=============================================================================
