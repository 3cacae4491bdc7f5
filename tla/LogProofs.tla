----------------------------- MODULE LogProofs -----------------------------
(***************************************************************************)
(* Theorems about what becomes of a log that was read (MCLog): for any     *)
(* number of records and every value of the bytes that the framing is      *)
(* guessed from (RecordGrid), for texts of any length and any width of an  *)
(* int (RecordFields), and for any number of punches, whatever the clocks  *)
(* show (LogPages).  Those about TimeCodec are in TimeCodecProofs; here    *)
(* they are carried over.                                                  *)
(***************************************************************************)
EXTENDS MCLog, FiniteSetTheorems, SequenceTheorems, NaturalsInduction,
        WellFoundedInduction, TLAPS

\* A payload of m records of r bytes divides evenly in both directions.
LEMMA EvenGrid ==
  ASSUME NEW m \in Nat \ {0}, NEW r \in RecordSizes
  PROVE  /\ m * r \in Nat \ {0} /\ m * r >= r
         /\ (m * r) % m = 0 /\ (m * r) \div m = r
         /\ (m * r) % r = 0 /\ (m * r) \div r = m
<1>1. r \in {8, 16, 40}
  BY DEF RecordSizes
<1>2. m * r \in Nat \ {0} /\ m * r >= r
  BY <1>1
<1>3. (m * r) % m = 0 /\ (m * r) \div m = r
  BY <1>1, SMTT(30)
<1>4. (m * r) % r = 0 /\ (m * r) \div r = m
  BY <1>1, SMTT(30)
<1> QED
  BY <1>2, <1>3, <1>4

LEMMA FirstChoiceType ==
  ASSUME NEW sizes \in SUBSET RecordSizes, NEW flag \in BOOLEAN
  PROVE  FirstChoice(sizes, flag) \in RecordSizes \cup {0}
BY DEF FirstChoice, RecordSizes

LEMMA RecordSizeType ==
  ASSUME NEW len \in Nat, NEW word \in Nat, NEW m \in Nat, NEW flag \in BOOLEAN
  PROVE  RecordSize(len, word, m, flag) \in RecordSizes \cup {0}
<1>1. ASSUME NEW body
      PROVE  Guess(body, m, flag) \in RecordSizes \cup {0}
  <2> DEFINE fitting == {g \in RecordSizes : Fits(g, body)}
             agreeing == {g \in fitting : m > 0 /\ body \div g = m}
             sizes == IF agreeing # {} THEN agreeing ELSE fitting
  <2>1. sizes \in SUBSET RecordSizes
    OBVIOUS
  <2>2. FirstChoice(sizes, flag) \in RecordSizes \cup {0}
    BY <2>1, FirstChoiceType
  <2> QED
    BY <2>2 DEF Guess
<1> QED
  BY <1>1 DEF RecordSize, DetectSize

-----------------------------------------------------------------------------
(* The inductive invariant: what a payload says about the records it was   *)
(* made of, what disabling the device says about the count, and that the   *)
(* results are those of the payload.  The number of parsed records has its *)
(* type only because a payload holds at least its blank records.           *)

PayloadInv ==
  phase \in {"parse", "done"} =>
    /\ payload.framed => payload.word = payload.holds * dialect
    /\ payload.complete =>
         payload.len = payload.holds * dialect + IF payload.framed THEN 4 ELSE 0
    /\ blank <= payload.holds

CountInv ==
  disabled =>
    /\ phase = "read" => counted \in {0, records}
    /\ phase \in {"parse", "done"} => counted \in {0, payload.holds}

ResultInv ==
  phase = "done" =>
    /\ size = RecordSize(payload.len, payload.word, counted, looks)
    /\ parsed \in Parsable(size)
    /\ mismatch = MismatchFlag(size, counted, parsed)

GridIInv == TypeOK /\ PayloadInv /\ CountInv /\ ResultInv

\* The body of a whole payload, when the prefix was recognised for what it is.
LEMMA WholeBody ==
  ASSUME TypeOK, PayloadInv, phase \in {"parse", "done"}, payload.complete,
         payload.framed = LooksFramed(payload.len, payload.word)
  PROVE  BodyLen(payload.len, payload.word) = payload.holds * dialect
<1>1. payload.holds * dialect \in Nat
  BY DEF TypeOK, Payloads, RecordSizes
<1> QED
  BY <1>1 DEF BodyLen, PrefixLen, PayloadInv

LEMMA ParsableType ==
  ASSUME TypeOK, PayloadInv, phase = "parse", NEW grid \in RecordSizes \cup {0},
         grid = RecordSize(payload.len, payload.word, counted, looks)
  PROVE  Parsable(grid) \subseteq Nat
<1> DEFINE body == BodyLen(payload.len, payload.word)
           slots == body \div grid
<1>1. /\ payload.len \in Nat /\ payload.word \in Nat /\ payload.holds \in Nat
      /\ blank \in Nat /\ blank <= payload.holds /\ dialect \in RecordSizes
  BY DEF TypeOK, Payloads, PayloadInv
<1>2. CASE grid = 0
  BY <1>2 DEF Parsable
<1>3. ASSUME grid = dialect, payload.complete,
             payload.framed = LooksFramed(payload.len, payload.word)
      PROVE  slots = payload.holds
  <2>1. body = payload.holds * dialect
    BY <1>3, WholeBody
  <2>2. body # 0
    BY <1>1, <1>3 DEF RecordSize, RecordSizes
  <2>3. payload.holds # 0
    BY <1>1, <2>1, <2>2 DEF RecordSizes
  <2> QED
    BY <1>1, <1>3, <2>1, <2>3, EvenGrid
<1>4. CASE grid # 0
  <2>1. body \in Int
    BY <1>1 DEF BodyLen, PrefixLen
  <2>2. slots \in Int
    BY <1>4, <2>1 DEF RecordSizes
  <2>3. 0 .. slots \subseteq Nat
    BY <2>2
  <2>4. ASSUME grid = dialect, payload.complete,
               payload.framed = LooksFramed(payload.len, payload.word)
        PROVE  slots - blank \in Nat
    BY <1>1, <1>3, <2>4
  <2> QED
    BY <1>4, <2>3, <2>4 DEF Parsable
<1> QED
  BY <1>2, <1>4

LEMMA ReadStep ==
  ASSUME GridIInv, ReadChunked
  PROVE  GridIInv'
<1>1. PICK framed \in BOOLEAN, w \in FirstWords :
        \E units \in 0 .. (records * dialect + IF framed THEN 4 ELSE 0) \div 4 :
          payload' = [len |-> 4 * units,
                      word |-> IF framed THEN records * dialect ELSE w,
                      holds |-> records, framed |-> framed,
                      complete |-> 4 * units
                        = records * dialect + IF framed THEN 4 ELSE 0]
  BY DEF ReadChunked, PrefixLen
<1>2. w \in Nat /\ records * dialect \in Nat /\ records \in Nat
  BY GridAssumption DEF GridIInv, TypeOK, RecordSizes
<1>3. payload' \in Payloads
  BY <1>1, <1>2 DEF Payloads
<1>4. TypeOK'
  BY <1>3 DEF ReadChunked, GridIInv, TypeOK
<1>5. PayloadInv'
  <2> DEFINE body == records * dialect
  <2>1. /\ payload'.framed = framed
        /\ framed => payload'.word = body
        /\ payload'.holds = records
        /\ payload'.complete
             = (payload'.len = body + IF framed THEN 4 ELSE 0)
    BY <1>1
  <2>2. payload'.framed => payload'.word = payload'.holds * dialect
    BY <2>1
  <2>3. payload'.complete =>
          payload'.len = payload'.holds * dialect + IF payload'.framed THEN 4 ELSE 0
    BY <2>1
  <2>4. blank <= payload'.holds /\ dialect' = dialect /\ blank' = blank
    BY <2>1 DEF ReadChunked, GridIInv, TypeOK
  <2> QED
    BY <2>2, <2>3, <2>4 DEF PayloadInv
<1>6. CountInv'
  BY <1>1 DEF ReadChunked, GridIInv, CountInv
<1> QED
  BY <1>4, <1>5, <1>6 DEF ReadChunked, GridIInv, ResultInv

LEMMA ParseStep ==
  ASSUME GridIInv, ParseLogs
  PROVE  GridIInv'
<1>1. payload.len \in Nat /\ payload.word \in Nat
  BY DEF GridIInv, TypeOK, Payloads
<1>2. size' \in RecordSizes \cup {0}
  BY <1>1, RecordSizeType DEF ParseLogs, GridIInv, TypeOK
<1>3. parsed' \in Nat
  BY <1>2, ParsableType DEF ParseLogs, GridIInv
<1>4. TypeOK'
  BY <1>2, <1>3 DEF ParseLogs, MismatchFlag, GridIInv, TypeOK
<1>5. PayloadInv' /\ CountInv'
  BY DEF ParseLogs, GridIInv, PayloadInv, CountInv
<1>6. ResultInv'
  BY DEF ParseLogs, Parsable, ResultInv
<1> QED
  BY <1>4, <1>5, <1>6 DEF GridIInv

LEMMA GridKept == GridIInv /\ [Next]_vars => GridIInv'
<1> SUFFICES ASSUME GridIInv, [Next]_vars PROVE GridIInv'
  OBVIOUS
<1>1. CASE Punch
  BY <1>1 DEF Punch, GridIInv, TypeOK, PayloadInv, CountInv, ResultInv
<1>2. CASE DisableDevice
  BY <1>2 DEF DisableDevice, GridIInv, TypeOK, PayloadInv, CountInv, ResultInv
<1>3. CASE ReadRecords
  BY <1>3 DEF ReadRecords, GridIInv, TypeOK, PayloadInv, CountInv, ResultInv
<1>4. CASE ReadChunked
  BY <1>4, ReadStep
<1>5. CASE ParseLogs
  BY <1>5, ParseStep
<1>6. CASE UNCHANGED vars
  <2>1. Parsable(size)' = Parsable(size)
    BY <1>6 DEF vars, Parsable
  <2>2. ResultInv'
    BY <1>6, <2>1 DEF vars, GridIInv, ResultInv
  <2> QED
    BY <1>6, <2>2 DEF vars, GridIInv, TypeOK, PayloadInv, CountInv
<1> QED
  BY <1>1, <1>2, <1>3, <1>4, <1>5, <1>6 DEF Next, Finished

LEMMA GridInit == Init => GridIInv
<1> SUFFICES ASSUME Init PROVE GridIInv
  OBVIOUS
<1>1. NoPayload \in Payloads
  BY DEF NoPayload, Payloads
<1>2. TypeOK
  <2>1. payload \in Payloads
    BY <1>1 DEF Init
  <2>2. records \in Nat /\ blank \in Nat /\ blank <= records
    BY GridAssumption DEF Init
  <2>3. disabled \in BOOLEAN /\ looks \in BOOLEAN /\ mismatch \in BOOLEAN
    BY DEF Init
  <2>4. counted \in Nat /\ parsed \in Nat /\ size \in RecordSizes \cup {0}
    BY DEF Init
  <2>5. /\ dialect \in RecordSizes
        /\ phase \in {"disable", "count", "read", "parse", "done"}
    BY DEF Init
  <2> QED
    BY <2>1, <2>2, <2>3, <2>4, <2>5 DEF TypeOK
<1> QED
  BY <1>2 DEF Init, GridIInv, PayloadInv, CountInv, ResultInv

\* The record size is 8, 16, 40 or none, whatever the payload and the count.
THEOREM GridTypeCorrect == Spec => []TypeOK
  BY GridInit, GridKept, PTL DEF Spec, GridIInv

-----------------------------------------------------------------------------
(* The grid of a whole payload whose count is right *)

LEMMA ExactSize ==
  ASSUME NEW m \in Nat \ {0}, NEW r \in RecordSizes, NEW word \in Nat,
         NEW flag \in BOOLEAN, NEW framed \in BOOLEAN, NEW len \in Nat,
         framed => word = m * r,
         len = m * r + IF framed THEN 4 ELSE 0,
         framed \/ ~LooksFramed(len, word)
  PROVE  framed = LooksFramed(len, word) /\ RecordSize(len, word, m, flag) = r
<1>1. m * r \in Nat \ {0} /\ m * r >= r /\ (m * r) % m = 0 /\ (m * r) \div m = r
  BY EvenGrid
<1> DEFINE bytes == m * r
<1>2. /\ DetectSize(bytes, bytes, m, flag) = r
      /\ DetectSize(bytes, 0, m, flag) = r
  BY <1>1 DEF DetectSize
<1>3. ASSUME framed = TRUE
      PROVE  LooksFramed(len, word) /\ RecordSize(len, word, m, flag) = r
  <2>1. word = bytes /\ len = bytes + 4
    BY <1>3
  <2>2. LooksFramed(len, word)
    BY <1>1, <2>1 DEF LooksFramed, PrefixLen
  <2>3. BodyLen(len, word) = bytes /\ TotalSize(len, word) = bytes
    BY <1>1, <2>1, <2>2 DEF BodyLen, TotalSize, PrefixLen
  <2> QED
    BY <1>1, <1>2, <2>2, <2>3 DEF RecordSize
<1>4. ASSUME framed = FALSE
      PROVE  ~LooksFramed(len, word) /\ RecordSize(len, word, m, flag) = r
  <2>1. len = bytes /\ ~LooksFramed(len, word)
    BY <1>1, <1>4
  <2>2. BodyLen(len, word) = bytes /\ TotalSize(len, word) = 0
    BY <2>1 DEF BodyLen, TotalSize
  <2> QED
    BY <1>1, <1>2, <2>1, <2>2 DEF RecordSize
<1>5. LooksFramed(len, word) \in BOOLEAN
  BY DEF LooksFramed
<1> QED
  BY <1>3, <1>4, <1>5

\* Bare records whose first word is taken for the prefix: less than a multiple
\* of four bytes of the body are left, so no guess fits, and the word divided by
\* the count is a record size only if it is the device's.
LEMMA ShiftedSize ==
  ASSUME NEW m \in Nat \ {0}, NEW r \in RecordSizes, NEW word \in Nat,
         NEW flag \in BOOLEAN, NEW len \in Nat,
         len = m * r, LooksFramed(len, word)
  PROVE  /\ BodyLen(len, word) = m * r - 4
         /\ RecordSize(len, word, m, flag) \in {0, r}
<1> DEFINE body == m * r - 4
<1>1. /\ m * r \in Nat \ {0} /\ m * r >= r /\ r \in {8, 16, 40} /\ (m * r) % 8 = 0
  <2>1. m * r \in Nat \ {0} /\ m * r >= r /\ r \in {8, 16, 40}
    BY EvenGrid DEF RecordSizes
  <2>2. m * 8 \in Nat /\ (m * 8) % 8 = 0 /\ (m * 16) % 8 = 0 /\ (m * 40) % 8 = 0
    OBVIOUS
  <2> QED
    BY <2>1, <2>2
<1>2. word \in Nat /\ word > 0 /\ word <= m * r /\ word >= m * r - 4
  BY <1>1 DEF LooksFramed, PrefixLen
<1>3. BodyLen(len, word) = body /\ TotalSize(len, word) = word /\ body \in Nat \ {0}
  BY <1>1 DEF BodyLen, TotalSize, PrefixLen
<1>4. body % 8 = 4
  BY <1>1, SMTT(30)
<1>5. \A g \in RecordSizes : ~Fits(g, body)
  <2>1. body % 8 # 0 /\ body % 16 # 0 /\ body % 40 # 0
    <3> HIDE DEF body
    <3> QED
      BY <1>3, <1>4
  <2> QED
    BY <2>1 DEF Fits, RecordSizes
<1>6. Guess(body, m, flag) = 0
  <2> DEFINE fitting == {g \in RecordSizes : Fits(g, body)}
             agreeing == {g \in fitting : m > 0 /\ body \div g = m}
  <2>1. fitting = {} /\ agreeing = {}
    BY <1>5
  <2>2. Guess(body, m, flag) = FirstChoice({}, flag)
    BY <2>1 DEF Guess
  <2> QED
    BY <2>2 DEF FirstChoice
<1>7. ASSUME word % m = 0, word \div m \in RecordSizes
      PROVE  word \div m = r
  <2> DEFINE q == word \div m
  <2>1. q \in {8, 16, 40}
    BY <1>7 DEF RecordSizes
  <2>2. word = q * m
    <3> DEFINE rest == word % m
    <3>1. word = m * q + rest /\ rest = 0
      BY ONLY <1>2, <1>7, m \in Nat \ {0}
    <3> HIDE DEF q, rest
    <3> QED
      BY ONLY <2>1, <3>1, m \in Nat \ {0}
  <2> HIDE DEF q
  <2>3. q = r
    BY ONLY <1>1, <1>2, <2>1, <2>2, m \in Nat \ {0}
  <2> QED
    BY <2>3 DEF q
<1>8. DetectSize(body, word, m, flag) \in {0, r}
  BY <1>2, <1>6, <1>7 DEF DetectSize
<1> HIDE DEF body
<1>9. RecordSize(len, word, m, flag) \in {0, r}
  BY <1>3, <1>8 DEF RecordSize
<1> QED
  BY <1>3, <1>9 DEF body

\* The grid of a whole payload that is taken as it was sent.
LEMMA ExactGrid ==
  ASSUME GridIInv, phase = "done", payload.complete, TakenAsSent,
         counted = payload.holds, payload.holds \in Nat \ {0}
  PROVE  /\ size = dialect
         /\ parsed = counted - blank
         /\ mismatch <=> blank > 0
<1> DEFINE m == payload.holds
<1>1. /\ payload.len \in Nat /\ payload.word \in Nat
      /\ payload.framed \in BOOLEAN /\ looks \in BOOLEAN
      /\ dialect \in RecordSizes /\ blank \in Nat /\ mismatch \in BOOLEAN
  BY DEF GridIInv, TypeOK, Payloads
<1>2. /\ payload.framed = LooksFramed(payload.len, payload.word)
      /\ RecordSize(payload.len, payload.word, m, looks) = dialect
  <2>1. /\ payload.framed => payload.word = m * dialect
        /\ payload.len = m * dialect + IF payload.framed THEN 4 ELSE 0
    BY DEF GridIInv, PayloadInv
  <2>2. payload.framed \/ ~LooksFramed(payload.len, payload.word)
    BY DEF TakenAsSent
  <2> QED
    BY <1>1, <2>1, <2>2, ExactSize
<1>3. size = dialect
  BY <1>2 DEF GridIInv, ResultInv
<1>4. BodyLen(payload.len, payload.word) \div size = m
  <2>1. BodyLen(payload.len, payload.word) = m * dialect
    BY <1>2, WholeBody DEF GridIInv
  <2> QED
    BY <1>1, <1>3, <2>1, EvenGrid
<1>5. size # 0
  BY <1>1, <1>3 DEF RecordSizes
<1>6. parsed = m - blank
  BY <1>2, <1>3, <1>4, <1>5 DEF GridIInv, ResultInv, Parsable
<1>7. mismatch = (parsed # m)
  BY <1>5 DEF GridIInv, ResultInv, MismatchFlag
<1>8. (parsed # m) <=> blank > 0
  BY <1>1, <1>6
<1> QED
  BY <1>3, <1>6, <1>7, <1>8, Zenon

\* That of one whose first user id is taken for the prefix.
LEMMA ShiftedGrid ==
  ASSUME GridIInv, phase = "done", payload.complete, ~TakenAsSent,
         counted = payload.holds, payload.holds \in Nat \ {0}
  PROVE  parsed < counted /\ (parsed > 0 => mismatch)
<1> DEFINE m == payload.holds
           slots == BodyLen(payload.len, payload.word) \div size
<1>1. /\ payload.len \in Nat /\ payload.word \in Nat
      /\ payload.framed = FALSE /\ looks \in BOOLEAN /\ dialect \in RecordSizes
      /\ LooksFramed(payload.len, payload.word)
  BY DEF GridIInv, TypeOK, Payloads, TakenAsSent
<1>2. payload.len = m * dialect
  BY <1>1 DEF GridIInv, PayloadInv, TypeOK, RecordSizes
<1>3. /\ BodyLen(payload.len, payload.word) = m * dialect - 4
      /\ size \in {0, dialect}
  BY <1>1, <1>2, ShiftedSize DEF GridIInv, ResultInv
<1>4. CASE size = 0
  <2>1. parsed = 0
    BY <1>4 DEF GridIInv, ResultInv, Parsable
  <2> QED
    BY <2>1
<1>5. CASE size # 0
  <2>1. parsed \in 0 .. slots
    BY <1>1, <1>5 DEF GridIInv, ResultInv, Parsable
  <2>2. slots \in Int /\ slots < m
    <3>1. dialect \in {8, 16, 40} /\ slots = (m * dialect - 4) \div dialect
      BY <1>1, <1>3, <1>5 DEF RecordSizes
    <3>2. /\ (m * 8 - 4) \div 8 = m - 1
          /\ (m * 16 - 4) \div 16 = m - 1
          /\ (m * 40 - 4) \div 40 = m - 1
      BY SMTT(30)
    <3> QED
      BY <3>1, <3>2
  <2>3. parsed < counted
    BY <2>1, <2>2
  <2>4. parsed # counted /\ counted > 0
    BY <2>1, <2>2, <2>3
  <2>5. mismatch = (size # 0 /\ counted > 0 /\ parsed # counted)
    BY DEF GridIInv, ResultInv, MismatchFlag
  <2>6. mismatch
    BY <1>5, <2>4, <2>5
  <2> QED
    BY <2>3, <2>6
<1> QED
  BY <1>4, <1>5

\* With a payload that is whole and the count of its records, no payload is so
\* long that another record size is chosen: the divisibility of the total
\* decides, before any of the guesses.  And no first word is so unlucky that
\* shifted records pass for the log.
THEOREM FreshCountDecides == Spec => []FreshCountExact
<1>1. GridIInv => FreshCountExact
  <2> SUFFICES ASSUME GridIInv, phase = "done", payload.complete, counted > 0,
                      disabled \/ counted = payload.holds
               PROVE  IF TakenAsSent
                      THEN /\ size = dialect
                           /\ parsed = counted - blank
                           /\ mismatch <=> blank > 0
                      ELSE parsed < counted /\ (parsed > 0 => mismatch)
    BY DEF FreshCountExact
  <2>1. counted = payload.holds /\ payload.holds \in Nat \ {0}
    BY DEF GridIInv, CountInv, TypeOK
  <2> QED
    BY <2>1, ExactGrid, ShiftedGrid
<1> QED
  BY <1>1, GridInit, GridKept, PTL DEF Spec

-----------------------------------------------------------------------------
(* The grid of a whole payload whose count is missing or one too small: it *)
(* is the last step of detectSize that chooses.                            *)

\* A whole payload that was taken for what it is.
LEMMA WholePayload ==
  ASSUME GridIInv, WholeLog, payload.holds > 0
  PROVE  /\ payload.holds \in Nat \ {0} /\ dialect \in RecordSizes
         /\ BodyLen(payload.len, payload.word) = payload.holds * dialect
         /\ TotalSize(payload.len, payload.word) \in {0, payload.holds * dialect}
         /\ size = DetectSize(payload.holds * dialect,
                              TotalSize(payload.len, payload.word), counted, looks)
<1> DEFINE m == payload.holds
           bytes == m * dialect
<1>1. /\ m \in Nat \ {0} /\ dialect \in RecordSizes
      /\ payload.len \in Nat /\ payload.word \in Nat
      /\ payload.framed \in BOOLEAN /\ phase = "done" /\ payload.complete
  BY DEF GridIInv, TypeOK, Payloads, WholeLog, TakenAsSent
<1>2. bytes \in Nat \ {0}
  BY <1>1, EvenGrid
<1>3. /\ payload.framed => payload.word = bytes
      /\ payload.len = bytes + IF payload.framed THEN 4 ELSE 0
  BY <1>1 DEF GridIInv, PayloadInv
<1>4. payload.framed = LooksFramed(payload.len, payload.word)
  <2>1. CASE payload.framed
    <3>1. payload.len = bytes + 4 /\ payload.word = bytes
      BY <1>3, <2>1
    <3>2. LooksFramed(payload.len, payload.word)
      BY ONLY <1>2, <3>1 DEF LooksFramed, PrefixLen
    <3> QED
      BY <1>1, <2>1, <3>2
  <2>2. CASE ~payload.framed
    BY <1>1, <2>2 DEF WholeLog, TakenAsSent, LooksFramed
  <2> QED
    BY <2>1, <2>2
<1>5. BodyLen(payload.len, payload.word) = bytes
  BY <1>1, <1>4, WholeBody DEF GridIInv
<1>6. TotalSize(payload.len, payload.word) \in {0, bytes}
  BY <1>3, <1>4 DEF TotalSize
<1>7. size = DetectSize(bytes, TotalSize(payload.len, payload.word), counted, looks)
  BY <1>1, <1>2, <1>5 DEF GridIInv, ResultInv, RecordSize
<1> QED
  BY <1>1, <1>5, <1>6, <1>7

\* What is chosen from the grids that fit when the device's own is one of them.
LEMMA ChosenFits ==
  ASSUME NEW sizes \in SUBSET RecordSizes, NEW flag \in BOOLEAN, NEW r \in sizes
  PROVE  /\ FirstChoice(sizes, flag) \in sizes
         /\ r = 16 => FirstChoice(sizes, flag) # 8
         /\ r = 40 /\ flag => FirstChoice(sizes, flag) = 40
BY DEF FirstChoice, RecordSizes

\* The device's own grid always fits a whole payload.
LEMMA OwnGridFits ==
  ASSUME NEW m \in Nat \ {0}, NEW r \in RecordSizes
  PROVE  r \in {g \in RecordSizes : Fits(g, m * r)}
BY EvenGrid DEF Fits

\* Without a count, whatever the length of the log: 16-byte records are never
\* split in two, and 40-byte ones with a printable user are recognised.
THEOREM NeverSplits == Spec => []GuessNeverSplits
<1>1. GridIInv => GuessNeverSplits
  <2> SUFFICES ASSUME GridIInv, WholeLog, counted = 0, payload.holds > 0
               PROVE  /\ dialect = 16 => size # 8
                      /\ dialect = 40 /\ looks => size = 40
    BY DEF GuessNeverSplits
  <2> DEFINE bytes == payload.holds * dialect
             fitting == {g \in RecordSizes : Fits(g, bytes)}
             total == TotalSize(payload.len, payload.word)
  <2>1. /\ payload.holds \in Nat \ {0} /\ dialect \in RecordSizes
        /\ size = DetectSize(bytes, total, counted, looks)
    BY WholePayload
  <2>2. looks \in BOOLEAN
    BY DEF GridIInv, TypeOK
  <2>3. size = Guess(bytes, counted, looks)
    BY <2>1 DEF DetectSize
  <2>4. size = FirstChoice(fitting, looks)
    <3>1. {g \in fitting : counted > 0 /\ bytes \div g = counted} = {}
      OBVIOUS
    <3> QED
      BY <2>3, <3>1 DEF Guess
  <2>5. dialect \in fitting
    BY <2>1, OwnGridFits
  <2> HIDE DEF fitting
  <2>6. fitting \in SUBSET RecordSizes
    BY DEF fitting
  <2> QED
    BY <2>2, <2>4, <2>5, <2>6, ChosenFits
<1> QED
  BY <1>1, GridInit, GridKept, PTL DEF Spec

-----------------------------------------------------------------------------
\* One record more than the count: no record size makes the two agree, and a
\* wrong one holds fewer records than were counted.
LEMMA OneMore ==
  ASSUME NEW m \in Nat \ {0}, NEW r \in {8, 16}, ~(r = 8 /\ m = 1),
         NEW g \in RecordSizes
  PROVE  /\ (m + 1) * r # g * m
         /\ g # r /\ ~(r = 16 /\ g = 8) => (m + 1) * r < g * m
BY DEF RecordSizes

LEMMA ExactQuotient ==
  ASSUME NEW x \in Nat, NEW y \in Nat \ {0}, x % y = 0
  PROVE  x = y * (x \div y) /\ x \div y \in Nat
BY SMTT(30)

\* The punch is noticed for every number of records, and not only of those TLC
\* counts to.
THEOREM NoticesOnePunch == Spec => []OnePunchNoticed
<1>1. GridIInv => OnePunchNoticed
  <2> SUFFICES ASSUME GridIInv, WholeLog, counted > 0, payload.holds = counted + 1,
                      dialect # 40, ~(dialect = 8 /\ counted = 1), size # dialect
               PROVE  mismatch
    BY DEF OnePunchNoticed
  <2> DEFINE bytes == (counted + 1) * dialect
             fitting == {g \in RecordSizes : Fits(g, bytes)}
             total == TotalSize(payload.len, payload.word)
             slots == BodyLen(payload.len, payload.word) \div size
  <2>1. /\ counted \in Nat \ {0} /\ looks \in BOOLEAN /\ dialect \in {8, 16}
        /\ payload.holds > 0 /\ phase = "done"
    BY DEF GridIInv, TypeOK, RecordSizes, WholeLog
  <2>2. /\ BodyLen(payload.len, payload.word) = bytes
        /\ total \in {0, bytes}
        /\ size = DetectSize(bytes, total, counted, looks)
    BY <2>1, WholePayload
  <2>3. bytes \in Nat \ {0}
    BY <2>1
  <2>4. \A g \in RecordSizes : bytes # g * counted
    BY <2>1, OneMore
  <2>5. size = Guess(bytes, counted, looks)
    <3>1. ~(bytes % counted = 0 /\ bytes \div counted \in RecordSizes)
      <4> SUFFICES ASSUME bytes % counted = 0, bytes \div counted \in RecordSizes
                   PROVE  FALSE
        OBVIOUS
      <4>1. bytes = counted * (bytes \div counted)
        BY <2>1, <2>3, ExactQuotient
      <4>2. counted * (bytes \div counted) = (bytes \div counted) * counted
        BY <2>1 DEF RecordSizes
      <4> QED
        BY <2>4, <4>1, <4>2
    <3> QED
      BY <2>2, <3>1 DEF DetectSize
  <2>6. size = FirstChoice(fitting, looks)
    <3>1. ASSUME NEW g \in fitting PROVE bytes \div g # counted
      <4>1. g \in RecordSizes /\ g \in Nat \ {0} /\ bytes % g = 0
        BY DEF Fits, RecordSizes
      <4>2. bytes = g * (bytes \div g)
        BY <2>3, <4>1, ExactQuotient
      <4> QED
        BY <2>4, <4>1, <4>2
    <3>2. {g \in fitting : counted > 0 /\ bytes \div g = counted} = {}
      BY <3>1
    <3> QED
      BY <2>5, <3>2 DEF Guess
  <2>7. /\ size \in RecordSizes /\ bytes % size = 0
        /\ ~(dialect = 16 /\ size = 8)
    <3>1. dialect \in fitting
      BY <2>1, OwnGridFits DEF RecordSizes
    <3>2. size \in fitting /\ (dialect = 16 => size # 8)
      <4> HIDE DEF fitting
      <4>1. fitting \in SUBSET RecordSizes
        BY DEF fitting
      <4> QED
        BY <2>1, <2>6, <3>1, <4>1, ChosenFits
    <3> QED
      BY <3>2 DEF Fits
  <2>8. bytes < size * counted
    BY <2>1, <2>7, OneMore
  <2>9. slots < counted
    <3>1. bytes = size * slots /\ slots \in Nat /\ size \in {8, 16, 40}
      BY <2>2, <2>3, <2>7, ExactQuotient DEF RecordSizes
    <3> HIDE DEF bytes, slots
    <3> QED
      BY <2>1, <2>8, <3>1
  <2>10. parsed \in 0 .. slots
    BY <2>1, <2>7 DEF GridIInv, ResultInv, Parsable, RecordSizes
  <2>11. parsed # counted
    <3>1. slots \in Int
      BY <2>2, <2>3, <2>7 DEF RecordSizes
    <3> HIDE DEF slots
    <3> QED
      BY <2>1, <2>9, <2>10, <3>1
  <2>12. size # 0
    BY <2>7 DEF RecordSizes
  <2>13. mismatch = MismatchFlag(size, counted, parsed)
    BY <2>1 DEF GridIInv, ResultInv
  <2> QED
    BY <2>11, <2>12, <2>13, Zenon DEF MismatchFlag
<1> QED
  BY <1>1, GridInit, GridKept, PTL DEF Spec

-----------------------------------------------------------------------------
(* The user of a record (RecordFields).                                    *)

Half == Wide \div 2

LEMMA Halves ==
  Half \in Nat \ {0} /\ Wide = 2 * Half /\ Uids \subseteq 0 .. Half - 1
<1>1. Wide \in Nat \ {0} /\ Wide % 2 = 0 /\ Uids \subseteq 0 .. Half - 1
  BY FieldsAssumption DEF Half
<1>2. Half \in Nat \ {0} /\ Wide = 2 * Half
  BY ONLY <1>1 DEF Half
<1> QED
  BY <1>1, <1>2

LEMMA IntFits ==
  ASSUME NEW x \in Int
  PROVE  /\ Fields!Int64(x) \in -Half .. Half - 1
         /\ x \in -Half .. Half - 1 => Fields!Int64(x) = x
<1>1. Half \in Nat \ {0} /\ Wide = 2 * Half
  BY Halves
<1>2. Fields!Int64(x) = ((x + Half) % Wide) - Half
  BY DEF Fields!Int64, Half
<1> DEFINE v == x + Half
           r == v % Wide
           q == v \div Wide
<1>3. v \in Int /\ Wide \in Nat \ {0}
  BY <1>1
<1>4. v = q * Wide + r /\ q \in Int /\ r \in Int /\ 0 <= r /\ r < Wide
  <2> HIDE DEF v
  <2> QED BY <1>3
<1>5. v \in 0 .. Wide - 1 => r = v
  <2> HIDE DEF v
  <2> QED BY <1>3
<1> HIDE DEF q, r
<1> QED
  BY <1>1, <1>2, <1>4, <1>5 DEF r

\* What is cut off is a multiple of the range of an int.
LEMMA IntCut ==
  ASSUME NEW x \in Int
  PROVE  \E k \in Int : Fields!Int64(x) = x - k * Wide
<1>1. Half \in Nat \ {0} /\ Wide = 2 * Half
  BY Halves
<1>2. Fields!Int64(x) = ((x + Half) % Wide) - Half
  BY DEF Fields!Int64, Half
<1> DEFINE v == x + Half
           r == v % Wide
           q == v \div Wide
<1>3. v \in Int /\ Wide \in Nat \ {0}
  BY <1>1
<1>4. v = q * Wide + r /\ q \in Int /\ r \in Int
  <2> HIDE DEF v
  <2> QED BY <1>3
<1>5. q * Wide \in Int
  BY <1>3, <1>4
<1> HIDE DEF q, r
<1>6. r - Half = x - q * Wide
  BY <1>1, <1>4, <1>5
<1>7. Fields!Int64(x) = x - q * Wide
  BY <1>2, <1>6 DEF r
<1> QED
  BY <1>4, <1>7

\* What digitsOnly accumulates: cutting before and after a digit is added, or
\* only after it, is the same.
LEMMA CutOnce ==
  ASSUME NEW x \in Int, NEW d \in Int
  PROVE  Fields!Int64(Fields!Int64(x) * 10 + d) = Fields!Int64(x * 10 + d)
<1> DEFINE y == x * 10 + d
           c == Fields!Int64(x)
           z == c * 10 + d
           a == Fields!Int64(y)
           b == Fields!Int64(z)
<1>1. Wide \in Nat \ {0}
  BY FieldsAssumption
<1>2. \E k \in Int : c = x - k * Wide
  BY IntCut
<1>3. PICK k \in Int : c = x - k * Wide
  BY <1>2
<1>4. y \in Int /\ k * Wide \in Int /\ (k * 10) * Wide = (k * Wide) * 10
  BY <1>1
<1>5. c \in Int
  BY <1>3, <1>4
<1>6. z \in Int /\ z = y - (k * 10) * Wide
  <2> HIDE DEF c
  <2> QED BY <1>3, <1>4, <1>5
<1>7. PICK p \in Int : a = y - p * Wide
  BY <1>4, IntCut
<1>8. PICK q \in Int : b = z - q * Wide
  BY <1>6, IntCut
<1>9. a \in -Half .. Half - 1 /\ b \in -Half .. Half - 1
  BY <1>4, <1>6, IntFits
<1> HIDE DEF y, z, a, b, c
<1>10. a - b = (q + k * 10 - p) * Wide
  BY <1>1, <1>3, <1>4, <1>6, <1>7, <1>8
<1> DEFINE j == q + k * 10 - p
<1>11. j \in Int
  OBVIOUS
<1>12. a - b < Wide /\ b - a < Wide /\ a \in Int /\ b \in Int
  BY <1>9, Halves
<1> HIDE DEF j
<1>13. a - b = j * Wide
  BY <1>10 DEF j
<1>14. j >= 1 => j * Wide >= Wide
  BY <1>1, <1>11
<1>15. j <= -1 => j * Wide <= -Wide
  BY <1>1, <1>11
<1>16. j = 0
  BY ONLY <1>1, <1>11, <1>12, <1>13, <1>14, <1>15
<1>17. a = b
  BY ONLY <1>12, <1>13, <1>16, <1>1
<1> QED
  BY <1>17 DEF a, b, y, z, c

LEMMA Smallest ==
  ASSUME NEW T \in SUBSET Nat, T # {}
  PROVE  \E x \in T : \A y \in T : x <= y
<1> DEFINE R == {ss \in Nat \X Nat : ss[1] < ss[2]}
<1>1. IsWellFoundedOn(R, Nat)
  BY NatLessThanWellFounded DEF OpToRel
<1>2. \A x, y \in Nat : <<y, x>> \notin R => x <= y
  OBVIOUS
<1> HIDE DEF R
<1>3. \E x \in T : \A y \in T : ~(<<y, x>> \in R)
  BY <1>1, WFMin
<1> QED
  BY <1>2, <1>3

LEMMA ValuesAre ==
  ASSUME NEW t, Len(t) \in Nat
  PROVE  \A k \in 0 .. Len(t) :
           Fields!Values(t)[k] = IF k = 0 THEN 0 ELSE Fields!Values(t)[k - 1] * 10 + t[k]
<1> DEFINE From(f, k) == IF k = 0 THEN 0 ELSE f[k - 1] * 10 + t[k]
           Up(m) == \E f : f = [k \in 0 .. m |-> From(f, k)]
           Bad == {m \in Nat : ~Up(m)}
<1>1. Up(0)
  <2> DEFINE f == [k \in 0 .. 0 |-> 0]
  <2>1. f = [k \in 0 .. 0 |-> From(f, k)]
    OBVIOUS
  <2> QED
    BY <2>1
<1>2. ASSUME NEW m \in Nat, Up(m)
      PROVE  Up(m + 1)
  <2>1. PICK f : f = [k \in 0 .. m |-> From(f, k)]
    BY <1>2
  <2> DEFINE g == [k \in 0 .. m + 1 |-> IF k = m + 1 THEN f[m] * 10 + t[m + 1] ELSE f[k]]
  <2>2. ASSUME NEW k \in 0 .. m + 1
        PROVE  g[k] = From(g, k)
    <3>1. CASE k = m + 1
      BY <3>1
    <3>2. CASE k \in 0 .. m
      <4>1. f[k] = From(f, k)
        BY <2>1, <3>2
      <4>2. k # 0 => k - 1 \in 0 .. m /\ k - 1 # m + 1 /\ k - 1 \in 0 .. m + 1
        BY <3>2
      <4>3. k # m + 1
        BY <3>2
      <4> QED
        BY <4>1, <4>2, <4>3
    <3> QED
      BY <3>1, <3>2
  <2>3. g = [k \in 0 .. m + 1 |-> From(g, k)]
    BY <2>2
  <2> QED
    BY <2>3
<1> HIDE DEF Up
<1>3. Bad = {}
  <2> SUFFICES ASSUME Bad # {} PROVE FALSE
    OBVIOUS
  <2>1. PICK m \in Bad : \A y \in Bad : m <= y
    BY Smallest
  <2>2. m # 0
    BY <1>1
  <2>3. m - 1 \in Nat /\ m - 1 \notin Bad /\ (m - 1) + 1 = m
    BY <2>1, <2>2
  <2> QED
    BY <1>2, <2>3
<1>4. \E f : f = [k \in 0 .. Len(t) |-> From(f, k)]
  BY <1>3 DEF Up
<1>5. Fields!Values(t) = [k \in 0 .. Len(t) |-> From(Fields!Values(t), k)]
  <2>1. Fields!Values(t) = CHOOSE f : f = [k \in 0 .. Len(t) |-> From(f, k)]
    BY DEF Fields!Values
  <2> QED
    BY <1>4, <2>1
<1> QED
  BY <1>5

Texts == [1 .. FieldLen -> Fields!Chars]

LEMMA TextShown ==
  ASSUME text \in Texts
  PROVE  /\ Fields!TrimSpace(Fields!UpToZero(text)) \in Seq(Fields!Chars)
         /\ Fields!TrimSpace(Fields!UpToZero(text)) # <<>> => Fields!Shows(Fields!TrimSpace(Fields!UpToZero(text)))
<1> DEFINE cut == Fields!UpToZero(text)
<1>1. FieldLen \in Nat /\ Len(text) = FieldLen /\ text \in Seq(Fields!Chars)
      /\ \A k \in 1 .. FieldLen : text[k] \in Fields!Chars
  BY FieldsAssumption DEF Texts
<1>2. \E stop \in 0 .. FieldLen :
        /\ cut = SubSeq(text, 1, stop)
        /\ stop = FieldLen \/ text[stop + 1] = Fields!Nul
  <2>1. CASE \E k \in 1 .. Len(text) : text[k] = Fields!Nul
    <3> DEFINE T == {k \in 1 .. FieldLen : text[k] = Fields!Nul}
    <3>1. T \in SUBSET Nat /\ T # {}
      BY <1>1, <2>1
    <3>2. \E k \in T : \A j \in T : k <= j
      BY <3>1, Smallest
    <3>3. \E k \in 1 .. Len(text) : text[k] = Fields!Nul /\ \A j \in 1 .. k - 1 : text[j] # Fields!Nul
      BY <1>1, <3>2
    <3> DEFINE z == CHOOSE k \in 1 .. Len(text) :
                      text[k] = Fields!Nul /\ \A j \in 1 .. k - 1 : text[j] # Fields!Nul
    <3>4. z \in 1 .. Len(text) /\ text[z] = Fields!Nul
      BY <3>3
    <3>5. cut = SubSeq(text, 1, z - 1)
      BY <2>1 DEF Fields!UpToZero
    <3> HIDE DEF z, cut
    <3>6. z - 1 \in 0 .. FieldLen /\ (z - 1) + 1 = z
      BY <1>1, <3>4
    <3> QED
      BY <3>4, <3>5, <3>6
  <2>2. CASE ~(\E k \in 1 .. Len(text) : text[k] = Fields!Nul)
    <3>1. cut = text
      BY <2>2 DEF Fields!UpToZero
    <3>2. SubSeq(text, 1, FieldLen) = text
      BY <1>1
    <3> QED
      BY <1>1, <3>1, <3>2
  <2> QED
    BY <2>1, <2>2
<1>3. PICK stop \in 0 .. FieldLen :
        /\ cut = SubSeq(text, 1, stop)
        /\ stop = FieldLen \/ text[stop + 1] = Fields!Nul
  BY <1>2
<1>4. /\ cut \in Seq(Fields!Chars) /\ Len(cut) = stop
      /\ \A k \in 1 .. stop : cut[k] = text[k]
  BY <1>1, <1>3
<1> DEFINE ink == {k \in 1 .. Len(cut) : cut[k] # Fields!Space}
           first == CHOOSE k \in ink : \A j \in ink : k <= j
           last == CHOOSE k \in ink : \A j \in ink : j <= k
<1> HIDE DEF cut
<1>5. ASSUME ink # {}
      PROVE  /\ first \in ink /\ \A j \in ink : first <= j
             /\ last \in ink /\ \A j \in ink : j <= last
  <2>1. ink \in SUBSET Nat
    OBVIOUS
  <2>2. \E k \in ink : \A j \in ink : k <= j
    BY <1>5, <2>1, Smallest
  <2>3. \E k \in ink : \A j \in ink : j <= k
    <3> DEFINE back == {stop - k : k \in ink}
    <3>1. back \in SUBSET Nat /\ back # {}
      BY <1>4, <1>5
    <3>2. PICK b \in back : \A c \in back : b <= c
      BY <3>1, Smallest
    <3>3. PICK k \in ink : b = stop - k
      BY <3>2
    <3>4. ASSUME NEW j \in ink
          PROVE  j <= k
      <4>1. stop - j \in back
        OBVIOUS
      <4>2. b <= stop - j /\ j \in Int /\ k \in Int /\ stop \in Int
        BY <3>2, <4>1
      <4> QED
        BY <3>3, <4>2
    <3> QED
      BY <3>4
  <2> HIDE DEF ink
  <2> QED
    BY <2>2, <2>3
<1>6. Fields!TrimSpace(cut) = IF ink = {} THEN <<>> ELSE SubSeq(cut, first, last)
  BY DEF Fields!TrimSpace
<1>7. CASE ink = {}
  BY <1>6, <1>7 DEF cut
<1>8. CASE ink # {}
  <2>1. /\ first \in 1 .. stop /\ last \in 1 .. stop /\ first <= last
        /\ \A k \in 1 .. stop : text[k] # Fields!Space => first <= k /\ k <= last
    BY <1>4, <1>5, <1>8
  <2>2. Fields!TrimSpace(cut) = SubSeq(cut, first, last)
    BY <1>6, <1>8
  <2> HIDE DEF first, last
  <2>3. SubSeq(cut, first, last) \in Seq(Fields!Chars)
    BY <1>4, <2>1
  <2>4. SubSeq(cut, first, last) = SubSeq(text, first, last)
    BY <1>1, <1>3, <1>4, <2>1
  <2>5. Fields!Shows(SubSeq(text, first, last))
    <3> DEFINE from == first - 1
    <3>1. from \in 0 .. FieldLen /\ from + 1 = first /\ last \in 0 .. FieldLen /\ from <= last
      BY <1>1, <2>1
    <3>2. \A k \in 1 .. from : text[k] = Fields!Space
      BY <1>1, <2>1
    <3>3. stop \in last .. FieldLen /\ \A k \in last + 1 .. stop : text[k] = Fields!Space
      BY <1>1, <2>1
    <3> HIDE DEF from
    <3> QED
      BY <1>3, <3>1, <3>2, <3>3 DEF Fields!Shows
  <2> QED
    BY <2>2, <2>3, <2>4, <2>5 DEF cut
<1> QED
  BY <1>7, <1>8

Named ==
  /\ s = Fields!TrimSpace(Fields!UpToZero(text)) /\ s # <<>>
  /\ \A k \in 1 .. i : s[k] \in 0 .. 9
  /\ Fields!Values(s)[i] \in Nat
  /\ n = Fields!Int64(Fields!Values(s)[i])

FieldsIInv ==
  /\ Fields!TypeOK
  /\ recordSize \in {8, 16, 40} /\ uid \in Uids
  /\ recordSize = 40 => text \in Texts
  /\ pc = "parse" => i = 0 /\ n = 0 /\ s = <<>>
  /\ pc = "digits" => recordSize = 40 /\ Named
  /\ Fields!NoInventedUser

LEMMA FieldsInit ==
  ASSUME Fields!Init
  PROVE  FieldsIInv
<1>1. 0 \in -(Wide \div 2) .. Wide \div 2 - 1
  <2>1. Half \in Nat \ {0}
    BY Halves
  <2>2. 0 \in -Half .. Half - 1
    BY <2>1
  <2> QED
    BY <2>2 DEF Half
<1>2. <<>> \in Seq(Fields!Chars) /\ 0 \in 0 .. Len(<<>>)
  OBVIOUS
<1>3. Fields!TypeOK
  BY <1>1, <1>2 DEF Fields!Init, Fields!TypeOK
<1> QED
  BY <1>3 DEF Fields!Init, FieldsIInv, Texts, Fields!NoInventedUser

LEMMA FieldsParse ==
  ASSUME FieldsIInv, Fields!ParseRec
  PROVE  FieldsIInv'
<1>1. /\ Half \in Nat \ {0} /\ uid \in 0 .. Half - 1
      /\ pc = "parse" /\ i = 0 /\ n = 0 /\ s = <<>>
      /\ recordSize \in {8, 16, 40} /\ uid \in Uids /\ (recordSize = 40 => text \in Texts)
      /\ UNCHANGED <<recordSize, text, uid, i, n>>
  BY Halves DEF FieldsIInv, Fields!ParseRec
<1>2. /\ -(Wide \div 2) = -Half /\ Wide \div 2 = Half
  BY DEF Half
<1>3. ASSUME Fields!Give(uid), s' \in Seq(Fields!Chars), recordSize = 40 => s' = <<>>
      PROVE  FieldsIInv'
  <2>1. pc' = "done" /\ user' = uid /\ kept' = (uid > 0)
    BY <1>3 DEF Fields!Give
  <2>2. Fields!TypeOK'
    BY <1>1, <1>2, <1>3, <2>1 DEF Fields!TypeOK, FieldsIInv
  <2>3. Fields!NoInventedUser'
    BY <1>1, <1>3, <2>1 DEF Fields!NoInventedUser, Fields!IsNumber
  <2> QED
    BY <1>1, <2>1, <2>2, <2>3 DEF FieldsIInv, Texts
<1>4. CASE recordSize # 40
  <2>1. Fields!Give(uid) /\ s' = s
    BY <1>4 DEF Fields!ParseRec
  <2> QED
    BY <1>1, <1>3, <1>4, <2>1
<1>5. CASE recordSize = 40
  <2>1. s' = Fields!TrimSpace(Fields!UpToZero(text)) /\ s' \in Seq(Fields!Chars)
    BY <1>1, <1>5, TextShown DEF Fields!ParseRec
  <2>2. CASE s' = <<>>
    <3>1. Fields!Give(uid)
      BY <1>5, <2>2 DEF Fields!ParseRec
    <3> QED
      BY <1>3, <2>1, <2>2, <3>1
  <2>3. CASE s' # <<>>
    <3>1. pc' = "digits" /\ UNCHANGED <<user, kept>>
      BY <1>5, <2>3 DEF Fields!ParseRec
    <3>2. Fields!TypeOK'
      BY <1>1, <1>2, <2>1, <3>1 DEF Fields!TypeOK, FieldsIInv
    <3>3. Len(s') \in Nat
      BY <2>1
    <3>4. Fields!Values(s')[0] = 0
      BY <3>3, ValuesAre
    <3>5. Fields!Int64(0) = 0
      <4>1. 0 \in -Half .. Half - 1
        BY <1>1
      <4> QED
        BY <4>1, IntFits
    <3>6. Named'
      BY <1>1, <2>1, <2>3, <3>4, <3>5 DEF Named
    <3> QED
      BY <1>1, <1>5, <3>1, <3>2, <3>6 DEF FieldsIInv, Texts, Fields!NoInventedUser
  <2> QED
    BY <2>2, <2>3
<1> QED
  BY <1>4, <1>5

LEMMA FieldsDigits ==
  ASSUME FieldsIInv, Fields!DigitsOnly
  PROVE  FieldsIInv'
<1>1. /\ Half \in Nat \ {0} /\ uid \in 0 .. Half - 1
      /\ pc = "digits" /\ recordSize = 40 /\ Named /\ uid \in Uids /\ text \in Texts
      /\ UNCHANGED <<recordSize, text, uid, s>>
  BY Halves DEF FieldsIInv, Fields!DigitsOnly
<1>2. /\ -(Wide \div 2) = -Half /\ Wide \div 2 = Half
  BY DEF Half
<1>3. s \in Seq(Fields!Chars) /\ Len(s) \in Nat /\ i \in 0 .. Len(s) /\ n \in -Half .. Half - 1
  BY <1>2 DEF FieldsIInv, Fields!TypeOK
<1>4. Fields!Shows(s)
  BY <1>1, TextShown DEF Named
<1>5. CASE i = Len(s)
  <2>1. pc' = "done" /\ user' = n /\ kept' = (n > 0) /\ i' = i /\ n' = n
    BY <1>5 DEF Fields!DigitsOnly, Fields!Give
  <2>2. Fields!TypeOK'
    BY <1>1, <1>2, <1>3, <2>1 DEF Fields!TypeOK
  <2>3. Fields!IsNumber(s)
    BY <1>1, <1>5 DEF Named, Fields!IsNumber
  <2>4. n = Fields!Int64(Fields!ValueOf(s))
    BY <1>1, <1>5 DEF Named, Fields!ValueOf
  <2>5. Fields!Shows(s)'
    BY <1>1, <1>4 DEF Fields!Shows
  <2>6. Fields!NoInventedUser'
    BY <1>1, <1>2, <2>1, <2>3, <2>4, <2>5 DEF Fields!NoInventedUser
  <2> QED
    BY <1>1, <2>1, <2>2, <2>6 DEF FieldsIInv, Texts
<1>6. CASE i # Len(s) /\ ~Fields!IsDigit(s[i + 1])
  <2>1. pc' = "done" /\ user' = uid /\ kept' = (uid > 0) /\ i' = i /\ n' = n
    BY <1>6 DEF Fields!DigitsOnly, Fields!Give
  <2>2. Fields!TypeOK'
    BY <1>1, <1>2, <1>3, <2>1 DEF Fields!TypeOK
  <2>3. ~Fields!IsNumber(s)
    BY <1>3, <1>6 DEF Fields!IsNumber, Fields!IsDigit
  <2>4. Fields!NoInventedUser'
    BY <1>1, <2>1, <2>3 DEF Fields!NoInventedUser
  <2> QED
    BY <1>1, <2>1, <2>2, <2>4 DEF FieldsIInv, Texts
<1>7. CASE i # Len(s) /\ Fields!IsDigit(s[i + 1])
  <2> DEFINE d == s[i + 1]
             v == Fields!Values(s)[i]
             w == Fields!Values(s)[i + 1]
  <2>1. /\ i' = i + 1 /\ n' = Fields!NextValue(n, d) /\ UNCHANGED <<pc, user, kept>>
    BY <1>7 DEF Fields!DigitsOnly
  <2>2. d \in 0 .. 9 /\ i + 1 \in 0 .. Len(s)
    BY <1>3, <1>7 DEF Fields!IsDigit
  <2>3. w = v * 10 + d
    <3>1. i + 1 # 0 /\ (i + 1) - 1 = i
      BY <1>3
    <3> QED
      BY <1>3, <2>2, <3>1, ValuesAre
  <2>4. v \in Nat /\ n = Fields!Int64(v)
    BY <1>1 DEF Named
  <2> HIDE DEF d, v, w
  <2>5. n * 10 + d \in Int
    BY <1>3, <2>2
  <2>6. n' \in -Half .. Half - 1
    BY <2>1, <2>5, IntFits DEF Fields!NextValue
  <2>7. w \in Nat /\ n' = Fields!Int64(w)
    <3>1. w \in Nat
      BY <2>2, <2>3, <2>4
    <3>2. n' = Fields!Int64(Fields!Int64(v) * 10 + d)
      BY <2>1, <2>4 DEF Fields!NextValue
    <3>3. v \in Int /\ d \in Int
      BY <2>2, <2>4
    <3> QED
      BY <2>3, <3>1, <3>2, <3>3, CutOnce
  <2>8. Fields!TypeOK'
    BY <1>1, <1>2, <1>3, <2>1, <2>2, <2>6 DEF Fields!TypeOK, FieldsIInv
  <2>9. \A k \in 1 .. i + 1 : s[k] \in 0 .. 9
    <3>1. \A k \in 1 .. i + 1 : k \in 1 .. i \/ k = i + 1
      BY <1>3
    <3> QED
      BY <1>1, <2>2, <3>1 DEF Named, d
  <2>10. Named'
    BY <1>1, <2>1, <2>7, <2>9 DEF Named, w
  <2> QED
    BY <1>1, <2>1, <2>8, <2>10 DEF FieldsIInv, Texts, Fields!NoInventedUser
<1> QED
  BY <1>5, <1>6, <1>7

LEMMA FieldsKept ==
  ASSUME FieldsIInv, [Fields!Next]_(Fields!vars)
  PROVE  FieldsIInv'
<1>1. CASE UNCHANGED Fields!vars
  BY <1>1 DEF Fields!vars, FieldsIInv, Fields!TypeOK, Named, Fields!NoInventedUser, Fields!Shows, Texts
<1> QED
  BY <1>1, FieldsParse, FieldsDigits DEF Fields!Next, Fields!Done

-----------------------------------------------------------------------------
(* Types.  A warning counts records of its page because a page is part of  *)
(* the log.                                                                *)

Punches == [stamp : 0 .. MaxTime, edge : Pages!Nil .. MaxTime + 1]

PagesTypeInv == Pages!TypeOK /\ Len(log) <= MaxPunches

LEMMA TypesOfPunch ==
  ASSUME PagesTypeInv, NEW k \in 1 .. Len(log)
  PROVE  /\ log[k].stamp \in Nat /\ log[k].edge \in Int
         /\ returned[k] \in Nat
<1>1. /\ log \in Seq(Punches)
      /\ returned \in Seq(Nat) /\ k \in 1 .. Len(returned)
  BY DEF PagesTypeInv, Pages!TypeOK, Punches
<1>2. log[k] \in Punches /\ returned[k] \in Nat
  BY <1>1
<1> QED
  BY <1>2, PagesAssumption DEF Punches, Pages!Nil

LEMMA PageSize ==
  ASSUME PagesTypeInv, NEW from, NEW to
  PROVE  /\ Cardinality(Pages!Page(from, to)) \in 0 .. MaxPunches
         /\ Cardinality(Pages!Stale(Pages!Page(from, to))) \in 0 .. Cardinality(Pages!Page(from, to))
<1>1. Len(log) \in Nat
  BY DEF PagesTypeInv, Pages!TypeOK
<1>2. IsFiniteSet(1 .. Len(log)) /\ Cardinality(1 .. Len(log)) = Len(log)
  <2>1. \A a, b \in Int :
          /\ IsFiniteSet(a .. b)
          /\ Cardinality(a .. b) = IF a > b THEN 0 ELSE b - a + 1
    BY FS_Interval, Zenon
  <2>2. IsFiniteSet(1 .. Len(log))
        /\ Cardinality(1 .. Len(log)) = IF 1 > Len(log) THEN 0 ELSE Len(log) - 1 + 1
    BY <1>1, <2>1
  <2> QED
    BY <1>1, <2>2
<1>3. /\ IsFiniteSet(Pages!Page(from, to))
      /\ Cardinality(Pages!Page(from, to)) <= Len(log)
  BY <1>2, FS_Subset DEF Pages!Page
<1>4. /\ IsFiniteSet(Pages!Stale(Pages!Page(from, to)))
      /\ Cardinality(Pages!Stale(Pages!Page(from, to))) <= Cardinality(Pages!Page(from, to))
  BY <1>3, FS_Subset DEF Pages!Stale
<1>5. /\ Cardinality(Pages!Page(from, to)) \in Nat
      /\ Cardinality(Pages!Stale(Pages!Page(from, to))) \in Nat
  BY <1>3, <1>4, FS_CardinalityType
<1> QED
  BY <1>1, <1>3, <1>4, <1>5, PagesAssumption DEF PagesTypeInv

LEMMA PunchType ==
  ASSUME PagesTypeInv, Pages!Punch
  PROVE  /\ PagesTypeInv'
         /\ Len(log') = Len(log) + 1
         /\ log'[Len(log')] = [stamp |-> rtc, edge |-> edge]
         /\ returned'[Len(log')] = 0
         /\ \A k \in 1 .. Len(log) :
              log'[k] = log[k] /\ returned'[k] = returned[k]
<1> DEFINE p == [stamp |-> rtc, edge |-> edge]
<1>1. /\ log \in Seq(Punches) /\ p \in Punches
      /\ returned \in Seq(Nat) /\ 0 \in Nat /\ Len(returned) = Len(log)
  BY DEF PagesTypeInv, Pages!TypeOK, Punches
<1>2. log' = Append(log, p) /\ returned' = Append(returned, 0)
  BY DEF Pages!Punch
<1>3. /\ log' \in Seq(Punches) /\ Len(log') = Len(log) + 1
      /\ returned' \in Seq(Nat) /\ Len(returned') = Len(log')
  BY <1>1, <1>2, AppendProperties
<1>4. /\ log'[Len(log')] = p /\ returned'[Len(log')] = 0
      /\ \A k \in 1 .. Len(log) :
           log'[k] = log[k] /\ returned'[k] = returned[k]
  BY <1>1, <1>2, <1>3, AppendProperties
<1>5. Len(log') <= MaxPunches
  BY <1>1, <1>3, PagesAssumption DEF Pages!Punch
<1> QED
  BY <1>3, <1>4, <1>5 DEF Pages!Punch, PagesTypeInv, Pages!TypeOK, Punches

LEMMA PullType ==
  ASSUME PagesTypeInv, Pages!Pull
  PROVE  PagesTypeInv'
<1>1. PICK to \in 0 .. MaxTime :
        /\ returned' = [k \in 1 .. Len(log) |->
                          returned[k] + IF k \in Pages!Page(edge, to) THEN 1 ELSE 0]
        /\ warning' = Pages!EpochWarning(Pages!Page(edge, to))
        /\ told' = told + warning'.stale
        /\ edge' = to + 1
        /\ UNCHANGED <<now, rtc, log>>
  BY DEF Pages!Pull
<1>2. returned' \in Seq(Nat) /\ Len(returned') = Len(log)
  <2>1. Len(log) \in Nat /\ \A k \in 1 .. Len(log) : returned[k] \in Nat
    <3>1. \A k \in 1 .. Len(log) : returned[k] \in Nat
      BY TypesOfPunch
    <3> QED
      BY <3>1 DEF PagesTypeInv, Pages!TypeOK
  <2>2. \A k \in 1 .. Len(log) :
          returned[k] + (IF k \in Pages!Page(edge, to) THEN 1 ELSE 0) \in Nat
    BY <2>1
  <2>3. returned' \in [1 .. Len(log) -> Nat]
    BY <1>1, <2>2
  <2> QED
    BY <2>1, <2>3
<1>3. edge' \in Pages!Nil .. MaxTime + 1
  BY <1>1, PagesAssumption DEF Pages!Nil
<1>4. warning'.of \in 0 .. MaxPunches /\ warning'.stale \in 0 .. warning'.of
  <2> DEFINE page == Pages!Page(edge, to)
  <2>1. Cardinality(page) \in 0 .. MaxPunches
        /\ Cardinality(Pages!Stale(page)) \in 0 .. Cardinality(page)
    BY PageSize
  <2>2. warning' = [stale |-> Cardinality(Pages!Stale(page)), of |-> Cardinality(page)]
    BY <1>1 DEF Pages!EpochWarning, Cardinality, Pages!Cardinality
  <2> HIDE DEF page
  <2> QED
    BY <2>1, <2>2
<1>5. told' \in Nat
  BY <1>1, <1>4 DEF PagesTypeInv, Pages!TypeOK
<1> QED
  BY <1>1, <1>2, <1>3, <1>4, <1>5 DEF PagesTypeInv, Pages!TypeOK

LEMMA PagesTypeKept ==
  ASSUME PagesTypeInv, [Pages!Next]_(Pages!vars)
  PROVE  PagesTypeInv'
<1>1. CASE Pages!ClocksRun \/ Pages!BatteryEmpty \/ Pages!ClockSet
  BY <1>1, PagesAssumption DEF Pages!ClocksRun, Pages!BatteryEmpty, Pages!ClockSet, PagesTypeInv, Pages!TypeOK
<1>2. CASE UNCHANGED Pages!vars
  BY <1>2 DEF Pages!vars, PagesTypeInv, Pages!TypeOK
<1> QED
  BY <1>1, <1>2, PunchType, PullType DEF Pages!Next

LEMMA PagesInit ==
  ASSUME Pages!Init
  PROVE  PagesTypeInv
<1>1. now \in 0 .. MaxTime /\ rtc \in 0 .. MaxTime /\ edge \in Pages!Nil .. MaxTime + 1
  BY PagesAssumption DEF Pages!Init, Pages!Nil
<1>2. log \in Seq(Punches) /\ Len(log) = 0
  BY DEF Pages!Init
<1>3. returned \in Seq(Nat) /\ Len(returned) = 0
  BY DEF Pages!Init
<1>4. warning.of \in 0 .. MaxPunches /\ warning.stale \in 0 .. warning.of
  BY PagesAssumption DEF Pages!Init
<1>5. told \in Nat
  BY DEF Pages!Init
<1> QED
  BY <1>1, <1>2, <1>3, <1>4, <1>5, PagesAssumption DEF PagesTypeInv, Pages!TypeOK, Punches

-----------------------------------------------------------------------------
(* Consecutive pages.  What the client has asked for only grows, so the    *)
(* edge that a punch found is not behind the present one.                  *)

EdgeGrows == \A k \in 1 .. Len(log) : log[k].edge <= edge

PagesIInv == PagesTypeInv /\ EdgeGrows /\ Pages!EachPunchOnce /\ Pages!UnsetClockTold

LEMMA PunchOnce ==
  ASSUME PagesIInv, Pages!Punch
  PROVE  EdgeGrows' /\ Pages!EachPunchOnce'
<1>1. /\ Len(log') = Len(log) + 1 /\ edge' = edge
      /\ log'[Len(log')].edge = edge
      /\ returned'[Len(log')] = 0
      /\ \A k \in 1 .. Len(log) :
           log'[k] = log[k] /\ returned'[k] = returned[k]
  <2>1. log'[Len(log')] = [stamp |-> rtc, edge |-> edge]
    BY PunchType DEF PagesIInv
  <2>2. /\ Len(log') = Len(log) + 1
        /\ returned'[Len(log')] = 0
        /\ \A k \in 1 .. Len(log) :
             log'[k] = log[k] /\ returned'[k] = returned[k]
    BY PunchType DEF PagesIInv
  <2>3. edge' = edge
    BY DEF Pages!Punch
  <2> QED
    BY <2>1, <2>2, <2>3
<1>2. Len(log) \in Nat /\ edge \in Int /\ rtc \in Int
  BY PagesAssumption DEF PagesIInv, PagesTypeInv, Pages!TypeOK, Pages!Nil
<1>3. log'[Len(log')].stamp \in Int
  BY <1>2, PunchType DEF PagesIInv
<1>4. \A k \in 1 .. Len(log') : k \in 1 .. Len(log) \/ k = Len(log')
  BY <1>1, <1>2
<1>5. EdgeGrows'
  BY <1>1, <1>2, <1>4 DEF PagesIInv, EdgeGrows
<1>6. ASSUME NEW k \in 1 .. Len(log')
      PROVE  returned'[k] =
               IF log'[k].edge <= log'[k].stamp /\ log'[k].stamp < edge'
               THEN 1 ELSE 0
  <2>1. CASE k \in 1 .. Len(log)
    BY <1>1, <2>1 DEF PagesIInv, Pages!EachPunchOnce, Pages!Asked
  <2>2. CASE k = Len(log')
    <3>1. ~(edge <= log'[k].stamp /\ log'[k].stamp < edge)
      BY <1>2, <1>3, <2>2
    <3> QED
      BY <1>1, <2>2, <3>1
  <2> QED
    BY <1>4, <2>1, <2>2
<1> QED
  BY <1>5, <1>6 DEF Pages!EachPunchOnce, Pages!Asked

LEMMA PullOnce ==
  ASSUME PagesIInv, Pages!Pull
  PROVE  EdgeGrows' /\ Pages!EachPunchOnce'
<1>1. PICK to \in 0 .. MaxTime :
        /\ edge # Pages!Nil => edge < to
        /\ returned' = [k \in 1 .. Len(log) |->
                          returned[k] + IF k \in Pages!Page(edge, to) THEN 1 ELSE 0]
        /\ edge' = to + 1
        /\ log' = log
  BY DEF Pages!Pull, Pages!Valid, Pages!Earlier
<1>2. /\ Len(log) \in Nat /\ MaxTime \in Nat
      /\ edge \in Int /\ edge >= Pages!Nil
      /\ \A k \in 1 .. Len(log) : /\ log[k].stamp \in Nat
                                  /\ log[k].edge \in Int
                                  /\ returned[k] \in Nat
  <2>1. \A k \in 1 .. Len(log) : /\ log[k].stamp \in Nat
                                  /\ log[k].edge \in Int
                                  /\ returned[k] \in Nat
    BY TypesOfPunch DEF PagesIInv
  <2>2. Len(log) \in Nat /\ MaxTime \in Nat
    BY PagesAssumption DEF PagesIInv, PagesTypeInv, Pages!TypeOK
  <2>3. edge \in Int /\ edge >= Pages!Nil
    <3>1. edge \in Pages!Nil .. MaxTime + 1 /\ Pages!Nil \in Int /\ MaxTime \in Nat
      BY PagesAssumption DEF PagesIInv, PagesTypeInv, Pages!TypeOK, Pages!Nil
    <3> QED
      BY ONLY <3>1
  <2> QED
    BY <2>1, <2>2, <2>3
<1>3. edge < to + 1
  BY <1>1, <1>2 DEF Pages!Nil
<1>4. ASSUME NEW k \in 1 .. Len(log)
      PROVE  k \in Pages!Page(edge, to) <=> edge <= log[k].stamp /\ log[k].stamp < to + 1
  <2>1. k \in Pages!Page(edge, to) <=> Pages!Kept(log[k].stamp, edge, to)
    BY DEF Pages!Page
  <2>2. log[k].stamp \in Nat /\ to \in Nat
    BY <1>2
  <2> QED
    BY <1>2, <2>1, <2>2 DEF Pages!Kept, Pages!Earlier, Pages!Nil
<1>5. EdgeGrows'
  BY <1>1, <1>2, <1>3 DEF PagesIInv, EdgeGrows
<1>6. ASSUME NEW k \in 1 .. Len(log)
      PROVE  returned'[k] = IF log[k].edge <= log[k].stamp /\ log[k].stamp < to + 1
                            THEN 1 ELSE 0
  <2>1. log[k].edge <= edge
    BY DEF PagesIInv, EdgeGrows
  <2>2. returned[k] = IF log[k].edge <= log[k].stamp /\ log[k].stamp < edge
                      THEN 1 ELSE 0
    BY DEF PagesIInv, Pages!EachPunchOnce, Pages!Asked
  <2>3. returned'[k] = returned[k] + IF k \in Pages!Page(edge, to) THEN 1 ELSE 0
    BY <1>1
  <2> QED
    BY <1>2, <1>3, <1>4, <2>1, <2>2, <2>3
<1>7. Pages!EachPunchOnce'
  BY <1>1, <1>6 DEF Pages!EachPunchOnce, Pages!Asked
<1> QED
  BY <1>5, <1>7

\* What the pages returned of an unset clock, and that the warnings count it.
StaleAsked == {k \in 1 .. Len(log) :
                 /\ log[k].stamp < EpochEnd
                 /\ log[k].edge <= log[k].stamp /\ log[k].stamp < edge}

LEMMA ToldIs ==
  /\ Pages!UnsetClockTold <=> told = Cardinality(StaleAsked)
  /\ Pages!UnsetClockTold' <=> told' = Cardinality(StaleAsked')
<1>1. {k \in Pages!Stale(1 .. Len(log)) : Pages!Asked(k)} = StaleAsked
  BY DEF Pages!Stale, Pages!Asked, StaleAsked
<1>2. ({k \in Pages!Stale(1 .. Len(log)) : Pages!Asked(k)})' = StaleAsked'
  BY DEF Pages!Stale, Pages!Asked, StaleAsked
<1> QED
  BY <1>1, <1>2 DEF Pages!UnsetClockTold, Pages!Cardinality, Cardinality

\* A punch is behind the edge that it finds, or still to be asked for.
LEMMA PunchTold ==
  ASSUME PagesIInv, Pages!Punch
  PROVE  Pages!UnsetClockTold'
<1>1. /\ Len(log') = Len(log) + 1 /\ edge' = edge /\ told' = told
      /\ log'[Len(log')] = [stamp |-> rtc, edge |-> edge]
      /\ \A k \in 1 .. Len(log) : log'[k] = log[k]
  BY PunchType DEF PagesIInv, Pages!Punch
<1>2. Len(log) \in Nat /\ edge \in Int /\ rtc \in Int
  BY PagesAssumption DEF PagesIInv, PagesTypeInv, Pages!TypeOK, Pages!Nil
<1>3. \A k \in 1 .. Len(log') : k \in 1 .. Len(log) \/ k = Len(log')
  BY <1>1, <1>2
<1>4. Len(log') \notin StaleAsked'
  BY <1>1, <1>2 DEF StaleAsked
<1>5. StaleAsked' = StaleAsked
  <2>1. \A k \in 1 .. Len(log) : k \in 1 .. Len(log') /\ (k \in StaleAsked' <=> k \in StaleAsked)
    BY <1>1, <1>2 DEF StaleAsked
  <2>2. StaleAsked \subseteq 1 .. Len(log) /\ StaleAsked' \subseteq 1 .. Len(log')
    BY DEF StaleAsked
  <2> QED
    BY <1>3, <1>4, <2>1, <2>2
<1>6. told = Cardinality(StaleAsked)
  BY ToldIs DEF PagesIInv
<1>7. told' = Cardinality(StaleAsked')
  BY <1>1, <1>5, <1>6
<1> QED
  BY <1>7, ToldIs

\* The stale records of a page are the ones that its edge passes.
LEMMA PullTold ==
  ASSUME PagesIInv, Pages!Pull
  PROVE  Pages!UnsetClockTold'
<1>1. PICK to \in 0 .. MaxTime :
        /\ edge # Pages!Nil => edge < to
        /\ warning' = Pages!EpochWarning(Pages!Page(edge, to))
        /\ told' = told + warning'.stale
        /\ edge' = to + 1
        /\ log' = log
  BY DEF Pages!Pull, Pages!Valid, Pages!Earlier
<1> DEFINE new == Pages!Stale(Pages!Page(edge, to))
<1>2. /\ Len(log) \in Nat /\ to \in Nat /\ edge \in Int
      /\ \A k \in 1 .. Len(log) : log[k].stamp \in Nat /\ log[k].edge \in Int
  <2>1. Len(log) \in Nat /\ to \in Nat /\ edge \in Int
    BY PagesAssumption DEF PagesIInv, PagesTypeInv, Pages!TypeOK, Pages!Nil
  <2>2. \A k \in 1 .. Len(log) : log[k].stamp \in Nat /\ log[k].edge \in Int
    BY TypesOfPunch DEF PagesIInv
  <2> QED
    BY <2>1, <2>2
<1>3. edge < to + 1
  <2>1. edge = -1 \/ edge < to
    BY <1>1 DEF Pages!Nil
  <2> QED
    BY ONLY <1>2, <2>1
<1>4. ASSUME NEW k \in 1 .. Len(log)
      PROVE  k \in new <=> /\ log[k].stamp < EpochEnd
                           /\ edge <= log[k].stamp /\ log[k].stamp < to + 1
  <2>1. k \in new <=> log[k].stamp < EpochEnd /\ Pages!Kept(log[k].stamp, edge, to)
    BY DEF Pages!Page, Pages!Stale
  <2>2. Pages!Kept(log[k].stamp, edge, to) <=> edge <= log[k].stamp /\ log[k].stamp < to + 1
    BY <1>2 DEF Pages!Kept, Pages!Earlier, Pages!Nil
  <2> QED
    BY <2>1, <2>2
<1>5. ASSUME NEW k \in 1 .. Len(log)
      PROVE  /\ k \in StaleAsked' <=> k \in StaleAsked \/ k \in new
             /\ ~(k \in StaleAsked /\ k \in new)
  <2>1. log[k].edge <= edge
    BY DEF PagesIInv, EdgeGrows
  <2>2. k \in StaleAsked <=> /\ log[k].stamp < EpochEnd
                             /\ log[k].edge <= log[k].stamp /\ log[k].stamp < edge
    BY DEF StaleAsked
  <2>3. k \in StaleAsked' <=> /\ log[k].stamp < EpochEnd
                              /\ log[k].edge <= log[k].stamp /\ log[k].stamp < to + 1
    BY <1>1 DEF StaleAsked
  <2> HIDE DEF new
  <2> QED
    BY <1>2, <1>3, <1>4, <2>1, <2>2, <2>3
<1>6. /\ StaleAsked \subseteq 1 .. Len(log) /\ StaleAsked' \subseteq 1 .. Len(log)
      /\ new \subseteq 1 .. Len(log)
  BY <1>1 DEF StaleAsked, Pages!Stale, Pages!Page
<1> HIDE DEF new
<1>7. StaleAsked' = StaleAsked \cup new /\ StaleAsked \cap new = {}
  BY <1>5, <1>6
<1>8. IsFiniteSet(StaleAsked) /\ IsFiniteSet(new)
  <2>1. IsFiniteSet(1 .. Len(log))
    BY <1>2, FS_Interval
  <2> QED
    BY <1>6, <2>1, FS_Subset
<1>9. Cardinality(StaleAsked') = Cardinality(StaleAsked) + Cardinality(new)
  <2>1. Cardinality(StaleAsked \cup new)
          = Cardinality(StaleAsked) + Cardinality(new) - Cardinality(StaleAsked \cap new)
    BY <1>8, FS_Union
  <2>2. Cardinality(StaleAsked \cap new) = 0
    BY <1>7, FS_EmptySet
  <2>3. Cardinality(StaleAsked) \in Nat /\ Cardinality(new) \in Nat
    BY <1>8, FS_CardinalityType
  <2> QED
    BY <1>7, <2>1, <2>2, <2>3
<1>10. warning'.stale = Cardinality(new)
  BY <1>1 DEF Pages!EpochWarning, Pages!Cardinality, Cardinality, new
<1>11. told = Cardinality(StaleAsked)
  BY ToldIs DEF PagesIInv
<1>12. told' = Cardinality(StaleAsked')
  BY <1>1, <1>9, <1>10, <1>11
<1> QED
  BY <1>12, ToldIs

LEMMA PagesKept ==
  ASSUME PagesIInv, [Pages!Next]_(Pages!vars)
  PROVE  PagesIInv'
<1>1. PagesTypeInv'
  BY PagesTypeKept DEF PagesIInv
<1>2. CASE Pages!ClocksRun \/ Pages!BatteryEmpty \/ Pages!ClockSet \/ UNCHANGED Pages!vars
  <2>1. UNCHANGED <<log, edge, returned, told>>
    BY <1>2 DEF Pages!ClocksRun, Pages!BatteryEmpty, Pages!ClockSet, Pages!vars
  <2>2. EdgeGrows' /\ Pages!EachPunchOnce'
    BY <2>1 DEF PagesIInv, EdgeGrows, Pages!EachPunchOnce, Pages!Asked
  <2>3. StaleAsked' = StaleAsked /\ told = Cardinality(StaleAsked)
    BY <2>1, ToldIs DEF PagesIInv, StaleAsked
  <2>4. told' = Cardinality(StaleAsked')
    BY <2>1, <2>3
  <2>5. Pages!UnsetClockTold'
    BY <2>4, ToldIs
  <2> QED
    BY <1>1, <2>2, <2>5 DEF PagesIInv
<1> QED
  BY <1>1, <1>2, PunchOnce, PullOnce, PunchTold, PullTold DEF Pages!Next, PagesIInv

-----------------------------------------------------------------------------
(* The parts together.  A step of MCLog is one of one part and leaves the  *)
(* others alone, so each part keeps its own invariant.                     *)

CodecP == INSTANCE TimeCodecProofs WITH now <- instant

mcVars == <<part, vars, fieldsVars, codecVars, pagesVars>>

LEMMA CodecIsCodec ==
  /\ Codec!Init <=> CodecP!Init
  /\ Codec!Next <=> CodecP!Next
  /\ Codec!TypeOK <=> CodecP!TypeOK
  /\ Codec!ReadsAsSet <=> CodecP!ReadsAsSet
<1>1. /\ \A y : Codec!IsLeap(y) <=> CodecP!IsLeap(y)
      /\ \A y : Codec!YearDay(y) = CodecP!YearDay(y)
  BY DEF Codec!IsLeap, CodecP!IsLeap, Codec!YearDay, CodecP!YearDay,
         Codec!LeapDays, CodecP!LeapDays
<1>2. \A y, m : Codec!DaysIn(y, m) = CodecP!DaysIn(y, m)
  BY <1>1 DEF Codec!DaysIn, CodecP!DaysIn
<1>3. \A y, m : Codec!MonthDay(y, m) = CodecP!MonthDay(y, m)
  BY <1>1 DEF Codec!MonthDay, CodecP!MonthDay, Codec!MonthOffset, CodecP!MonthOffset
<1>4. \A day : Codec!YearOf(day) = CodecP!YearOf(day)
  BY <1>1 DEF Codec!YearOf, CodecP!YearOf
<1>5. \A day, y : Codec!MonthOf(y, day) = CodecP!MonthOf(y, day)
  BY <1>3 DEF Codec!MonthOf, CodecP!MonthOf
<1>6. \A day : Codec!DateOf(day) = CodecP!DateOf(day)
  BY <1>3, <1>4, <1>5 DEF Codec!DateOf, CodecP!DateOf
<1>7. \A t : Codec!Offset(t) = CodecP!Offset(t) /\ Codec!Local(t) = CodecP!Local(t)
  BY DEF Codec!Offset, CodecP!Offset, Codec!Local, CodecP!Local
<1>8. \A date, t : Codec!Packed(date, t) = CodecP!Packed(date, t)
  BY DEF Codec!Packed, CodecP!Packed
<1>9. \A t : Codec!EncodeZKTime(t) = CodecP!EncodeZKTime(t)
  BY <1>7, <1>8, <1>6 DEF Codec!EncodeZKTime, CodecP!EncodeZKTime
<1>10. \A v : Codec!DecodedDate(v) = CodecP!DecodedDate(v)
  BY DEF Codec!DecodedDate, CodecP!DecodedDate
<1>11. \A t : Codec!InstantsOf(t) = CodecP!InstantsOf(t)
  BY <1>7 DEF Codec!InstantsOf, CodecP!InstantsOf
<1>12. \A v : Codec!DecodeZKTime(v) = CodecP!DecodeZKTime(v)
  BY <1>3, <1>10, <1>11 DEF Codec!DecodeZKTime, CodecP!DecodeZKTime, Codec!DayOf, CodecP!DayOf
<1>13. \A date : Codec!NextDate(date) = CodecP!NextDate(date)
  BY <1>2 DEF Codec!NextDate, CodecP!NextDate
<1>14. \A v : Codec!Ticked(v) = CodecP!Ticked(v)
  BY <1>8, <1>10, <1>13 DEF Codec!Ticked, CodecP!Ticked
<1>15. Codec!Init <=> CodecP!Init
  BY DEF Codec!Init, CodecP!Init, Codec!Unset, CodecP!Unset
<1>16. Codec!Next <=> CodecP!Next
  BY <1>7, <1>9, <1>14 DEF Codec!Next, CodecP!Next, Codec!SetDeviceTime,
     CodecP!SetDeviceTime, Codec!Tick, CodecP!Tick
<1>17. Codec!TypeOK <=> CodecP!TypeOK
  BY DEF Codec!TypeOK, CodecP!TypeOK, Codec!Unset, CodecP!Unset
<1>18. Codec!InCentury <=> CodecP!InCentury
  BY <1>3, <1>7 DEF Codec!InCentury, CodecP!InCentury
<1>19. Codec!ReadsAsSet <=> CodecP!ReadsAsSet
  BY <1>3, <1>7, <1>11, <1>12, <1>18 DEF Codec!ReadsAsSet, CodecP!ReadsAsSet,
     Codec!Unset, CodecP!Unset
<1> QED
  BY <1>15, <1>16, <1>17, <1>19

LEMMA FirstStates ==
  ASSUME MCInit
  PROVE  Init /\ Fields!Init /\ Codec!Init /\ Pages!Init
BY FieldsAssumption DEF MCInit, Fields!Init

LEMMA OnePartSteps ==
  ASSUME [MCNext]_mcVars
  PROVE  /\ [Next]_vars /\ [Fields!Next]_(Fields!vars)
         /\ [Codec!Next]_(Codec!vars) /\ [Pages!Next]_(Pages!vars)
BY DEF MCNext, GridStep, FieldsStep, CodecStep, PagesStep, mcVars, vars, fieldsVars,
       codecVars, pagesVars, Fields!vars, Codec!vars, Pages!vars

\* A behaviour of the model that the run checks is one of each of its parts.
LEMMA PartsImplemented == MCSpec => Spec /\ Fields!Spec /\ Codec!Spec /\ Pages!Spec
BY FirstStates, OnePartSteps, PTL DEF MCSpec, mcVars, Spec, Fields!Spec, Codec!Spec, Pages!Spec

LEMMA FieldsInvariant == Fields!Spec => []FieldsIInv
BY FieldsInit, FieldsKept, PTL DEF Fields!Spec

LEMMA PagesInvariant == Pages!Spec => []PagesIInv
<1>1. ASSUME Pages!Init PROVE PagesIInv
  <2>1. log = <<>> /\ Len(<<>>) = 0 /\ told = 0
    BY <1>1 DEF Pages!Init
  <2>2. EdgeGrows /\ Pages!EachPunchOnce
    BY <2>1 DEF EdgeGrows, Pages!EachPunchOnce
  <2>3. StaleAsked = {}
    BY <2>1 DEF StaleAsked
  <2>4. Pages!UnsetClockTold
    BY <2>1, <2>3, ToldIs, FS_EmptySet
  <2> QED
    BY <1>1, <2>2, <2>4, PagesInit DEF PagesIInv
<1> QED
  BY <1>1, PagesKept, PTL DEF Pages!Spec

LEMMA CodecInvariant == Codec!Spec => [](Codec!TypeOK /\ Codec!ReadsAsSet)
<1>1. CodecP!CodecAssumption
  BY CodecAssumption DEF CodecP!CodecAssumption
<1>2. CodecP!Spec => []CodecP!TypeOK
  BY <1>1, CodecP!TypeCorrect
<1>3. CodecP!Spec => []CodecP!ReadsAsSet
  BY <1>1, CodecP!ReadsBack
<1>4. [Codec!Next]_(Codec!vars) => [CodecP!Next]_(CodecP!vars)
  BY CodecIsCodec DEF Codec!vars, CodecP!vars
<1>5. Codec!Spec => CodecP!Spec
  BY <1>4, CodecIsCodec, PTL DEF Codec!Spec, CodecP!Spec
<1> QED
  BY <1>2, <1>3, <1>5, CodecIsCodec, PTL

\* In all that becomes of a log, the record size is one of the device's or none,
\* a user's number fits an int, the device's time its four bytes, and a warning
\* counts no more records than its page has.
THEOREM PartsTypeCorrect == MCSpec => []PartsTypeOK
<1>1. TypeOK /\ FieldsIInv /\ PagesIInv /\ Codec!TypeOK => PartsTypeOK
  BY DEF FieldsIInv, PagesIInv, PagesTypeInv, PartsTypeOK
<1> QED
  BY <1>1, PartsImplemented, GridTypeCorrect, FieldsInvariant, PagesInvariant,
     CodecInvariant, PTL

\* Whatever the field of a user holds, however long: a punch is given to the
\* number that is written there, cut to an int, or to the one of the record.
THEOREM InventsNoUser == MCSpec => []NoInventedUser
<1>1. FieldsIInv => NoInventedUser
  BY DEF FieldsIInv, NoInventedUser
<1> QED
  BY <1>1, PartsImplemented, FieldsInvariant, PTL

\* On every day from 2000 to 2099, whenever the device was set, its clock is read
\* as the time of the server, but for a change to or from summer time.
THEOREM ClockReadsAsSet == MCSpec => []ReadsAsSet
<1>1. Codec!TypeOK /\ Codec!ReadsAsSet => ReadsAsSet
  BY DEF ReadsAsSet
<1> QED
  BY <1>1, PartsImplemented, CodecInvariant, PTL

\* However the clocks of the device and the client jump, a client that asks from
\* where it ended never gets a punch twice, nor misses one stamped at its edge or
\* later.
THEOREM PunchesOnce == MCSpec => []EachPunchOnce
<1>1. PagesIInv => EachPunchOnce
  BY DEF PagesIInv, EachPunchOnce
<1> QED
  BY <1>1, PartsImplemented, PagesInvariant, PTL

\* However the clocks jump and the pages are cut, each punch of an unset clock
\* that a client gets is in the warning of its page, and in no other.
THEOREM TellsOfUnsetClock == MCSpec => []UnsetClockTold
<1>1. PagesIInv => UnsetClockTold
  BY DEF PagesIInv, UnsetClockTold
<1> QED
  BY <1>1, PartsImplemented, PagesInvariant, PTL

=============================================================================
