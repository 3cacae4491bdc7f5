---------------------------- MODULE RecordFields ----------------------------
(***************************************************************************)
(* Whose punch a record is: parseRec and digitsOnly (attendance_raw2.go)   *)
(* for the three dialects, in the arithmetic of a signed int.              *)
(*                                                                         *)
(* In records of 8 and 16 bytes the user is a number.  In those of 40 it   *)
(* is a text, which is taken when it is a number and else gives way to the *)
(* number uid in front of it.  A record without a user is dropped.         *)
(***************************************************************************)
EXTENDS Integers, Sequences

CONSTANTS
  Digits,    \* the digits that occur
  Wide,      \* what an int wraps at: 2^64
  FieldLen,  \* bytes of the text: 24
  Uids       \* the numbers that occur

\* Characters that are not digits.
Nul    == 10
Space  == 11
Letter == 12
Chars  == Digits \cup {Nul, Space, Letter}

VARIABLES
  size,   \* of the record: 8, 16 or 40
  text,   \* its user field, if it is one of 40
  uid,    \* its number
  pc,     \* "parse", "digits" or "done"
  s,      \* the text digitsOnly is given
  i,      \* characters of it read
  n,      \* their value
  user,   \* userID
  kept    \* parseRec's second result

vars == <<size, text, uid, pc, s, i, n, user, kept>>

-----------------------------------------------------------------------------
\* An int of so many bits, in two's complement.
Int64(x) == ((x + Wide \div 2) % Wide) - Wide \div 2

\* raw[:indexZero(raw)]
UpToZero(t) ==
  IF \E k \in 1 .. Len(t) : t[k] = Nul
  THEN SubSeq(t, 1, (CHOOSE k \in 1 .. Len(t) :
                       t[k] = Nul /\ \A j \in 1 .. k - 1 : t[j] # Nul) - 1)
  ELSE t

\* strings.TrimSpace
TrimSpace(t) ==
  LET ink == {k \in 1 .. Len(t) : t[k] # Space} IN
  IF ink = {} THEN <<>>
  ELSE SubSeq(t, CHOOSE k \in ink : \A j \in ink : k <= j,
                 CHOOSE k \in ink : \A j \in ink : j <= k)

\* The user is u; the record is dropped if that is no user.
Give(u) ==
  /\ pc' = "done"
  /\ user' = u
  /\ kept' = (u > 0)

ParseRec ==
  /\ pc = "parse"
  /\ IF size = 40
     THEN /\ s' = TrimSpace(UpToZero(text))
          /\ IF s' = <<>> THEN Give(uid)
                          ELSE pc' = "digits" /\ UNCHANGED <<user, kept>>
     ELSE Give(uid) /\ UNCHANGED s
  /\ UNCHANGED <<size, text, uid, i, n>>

\* The value after another digit, in an int that wraps.
NextValue(v, d) == Int64(v * 10 + d)

\* A text is a number if it has nothing but digits; the variant passes over
\* whatever else it has.
IsDigitOrSkipped(c) == TRUE
IsDigit(c) == c \in 0 .. 9

DigitsOnly ==
  /\ pc = "digits"
  /\ IF i = Len(s) THEN Give(n) /\ UNCHANGED <<i, n>>
     ELSE IF ~IsDigit(s[i + 1]) THEN Give(uid) /\ UNCHANGED <<i, n>>
     ELSE /\ i' = i + 1
          /\ n' = NextValue(n, s[i + 1])
          /\ UNCHANGED <<pc, user, kept>>
  /\ UNCHANGED <<size, text, uid, s>>

Init ==
  /\ size \in {8, 16, 40}
  /\ text \in IF size = 40 THEN [1 .. FieldLen -> Chars] ELSE {<<>>}
  /\ uid \in Uids
  /\ pc = "parse"
  /\ s = <<>> /\ i = 0 /\ n = 0
  /\ user = 0 /\ kept = FALSE

Done == pc = "done" /\ UNCHANGED vars

Next == ParseRec \/ DigitsOnly \/ Done

Spec == Init /\ [][Next]_vars

-----------------------------------------------------------------------------
(* Properties *)

\* The user read, and each number on the way to it, fits an int (parseRec,
\* digitsOnly).
TypeOK ==
  /\ pc \in {"parse", "digits", "done"}
  /\ s \in Seq(Chars) /\ i \in 0 .. Len(s)
  /\ n \in -(Wide \div 2) .. Wide \div 2 - 1
  /\ user \in -(Wide \div 2) .. Wide \div 2 - 1
  /\ kept \in BOOLEAN

\* A text of digits, with what may stand around it, and the number it is.
IsNumber(t) == t # <<>> /\ \A k \in 1 .. Len(t) : t[k] \in 0 .. 9
Values(t) ==
  LET value[k \in 0 .. Len(t)] == IF k = 0 THEN 0 ELSE value[k - 1] * 10 + t[k]
  IN  value
ValueOf(t) == Values(t)[Len(t)]

\* The text is blanks, the digits t, and blanks or whatever follows a zero.
Shows(t) ==
  \E from \in 0 .. FieldLen, till \in 0 .. FieldLen :
    /\ from <= till /\ SubSeq(text, from + 1, till) = t
    /\ \A k \in 1 .. from : text[k] = Space
    /\ \E stop \in till .. FieldLen :
         /\ \A k \in till + 1 .. stop : text[k] = Space
         /\ stop = FieldLen \/ text[stop + 1] = Nul

\* A punch is given to the number that the whole of the text is, cut to an int
\* once and not digit by digit, or to the uid of the record if the text is no
\* number; it is dropped if and only if that is not positive.  (A text too long
\* for an int so names a user who is not in the record, or none: digitsOnly has
\* no bound.)
NoInventedUser ==
  pc = "done" =>
    /\ user = IF size = 40 /\ IsNumber(s) THEN Int64(ValueOf(s)) ELSE uid
    /\ size = 40 /\ user # uid => Shows(s)
    /\ kept <=> user > 0

=============================================================================
