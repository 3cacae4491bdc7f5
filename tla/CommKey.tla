------------------------------- MODULE CommKey -------------------------------
(***************************************************************************)
(* The comm key in the handshake of dialRaw (session.go): the key that     *)
(* parseCommKey (device.go) lets through, scrambled with the session id by *)
(* makeCommKey (proto.go), against a device that scrambles its own key in  *)
(* the same way and compares.                                              *)
(*                                                                         *)
(* A byte has ByteBits bits here; a session id has two bytes, a key and    *)
(* its scrambled form four.  Bits are taken by recursive functions, so     *)
(* that what they do to every key can be proved.                           *)
(***************************************************************************)
EXTENDS Integers

CONSTANTS
  ByteBits,  \* 8
  Ticks,     \* commKeyTicks: 50
  MaxKey     \* bound: the largest number in a request, and the largest key

VARIABLES
  password,   \* of the request
  key,        \* the comm key of the device; 0 if it has none
  pc,         \* "parse", "connect", "auth", "verdict" or "done"
  sessionID,  \* given by the device in its first answer
  payload,    \* of CMD_AUTH
  outcome     \* "none", or how Connect ends

vars == <<password, key, pc, sessionID, payload, outcome>>

-----------------------------------------------------------------------------
WordBits == 4 * ByteBits

\* 1 << i
Power[i \in 0 .. WordBits] == IF i = 0 THEN 1 ELSE 2 * Power[i - 1]

ByteSize == Power[ByteBits]
Words32 == Power[WordBits]
Bytes == 0 .. ByteSize - 1

\* key >> i; its lowest bit is key & (1 << i).
Shifted(k) ==
  LET rest[i \in 0 .. WordBits] == IF i = 0 THEN k ELSE rest[i - 1] \div 2
  IN  rest

\* The loop shifts the bits of the key in, the lowest first.
Reversing(k) ==
  LET k32[i \in 0 .. WordBits] ==
        IF i = 0 THEN 0 ELSE (2 * k32[i - 1] + (Shifted(k)[i - 1] % 2)) % Words32
  IN  k32
Reversed(k) == Reversing(k)[WordBits]

\* The bytes of a number, the lowest first.
BytesOf(n) ==
  LET rest(m) == m \div ByteSize IN
  <<n % ByteSize, rest(n) % ByteSize, rest(rest(n)) % ByteSize,
    rest(rest(rest(n))) % ByteSize>>

\* a ^ b of two bytes, over their lowest w bits.
Xors[w \in 0 .. ByteBits] ==
  [a \in Bytes |-> [b \in Bytes |->
     IF w = 0 THEN 0 ELSE 2 * Xors[w - 1][a \div 2][b \div 2] + ((a + b) % 2)]]
Xor(a, b) == Xors[ByteBits][a][b]

Z == 90 % ByteSize
K == 75 % ByteSize
S == 83 % ByteSize
O == 79 % ByteSize

\* The halves of the four bytes are swapped and the ticks mixed in; the third
\* byte is lost to them.
Mixed(b) ==
  LET t == Ticks % ByteSize IN <<Xor(b[3], t), Xor(b[4], t), t, Xor(b[2], t)>>

MakeCommKey(k, session) ==
  LET b == BytesOf((Reversed(k) + session) % Words32)
  IN Mixed(<<Xor(b[1], Z), Xor(b[2], K), Xor(b[3], S), Xor(b[4], O)>>)

-----------------------------------------------------------------------------
\* parseCommKey; Atoi alone would let a negative number through.
ValidAny(pw) == TRUE
Valid(pw) == pw >= 0

ParseCommKey ==
  /\ pc = "parse"
  /\ IF Valid(password) THEN pc' = "connect" /\ UNCHANGED outcome
                        ELSE pc' = "done" /\ outcome' = "invalid"
  /\ UNCHANGED <<password, key, sessionID, payload>>

\* CMD_CONNECT is answered with a session id, and 2005 if the device has a key.
ConnectReturns ==
  /\ pc = "connect"
  /\ \E id \in 0 .. ByteSize * ByteSize - 1 : sessionID' = id
  /\ IF key = 0 THEN pc' = "done" /\ outcome' = "connected"
                ELSE pc' = "auth" /\ UNCHANGED outcome
  /\ UNCHANGED <<password, key, payload>>

Authenticate ==
  /\ pc = "auth"
  /\ payload' = MakeCommKey(password, sessionID)
  /\ pc' = "verdict"
  /\ UNCHANGED <<password, key, sessionID, outcome>>

\* The device compares with what it makes of its own key.
AuthReturns ==
  /\ pc = "verdict"
  /\ outcome' = IF payload = MakeCommKey(key, sessionID) THEN "connected"
                                                         ELSE "wrong key"
  /\ pc' = "done"
  /\ UNCHANGED <<password, key, sessionID, payload>>

Init ==
  /\ password \in -MaxKey .. MaxKey /\ key \in 0 .. MaxKey
  /\ pc = "parse"
  /\ sessionID = 0 /\ payload = <<>> /\ outcome = "none"

Done == pc = "done" /\ UNCHANGED vars

Next == ParseCommKey \/ ConnectReturns \/ Authenticate \/ AuthReturns \/ Done

Spec == Init /\ [][Next]_vars

-----------------------------------------------------------------------------
(* Properties *)

\* A scrambled key is four bytes, whatever was shifted and swapped in it
\* (makeCommKey).
TypeOK ==
  /\ password \in -MaxKey .. MaxKey /\ key \in 0 .. MaxKey
  /\ pc \in {"parse", "connect", "auth", "verdict", "done"}
  /\ sessionID \in 0 .. ByteSize * ByteSize - 1
  /\ payload # <<>> => payload \in [1 .. 4 -> Bytes]
  /\ outcome \in {"none", "invalid", "connected", "wrong key"}

\* A byte of the scrambled key is thrown away, and yet two keys of up to three
\* bytes are never confused, whatever session id they are mixed with: it is the
\* byte to which nothing but the session id and the key's fourth byte adds, and
\* the carry out of it is the same for both.
KeysToldApart ==
  /\ outcome = "connected" /\ key # 0
  /\ password < Power[3 * ByteBits] /\ key < Power[3 * ByteBits]
  => password = key

=============================================================================
