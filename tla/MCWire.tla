------------------------------- MODULE MCWire -------------------------------
(***************************************************************************)
(* What a session does with bytes, for one run: packets are summed         *)
(* (Packet), frames are read (FrameReader), and keys are scrambled         *)
(* (CommKey).  Each behaviour is one of one part; the two others stay in   *)
(* an initial state.                                                       *)
(***************************************************************************)
EXTENDS Packet, FrameReader

CONSTANTS ByteBits, Ticks, MaxKey  \* CommKey

ASSUME KeyAssumption == ByteBits \in Nat /\ Ticks \in Nat /\ MaxKey \in Nat

VARIABLES
  part,
  password, key, keyPc, sessionID, payload, outcome

keyVars == <<password, key, keyPc, sessionID, payload, outcome>>

Key == INSTANCE CommKey WITH pc <- keyPc

MCInit ==
  /\ part \in {"packet", "reader", "key"}
  /\ Init /\ (part = "packet" \/ (replyID = 0 /\ left = 8))
  /\ ReaderInit
  /\ Key!Init /\ (part = "key" \/ (password = 0 /\ key = 0))

PacketStep == part = "packet" /\ Next /\ UNCHANGED <<part, readerVars, keyVars>>
ReaderStep == part = "reader" /\ ReaderNext /\ UNCHANGED <<part, vars, keyVars>>
KeyStep == part = "key" /\ Key!Next /\ UNCHANGED <<part, vars, readerVars>>

MCNext == PacketStep \/ ReaderStep \/ KeyStep

MCSpec ==
  /\ MCInit
  /\ [][MCNext]_<<part, vars, readerVars, keyVars>>
  /\ WF_readerVars(part = "reader" /\ Reader /\ UNCHANGED <<part, vars, keyVars>>)

-----------------------------------------------------------------------------
(* The types of FrameReader and CommKey, and the property of CommKey *)

\* The reader has never got more than has arrived, and a scrambled key has four
\* bytes.
PartsTypeOK == ReaderTypeOK /\ Key!TypeOK

\* No other key than the device's is accepted.
KeysToldApart == Key!KeysToldApart

=============================================================================
