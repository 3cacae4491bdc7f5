------------------------------- MODULE MCLog --------------------------------
(***************************************************************************)
(* What becomes of a log that was read, for one run: its records are found *)
(* (RecordGrid), their users and times are read (RecordFields, TimeCodec), *)
(* and pages of it are returned (LogPages).  Each behaviour is one of one  *)
(* part; the others stay in an initial state.                              *)
(***************************************************************************)
EXTENDS RecordGrid

CONSTANTS
  Digits, Wide, FieldLen, Uids,          \* RecordFields
  DayTicks, Shift, SummerFrom, SummerTill, Before, End,  \* TimeCodec
  EpochEnd, First, MaxTime, MaxPunches   \* LogPages

\* A number fits an int, and 0 stands for no number.
ASSUME FieldsAssumption ==
  /\ Digits \subseteq 0 .. 9
  /\ Wide \in Nat \ {0} /\ Wide % 2 = 0
  /\ FieldLen \in Nat
  /\ 0 \in Uids /\ Uids \subseteq 0 .. Wide \div 2 - 1

\* Summer time is at most a day, and the server's clock starts in the century
\* before 2000 and ends in the two after it.
ASSUME CodecAssumption ==
  /\ DayTicks \in Nat \ {0} /\ Shift \in 0 .. DayTicks
  /\ SummerFrom \in Int /\ SummerTill \in Int
  /\ Before \in Nat /\ Before <= 99 * 365 * DayTicks
  /\ End \in Nat /\ End <= 200 * 365 * DayTicks

\* The clocks count from zero, and a client begins within what they can show.
ASSUME PagesAssumption ==
  /\ EpochEnd \in Nat /\ MaxTime \in Nat /\ MaxPunches \in Nat
  /\ First \in 0 .. MaxTime

VARIABLES
  part,
  recordSize, text, uid, pc, s, i, n, user, kept,
  instant, stored, zone,
  now, rtc, log, edge, returned, warning, told

fieldsVars == <<recordSize, text, uid, pc, s, i, n, user, kept>>
codecVars == <<instant, stored, zone>>
pagesVars == <<now, rtc, log, edge, returned, warning, told>>

Fields == INSTANCE RecordFields WITH size <- recordSize
Codec == INSTANCE TimeCodec WITH now <- instant
Pages == INSTANCE LogPages

MCInit ==
  /\ part \in {"grid", "fields", "codec", "pages"}
  /\ Init /\ (part = "grid" \/ (dialect = 8 /\ records = 0))
  /\ IF part = "fields" THEN Fields!Init
     ELSE /\ recordSize = 8 /\ text = <<>> /\ uid = 0 /\ pc = "parse"
          /\ s = <<>> /\ i = 0 /\ n = 0 /\ user = 0 /\ kept = FALSE
  /\ Codec!Init
  /\ Pages!Init /\ (part = "pages" \/ (now = EpochEnd /\ rtc = now /\ edge = First))

GridStep ==
  part = "grid" /\ Next /\ UNCHANGED <<part, fieldsVars, codecVars, pagesVars>>
FieldsStep ==
  part = "fields" /\ Fields!Next /\ UNCHANGED <<part, vars, codecVars, pagesVars>>
CodecStep ==
  part = "codec" /\ Codec!Next /\ UNCHANGED <<part, vars, fieldsVars, pagesVars>>
PagesStep ==
  part = "pages" /\ Pages!Next /\ UNCHANGED <<part, vars, fieldsVars, codecVars>>

MCNext == GridStep \/ FieldsStep \/ CodecStep \/ PagesStep

MCSpec == MCInit /\ [][MCNext]_<<part, vars, fieldsVars, codecVars, pagesVars>>

-----------------------------------------------------------------------------
(* The properties of RecordFields, TimeCodec and LogPages *)

\* The record size is one of the device's or none, the numbers of a record's
\* user fit an int, the device's time fits the four bytes it is sent in, and a
\* warning counts no more records than its page has.
PartsTypeOK == TypeOK /\ Fields!TypeOK /\ Codec!TypeOK /\ Pages!TypeOK

\* RecordFields: a punch is given to the number its text is, cut to an int, or
\* else to the uid of its record.
NoInventedUser == Fields!NoInventedUser

\* TimeCodec: from 2000 to 2099 the device's clock reads as it was set, and one
\* that was never set counts from the start of 2000.
ReadsAsSet == Codec!ReadsAsSet

\* LogPages: a punch is on one page unless it was stamped behind the pages.
EachPunchOnce == Pages!EachPunchOnce

\* LogPages: each returned punch of an unset clock is in one page's warning.
UnsetClockTold == Pages!UnsetClockTold

=============================================================================
