----------------------------- MODULE MCRequests -----------------------------
(***************************************************************************)
(* The short requests over a session, for one run: the clock is read and   *)
(* set (ClockSync), or the options are read (DeviceInfo).  Each behaviour  *)
(* is one of one part; the other stays in an initial state.                *)
(***************************************************************************)
EXTENDS ClockSync

VARIABLES
  part,
  blank, asked, field, infoPc

Info == INSTANCE DeviceInfo WITH pc <- infoPc

infoVars == <<blank, asked, field, infoPc>>

MCInit ==
  /\ part \in {"clock", "info"}
  /\ Init /\ (part = "clock" \/ (op = "read" /\ obeys /\ skew = 0))
  /\ Info!Init /\ (part = "info" \/ blank = {})

ClockStep == part = "clock" /\ Next /\ UNCHANGED <<part, infoVars>>
InfoStep ==
  /\ part = "info" /\ Info!Next
  /\ UNCHANGED <<part, deviceVars, serverVars>>

MCNext == ClockStep \/ InfoStep

MCSpec == MCInit /\ [][MCNext]_<<part, vars, infoVars>>

-----------------------------------------------------------------------------
(* The properties of both, and those of DeviceInfo *)

\* The reply id fits a word in each request, a clock reading stays within the
\* run of time, and each field has the value of an option or none.
RequestsTypeOK == TypeOK /\ Info!TypeOK

\* With no late answer every field has its own option's value.
OwnOptions == Info!OwnOptions

\* A field never has the value of an option read after it.
FieldsLag == Info!FieldsLag

=============================================================================
