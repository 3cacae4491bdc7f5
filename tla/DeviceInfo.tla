----------------------------- MODULE DeviceInfo -----------------------------
(***************************************************************************)
(* GetDeviceInfo (device.go) over one session, once Connect has returned:  *)
(* four option reads in a row, the error of each thrown away, and the      *)
(* answers taken in the order in which they come.  The key in front of an  *)
(* answer's "=" is not compared with the option that was asked for.        *)
(***************************************************************************)
EXTENDS ZKWire, FiniteSets

\* The options, by the order in which the code reads them.
Serial   == 1   \* ~SerialNumber
Name     == 2   \* ~DeviceName
Platform == 3   \* ~Platform, read and not reported
Firmware == 4   \* FPVersion
Options  == {Serial, Name, Platform, Firmware}

\* The value of option k is k.  Two more values a field may have:
Blank      == 0  \* the empty string
ConfigName == 5  \* the name in the request

VARIABLES
  blank,   \* the options for which the device holds no value
  asked,   \* the option that is read next, or being read
  field,   \* the values read so far
  pc       \* "ask", "disconnect" or "done"

vars == <<wireVars, blank, asked, field, pc>>

-----------------------------------------------------------------------------
(* The device *)

\* The answer of a device that has nothing wrong with it: the option's value.
ProperAnswer(q) ==
  [code |-> "OK", size |-> 0,
   data |-> IF q.cmd # "options" THEN <<>>
            ELSE IF q.start \in blank THEN <<Blank>> ELSE <<q.start>>]

Refusal == [code |-> "ERROR", data |-> <<>>, size |-> 0]

DeviceHandles ==
  /\ requests # <<>>
  /\ Handle(ProperAnswer(Head(requests)), 0) \/ Handle(Refusal, 1)
  /\ UNCHANGED <<blank, asked, field, pc>>

DeviceIgnores == Ignore /\ UNCHANGED <<blank, asked, field, pc>>

ConnectionDrops == Drop /\ UNCHANGED <<blank, asked, field, pc>>

-----------------------------------------------------------------------------
(* The server *)

\* The option a read asks for, and a variant copied from the line above.
OptionOfCopied(k) == IF k = Name THEN Serial ELSE k
OptionOf(k) == k

SendCommand ==
  /\ pc = "ask"
  /\ Write("options", OptionOf(asked), 0)
  /\ UNCHANGED <<blank, asked, field, pc>>

\* parseOption: what follows the "=", whatever stands before it.
ParseOption(data) == IF data = <<>> THEN Blank ELSE data[1]

\* Variant: an error leaves what the option before had.
ValueKept(o) ==
  IF Accepted(o, Codes \ {"ERROR"}, 0) THEN ParseOption(o.data)
  ELSE IF asked = Serial THEN Blank ELSE field[asked - 1]

\* getOption: a refusal and a failed exchange are errors, and give "".
Value(o) == IF Accepted(o, Codes \ {"ERROR"}, 0) THEN ParseOption(o.data) ELSE Blank

GetOptionReturns ==
  /\ pc = "ask"
  /\ \E o \in ReadOutcomes :
       /\ Return(o, "options")
       /\ field' = [field EXCEPT ![asked] = Value(o)]
  /\ IF asked = Firmware
     THEN pc' = "disconnect" /\ UNCHANGED asked
     ELSE asked' = asked + 1 /\ UNCHANGED pc
  /\ UNCHANGED blank

\* The name falls back to the request's; then the deferred Disconnect.
Disconnect ==
  /\ pc = "disconnect"
  /\ Close
  /\ field' = [field EXCEPT ![Name] = IF @ = Blank THEN ConfigName ELSE @]
  /\ pc' = "done"
  /\ UNCHANGED <<blank, asked>>

-----------------------------------------------------------------------------
Init ==
  /\ WireInit
  /\ blank \in SUBSET Options
  /\ asked = Serial
  /\ field = [k \in Options |-> Blank]
  /\ pc = "ask"

\* The request is over and the device has caught up.
Finished == pc = "done" /\ requests = <<>> /\ UNCHANGED vars

Next ==
  \/ SendCommand \/ GetOptionReturns \/ Disconnect
  \/ DeviceHandles \/ DeviceIgnores \/ ConnectionDrops
  \/ Finished

Spec == Init /\ [][Next]_vars

-----------------------------------------------------------------------------
(* Properties *)

\* Every field has the value of some option, is blank, or has its default
\* (GetDeviceInfo).
TypeOK ==
  /\ WireTypeOK
  /\ blank \subseteq Options
  /\ asked \in Options
  /\ field \in [Options -> Options \cup {Blank, ConfigName}]
  /\ pc \in {"ask", "disconnect", "done"}

\* The fields for which an option the device holds did not arrive.
Missing == {k \in Options \ blank : field[k] \in {Blank, ConfigName}}

\* As long as no answer was late, every field is its own option's value or its
\* default, and a failed option read costs that field and no other.
OwnOptions ==
  pc = "done" /\ late = 0 =>
    /\ \A k \in Options : field[k] \in {k, Blank, ConfigName}
    /\ "conn" \notin faulted => Cardinality(Missing) <= faults

\* Late answers shift the fields one way only: a field never has the value of
\* an option asked for after its own, lags behind by no more than the answers
\* that were late, and no value is reported in two fields.
FieldsLag ==
  \A k \in Options : field[k] \in Options =>
    /\ field[k] <= k /\ k - field[k] <= late
    /\ \A j \in Options \ {k} : field[j] # field[k]

=============================================================================
