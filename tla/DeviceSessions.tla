--------------------------- MODULE DeviceSessions ---------------------------
(***************************************************************************)
(* The HTTP handlers (handlers.go) sharing one device, each through a      *)
(* Device of its own: Connect with its retry, Diagnose with its bare       *)
(* probe, the session, Disconnect, and the goroutine the attendance        *)
(* handler starts and stops waiting for after 90 seconds.                  *)
(*                                                                         *)
(* The device allows one session.  It gives its slot to a connection when  *)
(* it accepts it, resets the handshake of any other, and takes the slot    *)
(* back on CMD_EXIT; a connection closed without CMD_EXIT leaves the slot  *)
(* stale for a while (device.go:69-72).  What is said over a session is    *)
(* left to AttendanceFetch: here a session works or fails.                 *)
(***************************************************************************)
EXTENDS Naturals

CONSTANTS
  Reqs,       \* the requests, all for the same device
  NoOne,      \* the slot is free
  Stale,      \* the slot is held by a connection that is gone
  Retries,    \* defaultRetries: 2 in the code
  MaxFaults   \* bound: faults of the device or the network

ASSUME SessionsAssumption ==
  /\ NoOne \notin Reqs /\ Stale \notin Reqs /\ NoOne # Stale
  /\ Retries \in Nat \ {0}
  /\ MaxFaults \in Nat

VARIABLES
  kind,      \* "attendance", "diagnose" or "session" (test, info and clock)
  key,       \* the password: "right", "wrong" or "malformed"; to the attendance
             \* and clock handlers, which find out about an unknown device type
             \* where others find out about the key, that is "malformed" too
  phase,     \* of the code that talks to the device
  attempt,   \* of Connect
  cause,     \* the error Connect or Diagnose ends with
  result,    \* of that code: "none", "ok" or "failed"
  channel,   \* ch of the attendance handler: "empty" or a result
  status,    \* of the response, 0 while there is none
  keyed,     \* the device asks for a comm key
  slot,      \* the connection that holds the device's session
  exiting,   \* connections whose CMD_EXIT the device has not handled
  faults,    \* faults so far
  hit,       \* the requests they hit
  alone      \* requests that found the device free and were never joined

deviceVars == <<keyed, slot, exiting>>
faultVars == <<faults, hit>>
requestVars == <<kind, key, alone>>
vars == <<kind, key, phase, attempt, cause, result, channel, status, keyed,
          slot, exiting, faults, hit, alone>>

Phases == {"idle", "probe", "dial", "connect", "auth", "use", "hangup",
           "return", "done"}

\* "rejected" is any other answer, an end of the stream or a bad frame.
Causes == {"none", "malformed", "unanswered", "refused", "reset", "timeout",
           "unauth", "rejected"}

Kinds == {"attendance", "session", "diagnose"}

\* A device without a comm key asks for none, whatever the password says.
Keys == {"right", "malformed"} \cup IF keyed THEN {"wrong"} ELSE {}

\* What Connect reports for its last error (diagnose): the branch it takes.
\* isDialTimeout holds of every error of the dial.
Diagnosed(err) ==
  CASE err \in {"unanswered", "refused"} -> "tcp timed out"
    [] err = "reset"                     -> "busy"
    [] err = "unauth"                    -> "wrong comm key"
    [] err = "timeout"                   -> "stopped answering"
    [] OTHER                             -> "as is"

-----------------------------------------------------------------------------
Fault(r) ==
  /\ faults < MaxFaults
  /\ faults' = faults + 1
  /\ hit' = hit \cup {r}

NoFault == UNCHANGED faultVars

Enter(r, p) == phase' = [phase EXCEPT ![r] = p]

\* The code that talks to the device has its result; it has no session to end.
Give(r, res) ==
  /\ result' = [result EXCEPT ![r] = res]
  /\ Enter(r, "return")

\* conn.Close() without CMD_EXIT.
CloseAbruptly(r) == slot' = IF slot = r THEN Stale ELSE slot

\* Variant with a plausible mistake: one attempt too many.
AgainOnceMore(r, err) ==
  IF kind[r] # "diagnose" /\ attempt[r] <= Retries
  THEN /\ attempt' = [attempt EXCEPT ![r] = @ + 1]
       /\ Enter(r, "dial")
       /\ UNCHANGED <<cause, result>>
  ELSE cause' = [cause EXCEPT ![r] = err] /\ Give(r, "failed") /\ UNCHANGED attempt

\* After an error Connect sleeps and dials again, for as long as it has
\* attempts; Diagnose has one.
Again(r, err) ==
  IF kind[r] # "diagnose" /\ attempt[r] < Retries
  THEN /\ attempt' = [attempt EXCEPT ![r] = @ + 1]
       /\ Enter(r, "dial")
       /\ UNCHANGED <<cause, result>>
  ELSE /\ cause' = [cause EXCEPT ![r] = err]
       /\ Give(r, "failed")
       /\ UNCHANGED attempt

\* dialRaw failed with err and closed its connection, if it had one.  The
\* variant forgets to close it.
FailUnclosed(r, err) == Again(r, err) /\ UNCHANGED slot
Fail(r, err) == Again(r, err) /\ CloseAbruptly(r)

-----------------------------------------------------------------------------
(* The handlers *)

\* Wrong method, body or fields, or (test, info and diagnose) a device type the
\* factory does not know: no device is contacted.  400 stands for 405 as well.
Refuse(r) ==
  /\ phase[r] = "idle" /\ status[r] = 0
  /\ status' = [status EXCEPT ![r] = 400]
  /\ UNCHANGED <<phase, attempt, cause, result, channel, requestVars,
                 deviceVars, faultVars>>

Active == {s \in Reqs : phase[s] \notin {"idle", "done"}}

\* A good request.  Connect refuses a malformed key before it dials, Diagnose
\* only after its probe.
Accept(r) ==
  /\ phase[r] = "idle" /\ status[r] = 0
  /\ \E k \in Kinds, pw \in Keys :
       /\ kind' = [kind EXCEPT ![r] = k]
       /\ key' = [key EXCEPT ![r] = pw]
       /\ IF k = "diagnose"
          THEN Enter(r, "probe") /\ UNCHANGED <<attempt, cause, result>>
          ELSE IF pw = "malformed"
          THEN /\ cause' = [cause EXCEPT ![r] = "malformed"]
               /\ Give(r, "failed")
               /\ UNCHANGED attempt
          ELSE /\ attempt' = [attempt EXCEPT ![r] = 1]
               /\ Enter(r, "dial")
               /\ UNCHANGED <<cause, result>>
  /\ alone' = IF Active = {} /\ slot = NoOne THEN {r} ELSE {}
  /\ UNCHANGED <<channel, status, deviceVars, faultVars>>

\* Variant: a channel without a buffer.
ReturnUnbuffered(r) ==
  /\ phase[r] = "return"
  /\ kind[r] = "attendance" => status[r] = 0
  /\ Enter(r, "done")
  /\ IF kind[r] = "attendance"
     THEN channel' = [channel EXCEPT ![r] = result[r]] /\ UNCHANGED status
     ELSE /\ status' = [status EXCEPT ![r] = IF result[r] = "ok" THEN 200 ELSE 502]
          /\ UNCHANGED channel
  /\ UNCHANGED <<attempt, cause, result, requestVars, deviceVars, faultVars>>

\* The goroutine's result goes into the channel, whoever waits for it: there is
\* room for one.  Every other handler runs its device code itself.
Return(r) ==
  /\ phase[r] = "return"
  /\ Enter(r, "done")
  /\ IF kind[r] = "attendance"
     THEN channel' = [channel EXCEPT ![r] = result[r]] /\ UNCHANGED status
     ELSE /\ status' = [status EXCEPT ![r] = IF result[r] = "ok" THEN 200 ELSE 502]
          /\ UNCHANGED channel
  /\ UNCHANGED <<attempt, cause, result, requestVars, deviceVars, faultVars>>

Receive(r) ==
  /\ kind[r] = "attendance" /\ status[r] = 0
  /\ channel[r] # "empty"
  /\ channel' = [channel EXCEPT ![r] = "empty"]
  /\ status' = [status EXCEPT ![r] = IF channel[r] = "ok" THEN 200 ELSE 502]
  /\ UNCHANGED <<phase, attempt, cause, result, requestVars, deviceVars,
                 faultVars>>

\* 90 seconds have passed, or the client is gone.  The select may take this
\* branch even when the result is in the channel.
TimeOut(r) ==
  /\ kind[r] = "attendance" /\ status[r] = 0
  /\ phase[r] # "idle"
  /\ status' = [status EXCEPT ![r] = 504]
  /\ UNCHANGED <<phase, attempt, cause, result, channel, requestVars,
                 deviceVars, faultVars>>

-----------------------------------------------------------------------------
(* Connect, Diagnose, the session and Disconnect *)

\* The device accepts a connection: it gets the slot if that is free.
TakeSlot(r) == slot' = IF slot = NoOne THEN r ELSE slot

\* Diagnose's bare probe: dialled and closed at once.
Probe(r) ==
  /\ phase[r] = "probe"
  /\ \/ /\ \E err \in {"unanswered", "refused"} :
             cause' = [cause EXCEPT ![r] = err]
        /\ Fault(r)
        /\ Give(r, "failed")
        /\ UNCHANGED <<slot, attempt>>
     \/ /\ slot' = IF slot = NoOne THEN Stale ELSE slot
        /\ NoFault
        /\ IF key[r] = "malformed"
           THEN /\ cause' = [cause EXCEPT ![r] = "malformed"]
                /\ Give(r, "failed")
                /\ UNCHANGED attempt
           ELSE /\ attempt' = [attempt EXCEPT ![r] = 1]
                /\ Enter(r, "dial")
                /\ UNCHANGED <<cause, result>>
  /\ UNCHANGED <<channel, status, requestVars, keyed, exiting>>

\* Variant: a bare probe just before the dial, as Connect once had it.
DialProbed(r) ==
  /\ phase[r] = "dial"
  /\ slot' = IF slot = NoOne THEN Stale ELSE slot
  /\ NoFault
  /\ Enter(r, "connect")
  /\ UNCHANGED <<attempt, cause, result, channel, status, requestVars, keyed,
                 exiting>>

\* dialRaw's dial.
Dial(r) ==
  /\ phase[r] = "dial"
  /\ \/ /\ \E err \in {"unanswered", "refused"} : Fail(r, err)
        /\ Fault(r)
     \/ /\ TakeSlot(r)
        /\ NoFault
        /\ Enter(r, "connect")
        /\ UNCHANGED <<attempt, cause, result>>
  /\ UNCHANGED <<channel, status, requestVars, keyed, exiting>>

\* CMD_CONNECT and its answer.
Handshake(r) ==
  /\ phase[r] = "connect"
  /\ \/ slot # r /\ Fail(r, "reset") /\ NoFault
     \/ /\ slot = r
        /\ \E err \in {"timeout", "reset", "rejected"} : Fail(r, err)
        /\ Fault(r)
     \/ /\ slot = r
        /\ Enter(r, IF keyed THEN "auth" ELSE "use")
        /\ NoFault
        /\ UNCHANGED <<slot, attempt, cause, result>>
  /\ UNCHANGED <<channel, status, requestVars, keyed, exiting>>

\* CMD_AUTH and its answer.
Authenticate(r) ==
  /\ phase[r] = "auth"
  /\ \/ key[r] = "wrong" /\ Fail(r, "unauth") /\ NoFault
     \/ /\ \E err \in {"timeout", "reset", "rejected"} : Fail(r, err)
        /\ Fault(r)
     \/ /\ key[r] = "right"
        /\ Enter(r, "use")
        /\ NoFault
        /\ UNCHANGED <<slot, attempt, cause, result>>
  /\ UNCHANGED <<channel, status, requestVars, keyed, exiting>>

\* Variant: an error return that misses Disconnect.
UseUnclosed(r) ==
  /\ phase[r] = "use"
  /\ \/ /\ result' = [result EXCEPT ![r] = "ok"]
        /\ Enter(r, "hangup")
        /\ NoFault
     \/ /\ kind[r] # "diagnose"
        /\ Give(r, "failed")
        /\ Fault(r)
  /\ UNCHANGED <<attempt, cause, channel, status, requestVars, deviceVars>>

\* Whatever the request does with its session; Diagnose does nothing.  It may
\* fail with the connection up, or because it is lost; but a lost connection
\* fails nobody who has nothing to say, or whose exchanges are best effort.
Use(r) ==
  /\ phase[r] = "use"
  /\ Enter(r, "hangup")
  /\ \/ /\ result' = [result EXCEPT ![r] = "ok"]
        /\ NoFault
     \/ /\ kind[r] # "diagnose"
        /\ result' = [result EXCEPT ![r] = "failed"]
        /\ \/ Fault(r)
           \/ slot # r /\ NoFault
  /\ UNCHANGED <<attempt, cause, channel, status, requestVars, deviceVars>>

\* Disconnect, deferred: it runs on every way out of the device code.
Hangup(r) ==
  /\ phase[r] = "hangup"
  /\ exiting' = IF slot = r THEN exiting \cup {r} ELSE exiting
  /\ Enter(r, "return")
  /\ UNCHANGED <<attempt, cause, result, channel, status, requestVars, keyed,
                 slot, faultVars>>

-----------------------------------------------------------------------------
(* The device's slot *)

\* An established connection is lost, or its CMD_EXIT is.
Lose(r) ==
  /\ slot = r
  /\ phase[r] \in {"use", "hangup"} \/ r \in exiting
  /\ slot' = Stale
  /\ exiting' = exiting \ {r}
  /\ Fault(r)
  /\ UNCHANGED <<phase, attempt, cause, result, channel, status, requestVars,
                 keyed>>

HandleExit(r) ==
  /\ r \in exiting
  /\ exiting' = exiting \ {r}
  /\ slot' = IF slot = r THEN NoOne ELSE slot
  /\ UNCHANGED <<phase, attempt, cause, result, channel, status, requestVars,
                 keyed, faultVars>>

StaleExpires ==
  /\ slot = Stale
  /\ slot' = NoOne
  /\ UNCHANGED <<phase, attempt, cause, result, channel, status, requestVars,
                 keyed, exiting, faultVars>>

-----------------------------------------------------------------------------
Init ==
  /\ kind = [r \in Reqs |-> "session"]
  /\ key = [r \in Reqs |-> "right"]
  /\ phase = [r \in Reqs |-> "idle"]
  /\ attempt = [r \in Reqs |-> 0]
  /\ cause = [r \in Reqs |-> "none"]
  /\ result = [r \in Reqs |-> "none"]
  /\ channel = [r \in Reqs |-> "empty"]
  /\ status = [r \in Reqs |-> 0]
  /\ keyed \in BOOLEAN
  /\ slot \in {NoOne, Stale}
  /\ exiting = {}
  /\ faults = 0
  /\ hit = {}
  /\ alone = {}

Run(r) ==
  \/ Probe(r) \/ Dial(r) \/ Handshake(r) \/ Authenticate(r)
  \/ Use(r) \/ Hangup(r) \/ Return(r)

Respond(r) == Receive(r) \/ TimeOut(r)

\* Every request is answered and the device has nothing left to handle.
Finished ==
  /\ \A r \in Reqs : status[r] # 0 /\ phase[r] \in {"idle", "done"}
  /\ exiting = {} /\ slot = NoOne
  /\ UNCHANGED vars

Next ==
  \/ \E r \in Reqs :
       Refuse(r) \/ Accept(r) \/ Run(r) \/ Respond(r) \/ Lose(r) \/ HandleExit(r)
  \/ StaleExpires
  \/ Finished

Spec == Init /\ [][Next]_vars

\* Goroutines run, dials and exchanges end in an answer, an error or at their
\* deadline, timers fire, and the device handles what reached it.
Fairness ==
  \A r \in Reqs : WF_vars(Run(r)) /\ WF_vars(Respond(r)) /\ WF_vars(HandleExit(r))

FairSpec == Spec /\ Fairness

-----------------------------------------------------------------------------
(* Properties *)

\* Every request's variables keep their types, and no attempt of Connect comes
\* after the last (the handlers and Connect).
TypeOK ==
  /\ kind \in [Reqs -> Kinds]
  /\ key \in [Reqs -> {"right", "wrong", "malformed"}]
  /\ phase \in [Reqs -> Phases]
  /\ attempt \in [Reqs -> 0 .. Retries]
  /\ cause \in [Reqs -> Causes]
  /\ result \in [Reqs -> {"none", "ok", "failed"}]
  /\ channel \in [Reqs -> {"empty", "ok", "failed"}]
  /\ status \in [Reqs -> {0, 200, 400, 502, 504}]
  /\ keyed \in BOOLEAN
  /\ slot \in Reqs \cup {NoOne, Stale}
  /\ exiting \subseteq Reqs
  /\ faults \in 0 .. MaxFaults
  /\ hit \subseteq Reqs
  /\ alone \subseteq Reqs

\* The slot is held by a request only while that request has a connection, or
\* while the device has its CMD_EXIT to handle: no retry, error path or
\* abandoned goroutine loses track of an open connection.
SlotAccounted ==
  \A r \in Reqs :
    slot = r => phase[r] \in {"connect", "auth", "use", "hangup"} \/ r \in exiting

\* A request that finds the device free, with nobody else at work, and that is
\* not joined by another is served, unless a fault hit it or its key is not the
\* device's: Connect does not stand in its own way.
AloneIsServed ==
  \A r \in alone \ hit :
    phase[r] = "done" /\ kind[r] # "diagnose" =>
      result[r] = "ok" \/ key[r] = "malformed" \/ (keyed /\ key[r] = "wrong")

\* A session that was established is its request's until the device handles its
\* CMD_EXIT or a fault takes the connection: no way out of the request's code
\* misses Disconnect, and no other request's dial, handshake, retry or probe,
\* nor a goroutine left behind, ends the session or makes its slot stale.
Established(r) ==
  slot = r /\ (phase[r] \in {"use", "hangup"} \/ r \in exiting)

SessionsEndWithExit ==
  [][\A r \in Reqs :
       Established(r) => \/ Established(r)'
                         \/ slot' = NoOne /\ r \in exiting
                         \/ slot' = Stale /\ faults' = faults + 1 /\ r \in hit']_vars

\* In the end no request holds the device, not even one whose client got a 504
\* long before.
SessionGivenBack == <>[](slot \notin Reqs)

\* The handlers implement the life of a request: each is answered once, with
\* the outcome of its own work or a 504, and no goroutine stays behind.
Lifecycle ==
  INSTANCE RequestLifecycle WITH
    work <- [r \in Reqs |-> CASE phase[r] = "idle" -> "none"
                              [] phase[r] = "done" -> result[r]
                              [] OTHER             -> "running"]
KeepsLifecycle == Lifecycle!Spec

\* Said of the dial-timeout branch (device.go:171-173): nothing was ever
\* exchanged, the SYN itself went unanswered.
TimedOutMeansUnanswered ==
  \A r \in Reqs :
    kind[r] # "diagnose" /\ Diagnosed(cause[r]) = "tcp timed out" =>
      cause[r] = "unanswered"

\* Said of Diagnose (device.go:270-271): probe, then handshake, reported apart.
\* On a free device that fails in nothing the handshake is fine.
DiagnoseFindsHealthy ==
  \A r \in alone \ hit :
    phase[r] = "done" /\ kind[r] = "diagnose" /\ key[r] = "right" => result[r] = "ok"

=============================================================================
