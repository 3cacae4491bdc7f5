------------------------ MODULE DeviceSessionsProofs ------------------------
(***************************************************************************)
(* Theorems about DeviceSessions, for any number of requests, attempts and *)
(* faults: what a request holds of the device, who is served, and that the *)
(* handlers keep the life of a request that RequestLifecycle describes.    *)
(***************************************************************************)
EXTENDS DeviceSessions, TLAPS

Results == {"none", "ok", "failed"}
Over == {"hangup", "return", "done"}

\* The code that talks to the device, up to its return.
Working(r) ==
  Probe(r) \/ Dial(r) \/ Handshake(r) \/ Authenticate(r) \/ Use(r) \/ Hangup(r)

-----------------------------------------------------------------------------
(* Types.  What Return passes on is a result because a request that has    *)
(* stopped using the device has one.                                       *)

HasResult == \A r \in Reqs : phase[r] \in Over => result[r] \in {"ok", "failed"}

TypeInv == TypeOK /\ HasResult

\* What the step of the device code of r may do to the variables of r.
Moves(r, p, n, c, res) ==
  /\ phase' = [phase EXCEPT ![r] = p]
  /\ attempt' = [attempt EXCEPT ![r] = n]
  /\ cause' = [cause EXCEPT ![r] = c]
  /\ result' = [result EXCEPT ![r] = res]
  /\ p \in Over => res \in {"ok", "failed"}

Busy == Phases \ {"idle", "done"}

MovesOn(r) ==
  \E p \in Busy, n \in 0 .. Retries, c \in Causes, res \in Results :
    Moves(r, p, n, c, res)

LEMMA KeepsOwn ==
  ASSUME TypeInv, NEW r \in Reqs
  PROVE  /\ attempt = [attempt EXCEPT ![r] = attempt[r]]
         /\ cause = [cause EXCEPT ![r] = cause[r]]
         /\ result = [result EXCEPT ![r] = result[r]]
         /\ attempt[r] \in 0 .. Retries /\ cause[r] \in Causes
         /\ result[r] \in Results
BY DEF TypeInv, TypeOK, Results

LEMMA AgainMoves ==
  ASSUME TypeInv, NEW r \in Reqs, NEW err \in Causes, Again(r, err)
  PROVE  MovesOn(r)
<1>1. CASE kind[r] # "diagnose" /\ attempt[r] < Retries
  <2>1. attempt[r] + 1 \in 0 .. Retries
    BY <1>1, SessionsAssumption DEF TypeInv, TypeOK
  <2>2. Moves(r, "dial", attempt[r] + 1, cause[r], result[r])
    BY <1>1, KeepsOwn DEF Again, Enter, Moves, Over
  <2> QED
    BY <2>1, <2>2, KeepsOwn DEF MovesOn, Busy, Phases
<1>2. CASE ~(kind[r] # "diagnose" /\ attempt[r] < Retries)
  <2>1. Moves(r, "return", attempt[r], err, "failed")
    BY <1>2, KeepsOwn DEF Again, Give, Enter, Moves, Over
  <2> QED
    BY <2>1, KeepsOwn DEF MovesOn, Busy, Phases, Results
<1> QED
  BY <1>1, <1>2

\* The device code of a request changes that request only, and ends with a
\* result.
LEMMA WorkMoves ==
  ASSUME TypeInv, NEW r \in Reqs, Working(r)
  PROVE  /\ phase[r] \in Busy \ {"return"}
         /\ MovesOn(r)
         /\ UNCHANGED <<kind, key, alone, keyed, channel, status>>
<1>1. ASSUME NEW p \in Busy \ Over, Enter(r, p),
             UNCHANGED <<attempt, cause, result>>
      PROVE  MovesOn(r)
  <2>1. Moves(r, p, attempt[r], cause[r], result[r])
    BY <1>1, KeepsOwn DEF Enter, Moves
  <2> QED
    BY <2>1, KeepsOwn DEF MovesOn
<1>2. ASSUME NEW c \in Causes, cause' = [cause EXCEPT ![r] = c],
             Give(r, "failed"), UNCHANGED attempt
      PROVE  MovesOn(r)
  <2>1. Moves(r, "return", attempt[r], c, "failed")
    BY <1>2, KeepsOwn DEF Give, Enter, Moves
  <2> QED
    BY <2>1, KeepsOwn DEF MovesOn, Busy, Phases, Results
<1>3. {"malformed", "unanswered", "refused", "reset", "timeout", "unauth",
       "rejected"} \subseteq Causes
  BY DEF Causes
<1>4. CASE Probe(r)
  <2>1. \/ /\ \E c \in Causes : cause' = [cause EXCEPT ![r] = c]
           /\ Give(r, "failed")
           /\ UNCHANGED attempt
        \/ /\ attempt' = [attempt EXCEPT ![r] = 1]
           /\ Enter(r, "dial")
           /\ UNCHANGED <<cause, result>>
    BY <1>3, <1>4 DEF Probe
  <2>2. ASSUME attempt' = [attempt EXCEPT ![r] = 1], Enter(r, "dial"),
               UNCHANGED <<cause, result>>
        PROVE  MovesOn(r)
    <3>1. 1 \in 0 .. Retries
      BY SessionsAssumption
    <3>2. Moves(r, "dial", 1, cause[r], result[r])
      BY <2>2, KeepsOwn DEF Enter, Moves, Over
    <3> QED
      BY <3>1, <3>2, KeepsOwn DEF MovesOn, Busy, Phases
  <2>3. MovesOn(r)
    BY <1>2, <2>1, <2>2
  <2> QED
    BY <1>4, <2>3 DEF Probe, requestVars, Busy, Phases
<1>5. CASE Dial(r)
  <2>1. MovesOn(r)
    BY <1>1, <1>3, <1>5, AgainMoves DEF Dial, Fail, Enter, Busy, Phases, Over
  <2> QED
    BY <1>5, <2>1 DEF Dial, requestVars, Busy, Phases
<1>6. CASE Handshake(r)
  <2>1. MovesOn(r)
    BY <1>1, <1>3, <1>6, AgainMoves
    DEF Handshake, Fail, Enter, Busy, Phases, Over
  <2> QED
    BY <1>6, <2>1 DEF Handshake, requestVars, Busy, Phases
<1>7. CASE Authenticate(r)
  <2>1. MovesOn(r)
    BY <1>1, <1>3, <1>7, AgainMoves
    DEF Authenticate, Fail, Enter, Busy, Phases, Over
  <2> QED
    BY <1>7, <2>1 DEF Authenticate, requestVars, Busy, Phases
<1>8. CASE Use(r)
  <2>1. \E res \in {"ok", "failed"} :
          Moves(r, "hangup", attempt[r], cause[r], res)
    BY <1>8, KeepsOwn DEF Use, Enter, Moves
  <2>2. MovesOn(r)
    BY <2>1, KeepsOwn DEF MovesOn, Busy, Phases, Results
  <2> QED
    BY <1>8, <2>2 DEF Use, requestVars, deviceVars, Busy, Phases
<1>9. CASE Hangup(r)
  <2>1. result[r] \in {"ok", "failed"}
    BY <1>9 DEF Hangup, TypeInv, HasResult, Over
  <2>2. Moves(r, "return", attempt[r], cause[r], result[r])
    BY <1>9, <2>1, KeepsOwn DEF Hangup, Enter, Moves
  <2>3. MovesOn(r)
    BY <2>2, KeepsOwn DEF MovesOn, Busy, Phases
  <2> QED
    BY <1>9, <2>3 DEF Hangup, requestVars, Busy, Phases
<1> QED
  BY <1>4, <1>5, <1>6, <1>7, <1>8, <1>9 DEF Working

LEMMA WorkType ==
  ASSUME TypeInv, NEW r \in Reqs, Working(r)
  PROVE  TypeInv'
<1>1. PICK p \in Busy, n \in 0 .. Retries, c \in Causes, res \in Results :
        Moves(r, p, n, c, res)
  BY WorkMoves DEF MovesOn
<1>2. /\ phase' \in [Reqs -> Phases]
      /\ attempt' \in [Reqs -> 0 .. Retries]
      /\ cause' \in [Reqs -> Causes]
      /\ result' \in [Reqs -> {"none", "ok", "failed"}]
  BY <1>1 DEF Moves, TypeInv, TypeOK, Busy, Results
<1>3. HasResult'
  BY <1>1, <1>2 DEF Moves, TypeInv, TypeOK, HasResult
<1>4. slot' \in {slot, r, NoOne, Stale}
  BY DEF Working, Probe, Dial, Handshake, Authenticate, Use, Hangup, Fail,
         CloseAbruptly, TakeSlot, deviceVars
<1>5. exiting' \in {exiting, exiting \cup {r}}
  BY DEF Working, Probe, Dial, Handshake, Authenticate, Use, Hangup, deviceVars
<1>6. /\ faults' = faults \/ (faults < MaxFaults /\ faults' = faults + 1)
      /\ hit' \in {hit, hit \cup {r}}
  BY DEF Working, Probe, Dial, Handshake, Authenticate, Use, Hangup, Fault,
         NoFault, faultVars
<1>7. faults' \in 0 .. MaxFaults
  BY <1>6, SessionsAssumption DEF TypeInv, TypeOK
<1>8. UNCHANGED <<kind, key, alone, keyed, channel, status>>
  BY WorkMoves
<1> QED
  BY <1>2, <1>3, <1>4, <1>5, <1>6, <1>7, <1>8 DEF TypeInv, TypeOK

LEMMA HandlerType ==
  ASSUME TypeInv, NEW r \in Reqs,
         Refuse(r) \/ Accept(r) \/ Return(r) \/ Receive(r) \/ TimeOut(r)
  PROVE  TypeInv'
<1>1. CASE Refuse(r)
  BY <1>1 DEF Refuse, TypeInv, TypeOK, HasResult, requestVars, deviceVars,
              faultVars
<1>2. CASE Accept(r)
  <2>1. PICK k \in Kinds, pw \in Keys :
          /\ kind' = [kind EXCEPT ![r] = k]
          /\ key' = [key EXCEPT ![r] = pw]
          /\ \/ Enter(r, "probe") /\ UNCHANGED <<attempt, cause, result>>
             \/ /\ cause' = [cause EXCEPT ![r] = "malformed"]
                /\ Give(r, "failed")
                /\ UNCHANGED attempt
             \/ /\ attempt' = [attempt EXCEPT ![r] = 1]
                /\ Enter(r, "dial")
                /\ UNCHANGED <<cause, result>>
    BY <1>2 DEF Accept
  <2>2. pw \in {"right", "wrong", "malformed"} /\ 1 \in 0 .. Retries
    BY SessionsAssumption DEF Keys
  <2>3. /\ phase' \in [Reqs -> Phases]
        /\ attempt' \in [Reqs -> 0 .. Retries]
        /\ cause' \in [Reqs -> Causes]
        /\ result' \in [Reqs -> {"none", "ok", "failed"}]
    BY <2>1, <2>2 DEF Enter, Give, TypeInv, TypeOK, Phases, Causes
  <2>4. HasResult'
    BY <2>1, <2>3 DEF Enter, Give, TypeInv, TypeOK, HasResult, Over
  <2>5. kind' \in [Reqs -> Kinds] /\ key' \in [Reqs -> {"right", "wrong", "malformed"}]
    BY <2>1, <2>2 DEF TypeInv, TypeOK
  <2>6. alone' \subseteq Reqs
    BY <1>2 DEF Accept
  <2> QED
    BY <1>2, <2>3, <2>4, <2>5, <2>6
    DEF Accept, TypeInv, TypeOK, deviceVars, faultVars
<1>3. CASE Return(r)
  <2>1. result[r] \in {"ok", "failed"}
    BY <1>3 DEF Return, TypeInv, HasResult, Over
  <2>2. phase' \in [Reqs -> Phases] /\ HasResult'
    BY <1>3, <2>1 DEF Return, Enter, TypeInv, TypeOK, HasResult, Phases, Over
  <2>3. /\ channel' \in [Reqs -> {"empty", "ok", "failed"}]
        /\ status' \in [Reqs -> {0, 200, 400, 502, 504}]
    BY <1>3, <2>1 DEF Return, TypeInv, TypeOK
  <2> QED
    BY <1>3, <2>2, <2>3 DEF Return, TypeInv, TypeOK, requestVars, deviceVars,
                            faultVars
<1>4. CASE Receive(r)
  <2>1. /\ channel' \in [Reqs -> {"empty", "ok", "failed"}]
        /\ status' \in [Reqs -> {0, 200, 400, 502, 504}]
    BY <1>4 DEF Receive, TypeInv, TypeOK
  <2> QED
    BY <1>4, <2>1 DEF Receive, TypeInv, TypeOK, HasResult, requestVars,
                      deviceVars, faultVars
<1>5. CASE TimeOut(r)
  BY <1>5 DEF TimeOut, TypeInv, TypeOK, HasResult, requestVars, deviceVars,
              faultVars
<1> QED
  BY <1>1, <1>2, <1>3, <1>4, <1>5

LEMMA SlotType ==
  ASSUME TypeInv, StaleExpires \/ \E r \in Reqs : Lose(r) \/ HandleExit(r)
  PROVE  TypeInv'
<1>1. /\ UNCHANGED <<phase, attempt, cause, result, channel, status,
                     requestVars, keyed>>
      /\ slot' \in {slot, NoOne, Stale}
      /\ exiting' \subseteq exiting
  BY DEF StaleExpires, Lose, HandleExit
<1>2. faults' \in 0 .. MaxFaults /\ hit' \subseteq Reqs
  BY SessionsAssumption
  DEF StaleExpires, Lose, HandleExit, Fault, faultVars, TypeInv, TypeOK
<1> QED
  BY <1>1, <1>2 DEF requestVars, TypeInv, TypeOK, HasResult

LEMMA TypeInvStep == TypeInv /\ [Next]_vars => TypeInv'
<1> SUFFICES ASSUME TypeInv, [Next]_vars PROVE TypeInv'
  OBVIOUS
<1>1. ASSUME NEW r \in Reqs,
             Refuse(r) \/ Accept(r) \/ Run(r) \/ Respond(r)
      PROVE  TypeInv'
  BY <1>1, WorkType, HandlerType DEF Run, Working, Respond
<1>2. CASE UNCHANGED vars
  BY <1>2 DEF vars, TypeInv, TypeOK, HasResult
<1> QED
  BY <1>1, <1>2, SlotType DEF Next, Finished

LEMMA InitType == Init => TypeInv
BY SessionsAssumption
DEF Init, TypeInv, TypeOK, HasResult, Over, Kinds, Phases, Causes

\* The variables of every request and of the device keep their types, and no
\* attempt of Connect comes after the last.
THEOREM TypeCorrect == Spec => []TypeOK
BY InitType, TypeInvStep, PTL DEF Spec, TypeInv

-----------------------------------------------------------------------------
(* The slot.  That a request holds it only through an open connection or a *)
(* CMD_EXIT is inductive by itself.                                        *)

SlotIInv == TypeInv /\ SlotAccounted

\* Only the request that moves, and only by its dial, becomes the holder.
LEMMA WorkSlot ==
  ASSUME SlotIInv, NEW r \in Reqs, Working(r)
  PROVE  SlotAccounted'
<1>0. /\ \A s \in Reqs \ {r} : phase'[s] = phase[s]
      /\ NoOne \notin Reqs /\ Stale \notin Reqs
      /\ phase \in [Reqs -> Phases]
      /\ exiting \subseteq exiting'
  <2>1. \A s \in Reqs \ {r} : phase'[s] = phase[s]
    BY WorkMoves DEF SlotIInv, MovesOn, Moves, TypeInv, TypeOK
  <2>2. exiting \subseteq exiting'
    BY DEF Working, Probe, Dial, Handshake, Authenticate, Use, Hangup, deviceVars
  <2> QED
    BY <2>1, <2>2, SessionsAssumption DEF SlotIInv, TypeInv, TypeOK
<1>1. ASSUME NEW err, Fail(r, err)
      PROVE  slot' # r /\ (slot' = slot \/ slot' = Stale)
  BY <1>0, <1>1 DEF Fail, CloseAbruptly
<1>2. ASSUME slot' # r /\ (slot' = slot \/ slot' = Stale \/ slot' = NoOne)
      PROVE  SlotAccounted'
  BY <1>0, <1>2 DEF SlotIInv, SlotAccounted
<1>3. CASE Probe(r)
  <2>1. slot # r \/ r \in exiting
    BY <1>3 DEF Probe, SlotIInv, SlotAccounted
  <2>2. slot' \in {slot, Stale} /\ (slot' = r => slot = r)
    BY <1>0, <1>3 DEF Probe
  <2> QED
    BY <1>0, <2>1, <2>2 DEF SlotIInv, SlotAccounted
<1>4. CASE Dial(r)
  <2>1. CASE \E err \in {"unanswered", "refused"} : Fail(r, err)
    BY <1>1, <1>2, <2>1
  <2>2. CASE TakeSlot(r) /\ Enter(r, "connect")
    <3>1. phase'[r] = "connect" /\ slot' \in {slot, r}
      BY <1>0, <2>2 DEF TakeSlot, Enter
    <3> QED
      BY <1>0, <3>1 DEF SlotIInv, SlotAccounted
  <2> QED
    BY <1>4, <2>1, <2>2 DEF Dial
<1>5. CASE Handshake(r) \/ Authenticate(r)
  <2>1. CASE \E err : Fail(r, err)
    BY <1>1, <1>2, <2>1
  <2>2. CASE slot' = slot /\ phase'[r] \in {"auth", "use"}
    BY <1>0, <2>2 DEF SlotIInv, SlotAccounted
  <2> QED
    BY <1>0, <1>5, <2>1, <2>2 DEF Handshake, Authenticate, Enter
<1>6. CASE Use(r)
  <2>1. slot' = slot /\ phase'[r] = "hangup"
    BY <1>0, <1>6 DEF Use, Enter, deviceVars
  <2> QED
    BY <1>0, <2>1 DEF SlotIInv, SlotAccounted
<1>7. CASE Hangup(r)
  <2>1. slot' = slot /\ (slot = r => r \in exiting')
    BY <1>7 DEF Hangup
  <2> QED
    BY <1>0, <2>1 DEF SlotIInv, SlotAccounted
<1> QED
  BY <1>3, <1>4, <1>5, <1>6, <1>7 DEF Working

LEMMA SlotStep == SlotIInv /\ [Next]_vars => SlotIInv'
<1> SUFFICES ASSUME SlotIInv, [Next]_vars PROVE SlotAccounted'
  BY TypeInvStep DEF SlotIInv
<1>0. TypeOK /\ NoOne \notin Reqs /\ Stale \notin Reqs
  BY SessionsAssumption DEF SlotIInv, TypeInv
<1>1. ASSUME NEW r \in Reqs, Refuse(r) \/ Receive(r) \/ TimeOut(r)
      PROVE  SlotAccounted'
  BY <1>1 DEF Refuse, Receive, TimeOut, deviceVars, SlotIInv, SlotAccounted
<1>2. ASSUME NEW r \in Reqs, Accept(r) \/ Return(r)
      PROVE  SlotAccounted'
  <2>1. /\ phase[r] \in {"idle", "return"}
        /\ \A s \in Reqs \ {r} : phase'[s] = phase[s]
        /\ UNCHANGED <<slot, exiting>>
    BY <1>0, <1>2 DEF Accept, Return, Enter, Give, deviceVars, TypeOK
  <2> QED
    BY <2>1 DEF SlotIInv, SlotAccounted
<1>3. ASSUME NEW r \in Reqs, Lose(r) \/ HandleExit(r)
      PROVE  SlotAccounted'
  <2>1. /\ slot' \in {slot, NoOne, Stale} /\ slot' # r
        /\ exiting' = exiting \ {r}
        /\ phase' = phase
    BY <1>0, <1>3 DEF Lose, HandleExit
  <2> QED
    BY <1>0, <2>1 DEF SlotIInv, SlotAccounted
<1>4. CASE StaleExpires
  BY <1>0, <1>4 DEF StaleExpires, SlotIInv, SlotAccounted
<1>5. CASE UNCHANGED vars
  BY <1>5 DEF vars, SlotIInv, SlotAccounted
<1> QED
  BY <1>1, <1>2, <1>3, <1>4, <1>5, WorkSlot
  DEF Next, Run, Working, Respond, Finished

LEMMA SlotInit == Init => SlotIInv
<1>1. Init => SlotAccounted
  BY SessionsAssumption DEF Init, SlotAccounted
<1> QED
  BY <1>1, InitType DEF SlotIInv

\* No retry, error path or abandoned goroutine loses track of an open
\* connection: a request that holds the slot is still at work on it, or its
\* CMD_EXIT is on its way.
THEOREM SlotIsAccounted == Spec => []SlotAccounted
BY SlotInit, SlotStep, PTL DEF Spec, SlotIInv

-----------------------------------------------------------------------------
(* Who is served.  A request that found the device free and is not joined  *)
(* is the only one at work; as long as no fault hits it, it finds the slot *)
(* free when it dials, keeps it from then on, and needs one attempt.       *)

\* The device asked for the key that is called wrong.
WrongMeansKeyed == \A r \in Reqs : key[r] = "wrong" => keyed

\* CMD_EXIT is the last that a request writes.
ExitsLast == \A r \in exiting : phase[r] \in {"return", "done"}

NobodyElse ==
  \A r \in alone : /\ phase[r] # "idle"
                   /\ \A s \in Reqs \ {r} : phase[s] \in {"idle", "done"}

\* The requests of which AloneIsServed speaks.
Favoured ==
  {r \in alone \ hit : kind[r] # "diagnose" /\ key[r] = "right"}

KeepsSlot ==
  \A r \in Favoured :
    /\ phase[r] # "probe"
    /\ phase[r] = "dial" => slot = NoOne
    /\ phase[r] \in {"connect", "auth", "use"} => slot = r
    /\ phase[r] \in Over => result[r] = "ok"

ServedInv == WrongMeansKeyed /\ ExitsLast /\ NobodyElse /\ KeepsSlot
ServedIInv == TypeInv /\ ServedInv

LEMMA ServedImplies == ServedIInv => AloneIsServed
<1> SUFFICES ASSUME ServedIInv, NEW r \in alone \ hit,
                    phase[r] = "done", kind[r] # "diagnose", result[r] # "ok"
             PROVE  key[r] = "malformed" \/ (keyed /\ key[r] = "wrong")
  BY DEF AloneIsServed
<1>1. r \in Reqs /\ key[r] \in {"right", "wrong", "malformed"}
  BY DEF ServedIInv, TypeInv, TypeOK
<1>2. key[r] # "right"
  BY DEF ServedIInv, ServedInv, KeepsSlot, Favoured, Over
<1> QED
  BY <1>1, <1>2 DEF ServedIInv, ServedInv, WrongMeansKeyed

\* A request that is favoured after a step of the device code was so before.
LEMMA WorkFavoured ==
  ASSUME ServedIInv, NEW r \in Reqs, Working(r)
  PROVE  /\ Favoured' \subseteq Favoured
         /\ r \in Favoured' => NoFault
         /\ \A s \in Reqs \ {r} : s \notin alone
<1>1. UNCHANGED <<kind, key, alone>> /\ phase[r] \notin {"idle", "done"}
  BY WorkMoves DEF ServedIInv, Busy
<1>2. hit' = hit \cup {r} \/ NoFault
  BY DEF Working, Probe, Dial, Handshake, Authenticate, Use, Hangup, Fault,
         NoFault, faultVars
<1>3. hit \subseteq hit'
  BY <1>2 DEF NoFault, faultVars
<1>4. \A s \in Reqs \ {r} : s \notin alone
  BY <1>1 DEF ServedIInv, ServedInv, NobodyElse
<1> QED
  BY <1>1, <1>2, <1>3, <1>4 DEF Favoured

LEMMA WorkServed ==
  ASSUME ServedIInv, NEW r \in Reqs, Working(r)
  PROVE  ServedInv'
<1>0. /\ UNCHANGED <<kind, key, alone, keyed>>
      /\ phase[r] \notin {"idle", "return", "done"}
      /\ phase'[r] \notin {"idle", "done"}
      /\ \A s \in Reqs \ {r} : phase'[s] = phase[s]
      /\ phase' = [phase EXCEPT ![r] = phase'[r]]
      /\ phase \in [Reqs -> Phases] /\ result \in [Reqs -> Results]
      /\ alone \subseteq Reqs /\ exiting \subseteq Reqs
  BY WorkMoves DEF ServedIInv, TypeInv, TypeOK, MovesOn, Moves, Busy, Results
<1>1. WrongMeansKeyed'
  BY <1>0 DEF ServedIInv, ServedInv, WrongMeansKeyed
<1>2. ExitsLast'
  <2>1. r \notin exiting
    BY <1>0 DEF ServedIInv, ServedInv, ExitsLast
  <2>2. exiting' = exiting \/ (exiting' = exiting \cup {r} /\ phase'[r] = "return")
    BY <1>0 DEF Working, Probe, Dial, Handshake, Authenticate, Use, Hangup,
                Enter, deviceVars
  <2> QED
    BY <1>0, <2>1, <2>2 DEF ServedIInv, ServedInv, ExitsLast
<1>3. NobodyElse'
  BY <1>0, WorkFavoured DEF ServedIInv, ServedInv, NobodyElse
<1>4. KeepsSlot'
  <2> SUFFICES ASSUME NEW s \in Favoured'
               PROVE  /\ phase'[s] # "probe"
                      /\ phase'[s] = "dial" => slot' = NoOne
                      /\ phase'[s] \in {"connect", "auth", "use"} => slot' = s
                      /\ phase'[s] \in Over => result'[s] = "ok"
    BY DEF KeepsSlot
  <2>1. /\ s = r /\ NoFault /\ r \in Favoured
        /\ kind[r] # "diagnose" /\ key[r] = "right"
    BY <1>0, WorkFavoured DEF Favoured
  <2>2. /\ phase[r] # "probe"
        /\ phase[r] = "dial" => slot = NoOne
        /\ phase[r] \in {"connect", "auth", "use"} => slot = r
        /\ phase[r] \in Over => result[r] = "ok"
    BY <2>1 DEF ServedIInv, ServedInv, KeepsSlot
  <2>3. faults' = faults /\ faults \in Nat
    BY <2>1, SessionsAssumption
    DEF NoFault, faultVars, ServedIInv, TypeInv, TypeOK
  <2>4. ~Probe(r)
    BY <2>2 DEF Probe
  <2>5. CASE Dial(r)
    BY <1>0, <2>1, <2>2, <2>3, <2>5 DEF Dial, Fault, TakeSlot, Enter, Over
  <2>6. CASE Handshake(r)
    BY <1>0, <2>1, <2>2, <2>3, <2>6 DEF Handshake, Fault, Enter, Over
  <2>7. CASE Authenticate(r)
    BY <1>0, <2>1, <2>2, <2>3, <2>7 DEF Authenticate, Fault, Enter, Over
  <2>8. CASE Use(r)
    BY <1>0, <2>1, <2>2, <2>3, <2>8 DEF Use, Fault, Enter, Over
  <2>9. CASE Hangup(r)
    BY <1>0, <2>1, <2>2, <2>3, <2>9 DEF Hangup, Enter, Over
  <2> QED
    BY <2>1, <2>4, <2>5, <2>6, <2>7, <2>8, <2>9 DEF Working
<1> QED
  BY <1>1, <1>2, <1>3, <1>4 DEF ServedInv

LEMMA AcceptServed ==
  ASSUME ServedIInv, NEW r \in Reqs, Accept(r)
  PROVE  ServedInv'
<1>0. /\ phase \in [Reqs -> Phases] /\ result \in [Reqs -> Results]
      /\ kind \in [Reqs -> Kinds] /\ key \in [Reqs -> {"right", "wrong", "malformed"}]
      /\ alone' = (IF Active = {} /\ slot = NoOne THEN {r} ELSE {})
      /\ UNCHANGED <<keyed, slot, exiting, faults, hit>>
      /\ exiting \subseteq Reqs
  BY DEF Accept, deviceVars, faultVars, ServedIInv, TypeInv, TypeOK, Results
<1>1. PICK k \in Kinds, pw \in Keys, p \in {"probe", "return", "dial"} :
        /\ kind' = [kind EXCEPT ![r] = k]
        /\ key' = [key EXCEPT ![r] = pw]
        /\ phase' = [phase EXCEPT ![r] = p]
        /\ k # "diagnose" /\ pw = "right" => p = "dial"
  <2>1. PICK k \in Kinds, pw \in Keys :
          /\ kind' = [kind EXCEPT ![r] = k]
          /\ key' = [key EXCEPT ![r] = pw]
          /\ Enter(r, IF k = "diagnose" THEN "probe"
                      ELSE IF pw = "malformed" THEN "return" ELSE "dial")
    BY DEF Accept, Give
  <2> QED
    BY <2>1 DEF Enter
<1>2. phase[r] = "idle" /\ r \notin exiting
  BY DEF Accept, ServedIInv, ServedInv, ExitsLast
<1>3. WrongMeansKeyed'
  BY <1>0, <1>1 DEF Keys, ServedIInv, ServedInv, WrongMeansKeyed
<1>4. ExitsLast'
  BY <1>0, <1>1, <1>2 DEF ServedIInv, ServedInv, ExitsLast
<1>5. NobodyElse'
  BY <1>0, <1>1 DEF NobodyElse, Active
<1>6. KeepsSlot'
  <2> SUFFICES ASSUME NEW s \in Favoured'
               PROVE  /\ phase'[s] # "probe"
                      /\ phase'[s] = "dial" => slot' = NoOne
                      /\ phase'[s] \in {"connect", "auth", "use"} => slot' = s
                      /\ phase'[s] \in Over => result'[s] = "ok"
    BY DEF KeepsSlot
  <2>1. /\ s = r /\ slot = NoOne
        /\ kind'[r] # "diagnose" /\ key'[r] = "right"
    BY <1>0 DEF Favoured
  <2>2. phase'[s] = "dial" /\ slot' = NoOne
    BY <1>0, <1>1, <2>1
  <2> QED
    BY <2>2 DEF Over
<1> QED
  BY <1>3, <1>4, <1>5, <1>6 DEF ServedInv

LEMMA OthersServed ==
  ASSUME ServedIInv, NEW r \in Reqs,
         Refuse(r) \/ Return(r) \/ Respond(r) \/ Lose(r) \/ HandleExit(r)
  PROVE  ServedInv'
<1>0. /\ phase \in [Reqs -> Phases]
      /\ alone \subseteq Reqs /\ exiting \subseteq Reqs
      /\ UNCHANGED <<kind, key, alone, keyed, result>>
      /\ exiting' \subseteq exiting
      /\ NoOne \notin Reqs
  BY SessionsAssumption
  DEF Refuse, Return, Respond, Receive, TimeOut, Lose, HandleExit,
      requestVars, deviceVars, ServedIInv, TypeInv, TypeOK
<1>1. WrongMeansKeyed'
  BY <1>0 DEF ServedIInv, ServedInv, WrongMeansKeyed
<1>2. CASE Refuse(r) \/ Respond(r)
  BY <1>0, <1>1, <1>2
  DEF Refuse, Respond, Receive, TimeOut, deviceVars, faultVars, ServedIInv,
      ServedInv, ExitsLast, NobodyElse, KeepsSlot, Favoured
<1>3. CASE Return(r)
  <2>1. /\ phase[r] = "return" /\ phase' = [phase EXCEPT ![r] = "done"]
        /\ UNCHANGED <<slot, exiting, hit>>
    BY <1>3 DEF Return, Enter, deviceVars, faultVars
  <2>2. ExitsLast'
    BY <1>0, <2>1 DEF ServedIInv, ServedInv, ExitsLast
  <2>3. NobodyElse'
    BY <1>0, <2>1 DEF ServedIInv, ServedInv, NobodyElse
  <2>4. KeepsSlot'
    BY <1>0, <2>1 DEF ServedIInv, ServedInv, KeepsSlot, Favoured, Over
  <2> QED
    BY <1>1, <2>2, <2>3, <2>4 DEF ServedInv
<1>4. CASE Lose(r) \/ HandleExit(r)
  <2>1. phase' = phase /\ hit \subseteq hit'
    BY <1>4 DEF Lose, HandleExit, Fault, faultVars
  <2>2. ExitsLast' /\ NobodyElse'
    BY <1>0, <2>1 DEF ServedIInv, ServedInv, ExitsLast, NobodyElse
  <2>3. Favoured' \subseteq Favoured
    BY <1>0, <2>1 DEF Favoured
  <2>4. CASE Lose(r)
    <3>1. slot = r /\ r \in hit'
      BY <2>4 DEF Lose, Fault
    <3>2. ASSUME NEW s \in Favoured'
          PROVE  phase[s] \notin {"dial", "connect", "auth", "use"}
      BY <1>0, <2>3, <3>1, <3>2 DEF Favoured, ServedIInv, ServedInv, KeepsSlot
    <3> QED
      BY <1>0, <1>1, <2>1, <2>2, <2>3, <3>2
      DEF ServedIInv, ServedInv, KeepsSlot
  <2>5. CASE HandleExit(r)
    <3>1. /\ phase[r] \in {"return", "done"}
          /\ slot' = IF slot = r THEN NoOne ELSE slot
      BY <2>5 DEF HandleExit, ServedIInv, ServedInv, ExitsLast
    <3> QED
      BY <1>0, <1>1, <2>1, <2>2, <2>3, <3>1
      DEF ServedIInv, ServedInv, KeepsSlot
  <2> QED
    BY <1>4, <2>4, <2>5
<1> QED
  BY <1>2, <1>3, <1>4

LEMMA ServedStep == ServedIInv /\ [Next]_vars => ServedIInv'
<1> SUFFICES ASSUME ServedIInv, [Next]_vars PROVE ServedInv'
  BY TypeInvStep DEF ServedIInv
<1>1. CASE StaleExpires
  <2>1. UNCHANGED <<phase, result, requestVars, keyed, exiting, faultVars>>
    BY <1>1 DEF StaleExpires
  <2>2. slot = Stale /\ slot' = NoOne /\ Stale \notin Reqs /\ alone \subseteq Reqs
    BY <1>1, SessionsAssumption DEF StaleExpires, ServedIInv, TypeInv, TypeOK
  <2> QED
    BY <2>1, <2>2
    DEF requestVars, faultVars, ServedIInv, ServedInv, WrongMeansKeyed,
        ExitsLast, NobodyElse, KeepsSlot, Favoured
<1>2. CASE UNCHANGED vars
  BY <1>2 DEF vars, ServedIInv, ServedInv, WrongMeansKeyed, ExitsLast,
              NobodyElse, KeepsSlot, Favoured
<1> QED
  BY <1>1, <1>2, WorkServed, AcceptServed, OthersServed
  DEF Next, Run, Working, Finished

LEMMA ServedInit == Init => ServedIInv
<1>1. Init => ServedInv
  BY DEF Init, ServedInv, WrongMeansKeyed, ExitsLast, NobodyElse, KeepsSlot,
         Favoured
<1> QED
  BY <1>1, InitType DEF ServedIInv

\* Connect never stands in its own way, however many attempts it has: a request
\* that finds the device free, that nobody joins and that no fault hits is
\* served, if its key is the device's.
THEOREM ServesAlone == Spec => []AloneIsServed
BY ServedInit, ServedStep, ServedImplies, PTL DEF Spec

-----------------------------------------------------------------------------
(* How a session ends.                                                     *)

\* No step of another request's code reaches an established session, and a step
\* of its own leads on to CMD_EXIT.
LEMMA WorkKeepsEstablished ==
  ASSUME ServedIInv, NEW r \in Reqs, Established(r), NEW s \in Reqs, Working(s)
  PROVE  Established(r)'
<1>0. /\ phase \in [Reqs -> Phases] /\ slot = r /\ r # NoOne
      /\ phase[s] \notin {"return", "done"}
      /\ r \in exiting => phase[r] \in {"return", "done"}
      /\ phase[r] \in {"use", "hangup"} \/ r \in exiting
  BY WorkMoves, SessionsAssumption
  DEF ServedIInv, ServedInv, ExitsLast, TypeInv, TypeOK, Busy, Established
<1>1. CASE s = r
  <2>1. phase[r] \in {"use", "hangup"}
    BY <1>0, <1>1
  <2>2. CASE Use(r)
    BY <1>0, <2>2 DEF Use, Enter, deviceVars, Established
  <2>3. CASE Hangup(r)
    BY <1>0, <2>3 DEF Hangup, Established
  <2> QED
    BY <1>1, <2>1, <2>2, <2>3
    DEF Working, Probe, Dial, Handshake, Authenticate
<1>2. CASE s # r
  <2>1. phase'[r] = phase[r]
    BY <1>2, WorkMoves DEF ServedIInv, MovesOn, Moves, TypeInv, TypeOK
  <2>2. slot' = slot
    BY <1>0, <1>2
    DEF Working, Probe, Dial, Handshake, Authenticate, Use, Hangup, Fail,
        CloseAbruptly, TakeSlot, deviceVars
  <2>3. exiting \subseteq exiting'
    BY DEF Working, Probe, Dial, Handshake, Authenticate, Use, Hangup, deviceVars
  <2> QED
    BY <1>0, <2>1, <2>2, <2>3 DEF Established
<1> QED
  BY <1>1, <1>2

\* For any number of requests: a session that was established ends when the
\* device handles its CMD_EXIT, or with a fault of its connection, and in no
\* other way.
THEOREM EndsWithExit == Spec => SessionsEndWithExit
<1> DEFINE Kept(r) == \/ Established(r)'
                      \/ slot' = NoOne /\ r \in exiting
                      \/ slot' = Stale /\ faults' = faults + 1 /\ r \in hit'
<1>1. ServedIInv /\ [Next]_vars => \A r \in Reqs : Established(r) => Kept(r)
  <2> SUFFICES ASSUME ServedIInv, [Next]_vars, NEW r \in Reqs, Established(r)
               PROVE  Kept(r)
    OBVIOUS
  <2>0. /\ slot = r /\ r # NoOne /\ r # Stale
        /\ phase \in [Reqs -> Phases]
        /\ phase[r] \notin {"idle"}
        /\ phase[r] = "return" => r \in exiting
    BY SessionsAssumption
    DEF ServedIInv, ServedInv, ExitsLast, TypeInv, TypeOK, Established
  <2>1. ASSUME NEW s \in Reqs, Working(s)
        PROVE  Kept(r)
    BY <2>1, WorkKeepsEstablished
  <2>2. ASSUME NEW s \in Reqs, Refuse(s) \/ Respond(s)
        PROVE  Kept(r)
    BY <2>2 DEF Refuse, Respond, Receive, TimeOut, deviceVars, Established
  <2>3. ASSUME NEW s \in Reqs, Accept(s) \/ Return(s)
        PROVE  Kept(r)
    <3>1. UNCHANGED <<slot, exiting>> /\ phase[s] \in {"idle", "return"}
      BY <2>3 DEF Accept, Return, deviceVars
    <3>2. s # r => phase'[r] = phase[r]
      BY <2>0, <2>3 DEF Accept, Return, Enter, Give
    <3> QED
      BY <2>0, <3>1, <3>2 DEF Established
  <2>4. ASSUME NEW s \in Reqs, Lose(s)
        PROVE  Kept(r)
    BY <2>0, <2>4 DEF Lose, Fault
  <2>5. ASSUME NEW s \in Reqs, HandleExit(s)
        PROVE  Kept(r)
    <3>1. CASE s = r
      BY <2>0, <2>5, <3>1 DEF HandleExit
    <3>2. CASE s # r
      BY <2>0, <2>5, <3>2 DEF HandleExit, Established
    <3> QED
      BY <3>1, <3>2
  <2>6. CASE UNCHANGED vars
    BY <2>6 DEF vars, Established
  <2> QED
    BY <2>0, <2>1, <2>2, <2>3, <2>4, <2>5, <2>6
    DEF Next, Run, Working, StaleExpires, Finished
<1> QED
  BY <1>1, ServedInit, ServedStep, PTL DEF Spec, SessionsEndWithExit

-----------------------------------------------------------------------------
(* The life of a request.  A handler answers once: a refused request never *)
(* starts, only the attendance handler may answer before its work is over, *)
(* and what is in its channel is the result of that work.                  *)

AnswersOnce ==
  \A r \in Reqs :
    /\ status[r] = 400 => phase[r] = "idle"
    /\ phase[r] = "idle" => status[r] \in {0, 400}
    /\ kind[r] # "attendance" /\ phase[r] # "idle" /\ phase[r] # "done" =>
         status[r] = 0
    /\ channel[r] # "empty" => phase[r] = "done" /\ channel[r] = result[r]

LifeIInv == TypeInv /\ AnswersOnce

Work ==
  [r \in Reqs |-> CASE phase[r] = "idle" -> "none"
                    [] phase[r] = "done" -> result[r]
                    [] OTHER             -> "running"]

LifecycleStep == Lifecycle!Next \/ UNCHANGED Lifecycle!vars

\* What the step of r leaves alone is the work of every other request.
LEMMA WorkOfOthers ==
  ASSUME TypeInv, TypeInv', NEW r \in Reqs, NEW w,
         \A s \in Reqs \ {r} : phase'[s] = phase[s] /\ result'[s] = result[s],
         w = Work'[r]
  PROVE  Work' = [Work EXCEPT ![r] = w]
<1>1. \A s \in Reqs \ {r} : Work'[s] = Work[s]
  BY DEF Work
<1>2. /\ Work = [s \in Reqs |-> Work[s]]
      /\ Work' = [s \in Reqs |-> Work'[s]]
  BY DEF Work
<1>3. [Work EXCEPT ![r] = w] = [s \in Reqs |-> IF s = r THEN w ELSE Work[s]]
  BY <1>2
<1> QED
  BY <1>1, <1>2, <1>3

LEMMA WorkKeepsLife ==
  ASSUME LifeIInv, TypeInv', NEW r \in Reqs, Working(r)
  PROVE  AnswersOnce' /\ Work' = Work /\ UNCHANGED status
<1>1. /\ UNCHANGED <<kind, channel, status>>
      /\ phase[r] \in Busy /\ phase'[r] \in Busy
      /\ \A s \in Reqs \ {r} : phase'[s] = phase[s] /\ result'[s] = result[s]
  BY WorkMoves DEF LifeIInv, TypeInv, TypeOK, MovesOn, Moves
<1>2. AnswersOnce'
  BY <1>1 DEF LifeIInv, AnswersOnce, Busy
<1>3. Work'[r] = "running" /\ Work[r] = "running"
  BY <1>1 DEF Work, Busy
<1>4. Work' = [Work EXCEPT ![r] = "running"]
  BY <1>1, <1>3, WorkOfOthers DEF LifeIInv
<1>5. Work' = Work
  BY <1>3, <1>4 DEF Work
<1> QED
  BY <1>1, <1>2, <1>5

LEMMA HandlerKeepsLife ==
  ASSUME LifeIInv, TypeInv', NEW r \in Reqs,
         Refuse(r) \/ Accept(r) \/ Return(r) \/ Receive(r) \/ TimeOut(r)
  PROVE  AnswersOnce' /\ LifecycleStep
<1>0. /\ TypeInv /\ AnswersOnce
      /\ phase \in [Reqs -> Phases]
      /\ result \in [Reqs -> Results]
      /\ kind \in [Reqs -> Kinds]
      /\ channel \in [Reqs -> {"empty", "ok", "failed"}]
      /\ status \in [Reqs -> {0, 200, 400, 502, 504}]
  BY DEF LifeIInv, TypeInv, TypeOK, Results
<1>1. CASE Refuse(r)
  <2>1. UNCHANGED <<kind, phase, result, channel>>
    BY <1>1 DEF Refuse, requestVars
  <2>2. AnswersOnce'
    BY <1>0, <1>1, <2>1 DEF Refuse, AnswersOnce
  <2>3. Lifecycle!Refuse(r)
    BY <1>1, <2>1 DEF Refuse, Lifecycle!Refuse
  <2> QED
    BY <2>2, <2>3 DEF LifecycleStep, Lifecycle!Next
<1>2. CASE Accept(r)
  <2>1. /\ phase[r] = "idle" /\ status[r] = 0
        /\ phase'[r] \in Busy
        /\ \A s \in Reqs \ {r} : /\ phase'[s] = phase[s]
                                 /\ result'[s] = result[s]
                                 /\ kind'[s] = kind[s]
        /\ UNCHANGED <<channel, status>>
    BY <1>0, <1>2 DEF Accept, Enter, Give, Busy, Phases
  <2>2. AnswersOnce'
    BY <1>0, <2>1 DEF AnswersOnce, Busy
  <2>3. Work' = [Work EXCEPT ![r] = "running"]
    <3>1. Work'[r] = "running"
      BY <2>1 DEF Work, Busy
    <3> QED
      BY <1>0, <2>1, <3>1, WorkOfOthers
  <2>4. Lifecycle!Accept(r)
    BY <2>1, <2>3 DEF Work, Lifecycle!Accept
  <2> QED
    BY <2>2, <2>4 DEF LifecycleStep, Lifecycle!Next
<1>3. CASE Return(r)
  <2>1. /\ phase[r] = "return" /\ phase' = [phase EXCEPT ![r] = "done"]
        /\ UNCHANGED <<kind, result>>
        /\ result[r] \in {"ok", "failed"}
    BY <1>0, <1>3 DEF Return, Enter, requestVars, TypeInv, HasResult, Over
  <2>2. Work' = [Work EXCEPT ![r] = result[r]]
    <3>1. Work'[r] = result[r]
      BY <1>0, <2>1 DEF Work
    <3> QED
      BY <1>0, <2>1, <3>1, WorkOfOthers
  <2>3. CASE kind[r] = "attendance"
    <3>1. channel' = [channel EXCEPT ![r] = result[r]] /\ UNCHANGED status
      BY <1>3, <2>3 DEF Return
    <3>2. AnswersOnce'
      BY <1>0, <2>1, <2>3, <3>1 DEF AnswersOnce
    <3>3. Lifecycle!Finish(r)
      BY <2>1, <2>2, <3>1 DEF Work, Lifecycle!Finish
    <3> QED
      BY <3>2, <3>3 DEF LifecycleStep, Lifecycle!Next
  <2>4. CASE kind[r] # "attendance"
    <3>1. /\ status' = [status EXCEPT ![r] = IF result[r] = "ok" THEN 200 ELSE 502]
          /\ UNCHANGED channel
      BY <1>3, <2>4 DEF Return
    <3>2. status[r] = 0
      BY <1>0, <2>1, <2>4 DEF AnswersOnce
    <3>3. AnswersOnce'
      BY <1>0, <2>1, <2>4, <3>1 DEF AnswersOnce
    <3>4. Work[r] = "running"
      BY <2>1 DEF Work
    <3>5. status' = [status EXCEPT ![r] = Lifecycle!StatusOf(result[r])]
      BY <3>1 DEF Lifecycle!StatusOf
    <3>6. Lifecycle!Finish(r)
      BY <2>1, <2>2, <3>2, <3>4, <3>5 DEF Work, Lifecycle!Finish
    <3> QED
      BY <3>3, <3>6 DEF LifecycleStep, Lifecycle!Next
  <2> QED
    BY <2>3, <2>4
<1>4. CASE Receive(r)
  <2>1. /\ status[r] = 0 /\ channel[r] # "empty"
        /\ channel' = [channel EXCEPT ![r] = "empty"]
        /\ status' = [status EXCEPT ![r] = IF channel[r] = "ok" THEN 200 ELSE 502]
        /\ UNCHANGED <<kind, phase, result>>
    BY <1>4 DEF Receive, requestVars
  <2>2. phase[r] = "done" /\ channel[r] = result[r]
    BY <1>0, <2>1 DEF AnswersOnce
  <2>3. AnswersOnce'
    BY <1>0, <2>1, <2>2 DEF AnswersOnce
  <2>4. Lifecycle!Answer(r)
    BY <1>0, <2>1, <2>2 DEF Lifecycle!Answer, Lifecycle!StatusOf
  <2> QED
    BY <2>3, <2>4 DEF LifecycleStep, Lifecycle!Next
<1>5. CASE TimeOut(r)
  <2>1. /\ kind[r] = "attendance" /\ status[r] = 0 /\ phase[r] # "idle"
        /\ status' = [status EXCEPT ![r] = 504]
        /\ UNCHANGED <<kind, phase, result, channel>>
    BY <1>5 DEF TimeOut, requestVars
  <2>2. AnswersOnce'
    BY <1>0, <2>1 DEF AnswersOnce
  <2>3. Work[r] # "none"
    BY <1>0, <2>1 DEF Work, TypeInv, HasResult, Over
  <2>4. Lifecycle!Abandon(r)
    BY <2>1, <2>3 DEF Work, Lifecycle!Abandon
  <2> QED
    BY <2>2, <2>4 DEF LifecycleStep, Lifecycle!Next
<1> QED
  BY <1>1, <1>2, <1>3, <1>4, <1>5

LEMMA LifeStep == LifeIInv /\ [Next]_vars => LifeIInv' /\ LifecycleStep
<1> SUFFICES ASSUME LifeIInv, [Next]_vars PROVE AnswersOnce' /\ LifecycleStep
  BY TypeInvStep DEF LifeIInv
<1>0. TypeInv'
  BY TypeInvStep DEF LifeIInv
<1>1. ASSUME NEW r \in Reqs, Working(r)
      PROVE  AnswersOnce' /\ LifecycleStep
  BY <1>0, <1>1, WorkKeepsLife DEF LifecycleStep, Lifecycle!vars, Work
<1>2. CASE UNCHANGED <<kind, phase, result, channel, status>>
  BY <1>2 DEF LifeIInv, AnswersOnce, LifecycleStep, Lifecycle!vars
<1>3. CASE StaleExpires \/ \E r \in Reqs : Lose(r) \/ HandleExit(r)
  BY <1>2, <1>3 DEF StaleExpires, Lose, HandleExit, requestVars
<1>4. CASE UNCHANGED vars
  BY <1>2, <1>4 DEF vars
<1> QED
  BY <1>0, <1>1, <1>3, <1>4, HandlerKeepsLife
  DEF Next, Run, Working, Respond, Finished

LEMMA LifeInit == Init => LifeIInv /\ Lifecycle!Init
<1>1. ASSUME Init, NEW r \in Reqs
      PROVE  status[r] = 0 /\ phase[r] = "idle" /\ channel[r] = "empty"
  BY <1>1 DEF Init
<1>2. Init => Lifecycle!Init
  BY DEF Init, Lifecycle!Init
<1>3. Init => AnswersOnce
  BY <1>1 DEF AnswersOnce
<1> QED
  BY <1>2, <1>3, InitType DEF LifeIInv

\* The handlers implement the life of a request, its liveness apart: a request
\* is refused or its work is done once, it is answered once, and the answer is
\* the outcome of its own work, or a 504.
THEOREM LifecycleKept == Spec => Lifecycle!Init /\ [][Lifecycle!Next]_(Lifecycle!vars)
<1>1. LifecycleStep => [Lifecycle!Next]_(Lifecycle!vars)
  BY DEF LifecycleStep
<1> QED
  BY <1>1, LifeInit, LifeStep, PTL DEF Spec

=============================================================================
