--------------------------- MODULE EcomApiProofs ----------------------------
(***************************************************************************)
(* The reservation call keeps the promise of ReservationPromise, for any   *)
(* number of callers and attempts and whatever e-com is told to do.        *)
(***************************************************************************)
EXTENDS EcomApi, TLAPS

\* A call as the abstract specification sees it after a step that leaves it alone.
Calls == [c \in Callers |-> Seen(c)]

\* Types, and what was held is known to be a number e-com may hold.
LEMMA CallAtType ==
    ASSUME NEW pc \in CallPCs, NEW n \in 1 .. Attempts
    PROVE  CallAt(pc, n) \in CallRecords
  BY EcomApiAssumption DEF CallAt, CallRecords, NoAnswer

LEMMA NoCallType == NoCall \in CallRecords
  BY CallAtType, EcomApiAssumption DEF NoCall, CallPCs

LEMMA ApiTypeInit == ApiInit => ApiTypeOK
  BY NoCallType DEF ApiInit, ApiTypeOK

LEMMA PatchedType ==
    ASSUME ApiTypeOK, NEW patch \in Patches
    PROVE  Patched(patch) \in [mode : Modes, reserved : Numbers]
  BY DEF ApiTypeOK, Patches, Patched

LEMMA AttemptFailsType ==
    ASSUME ApiTypeOK, NEW c \in Callers, AttemptFails(c)
    PROVE  ApiTypeOK'
  <1>0. call[c].attempt \in 1 .. Attempts
    BY DEF ApiTypeOK, CallRecords
  <1>1. CASE call[c].attempt < Attempts
    <2>1. call[c].attempt + 1 \in 1 .. Attempts
      BY <1>0, <1>1, EcomApiAssumption
    <2>2. CallAt("ask", call[c].attempt + 1) \in CallRecords
      BY <2>1, CallAtType DEF CallPCs
    <2>3. state.reserved \in Numbers
      BY DEF ApiTypeOK
    <2> QED
      BY <1>1, <2>2, <2>3 DEF AttemptFails, ApiTypeOK
  <1>2. CASE ~(call[c].attempt < Attempts)
    <2>1. CallAt("unavailable", 1) \in CallRecords
      BY CallAtType, EcomApiAssumption DEF CallPCs
    <2> QED
      BY <1>2, <2>1 DEF AttemptFails, ApiTypeOK
  <1> QED
    BY <1>1, <1>2

LEMMA ApiTypeStep == ApiTypeOK /\ [ApiNext]_apiVars => ApiTypeOK'
  <1> SUFFICES ASSUME ApiTypeOK, [ApiNext]_apiVars PROVE ApiTypeOK'
    OBVIOUS
  <1>1. ASSUME NEW patch \in Patches, PutState(patch) PROVE ApiTypeOK'
    BY <1>1, PatchedType DEF PutState, ApiTypeOK
  <1>2. ASSUME NEW c \in Callers, Call(c) PROVE ApiTypeOK'
    <2>1. CallAt("ask", 1) \in CallRecords
      BY CallAtType, EcomApiAssumption DEF CallPCs
    <2> QED
      BY <1>2, <2>1 DEF Call, ApiTypeOK
  <1>3. ASSUME NEW c \in Callers, Handle(c) PROVE ApiTypeOK'
    BY <1>3 DEF Handle, ApiTypeOK, CallRecords, CallPCs
  <1>4. ASSUME NEW c \in Callers, Accept(c) PROVE ApiTypeOK'
    BY <1>4 DEF Accept, ApiTypeOK, CallRecords, CallPCs
  <1>5. ASSUME NEW c \in Callers, Reject(c) \/ TimeOut(c) PROVE ApiTypeOK'
    BY <1>5, AttemptFailsType DEF Reject, TimeOut
  <1>6. ASSUME NEW c \in Callers, End(c) PROVE ApiTypeOK'
    BY <1>6, NoCallType DEF End, ApiTypeOK
  <1>7. CASE UNCHANGED apiVars
    BY <1>7 DEF apiVars, ApiTypeOK
  <1> QED
    BY <1>1, <1>2, <1>3, <1>4, <1>5, <1>6, <1>7 DEF ApiNext, ApiStep

\* The types of the call and of e-com hold in every reachable state.
THEOREM ApiTypeCorrect == ApiSpec => []ApiTypeOK
  BY ApiTypeInit, ApiTypeStep, PTL DEF ApiSpec

-----------------------------------------------------------------------------
\* A number under way was held since the attempt began.
AnswersHeld == \A c \in Callers : Asking(c) =>
    /\ state.reserved \in held[c]
    /\ call[c].pc = "wait" => call[c].answer.reserved \in held[c]

LEMMA AnswersHeldStep ==
    ApiTypeOK /\ AnswersHeld /\ [ApiNext]_apiVars => AnswersHeld'
  <1> SUFFICES ASSUME ApiTypeOK, AnswersHeld, [ApiNext]_apiVars PROVE AnswersHeld'
    OBVIOUS
  <1>1. ASSUME NEW patch \in Patches, PutState(patch) PROVE AnswersHeld'
    BY <1>1 DEF PutState, ApiTypeOK, AnswersHeld, Asking
  <1>2. ASSUME NEW c \in Callers, Call(c) PROVE AnswersHeld'
    BY <1>2 DEF Call, ApiTypeOK, AnswersHeld, Asking, CallRecords, NoCall, CallAt
  <1>3. ASSUME NEW c \in Callers, Handle(c) PROVE AnswersHeld'
    BY <1>3 DEF Handle, ApiTypeOK, CallRecords, AnswersHeld, Asking
  <1>4. ASSUME NEW c \in Callers, Accept(c) PROVE AnswersHeld'
    BY <1>4 DEF Accept, ApiTypeOK, CallRecords, AnswersHeld, Asking
  <1>5. ASSUME NEW c \in Callers, Reject(c) \/ TimeOut(c) PROVE AnswersHeld'
    BY <1>5 DEF Reject, TimeOut, AttemptFails, ApiTypeOK, AnswersHeld, Asking, CallRecords, NoCall, CallAt
  <1>6. ASSUME NEW c \in Callers, End(c) PROVE AnswersHeld'
    BY <1>6 DEF End, ApiTypeOK, AnswersHeld, Asking, CallRecords, NoCall, CallAt
  <1>7. CASE UNCHANGED apiVars
    BY <1>7 DEF apiVars, AnswersHeld, Asking
  <1> QED
    BY <1>1, <1>2, <1>3, <1>4, <1>5, <1>6, <1>7 DEF ApiNext, ApiStep

-----------------------------------------------------------------------------
(* Steps of the call are steps of the promise *)

\* A step that moves one call is that call's update of the abstract function.
LEMMA OneCallMoves ==
    ASSUME ApiTypeOK, NEW c \in Callers, NEW new, NEW has, NEW seen,
           call' = [call EXCEPT ![c] = new], held' = [held EXCEPT ![c] = has],
           Seen(c)' = seen
    PROVE  Calls' = [Calls EXCEPT ![c] = seen]
  <1>1. ASSUME NEW d \in Callers, d # c PROVE Seen(d)' = Seen(d)
    BY <1>1 DEF Seen, Asking, ApiTypeOK
  <1> QED
    BY <1>1 DEF Calls

LEMMA PutIsChange ==
    ASSUME ApiTypeOK, NEW patch \in Patches, PutState(patch)
    PROVE  Promise!Change(state'.reserved) /\ state'.reserved \in Numbers
  <1>1. state'.reserved \in Numbers
    BY PatchedType DEF PutState
  <1>2. ASSUME NEW c \in Callers
        PROVE  Seen(c)' = IF Calls[c].status = "asked"
                          THEN [Calls[c] EXCEPT !.held = @ \cup {state'.reserved}] ELSE Calls[c]
    <2>1. CASE Asking(c)
      BY <2>1 DEF PutState, Seen, Asking, Calls
    <2>2. CASE ~Asking(c)
      BY <2>2 DEF PutState, Seen, Asking, Calls, ApiTypeOK, CallRecords, CallPCs
    <2> QED
      BY <2>1, <2>2
  <1> QED
    BY <1>1, <1>2 DEF Promise!Change, Promise!Status, Calls

LEMMA CallIsAsk ==
    ASSUME ApiTypeOK, NEW c \in Callers, Call(c)
    PROVE  Promise!Ask(c)
  <1>1. Seen(c)' = [status |-> "asked", held |-> {state.reserved}, failures |-> 0]
    BY DEF Call, Seen, Asking, CallAt, ApiTypeOK
  <1>2. Calls' = [Calls EXCEPT ![c] =
                    [status |-> "asked", held |-> {state.reserved}, failures |-> 0]]
    BY <1>1, OneCallMoves DEF Call
  <1>3. Calls[c].status = "idle"
    BY DEF Call, Calls, Seen, Asking
  <1> QED
    BY <1>2, <1>3 DEF Promise!Ask, Promise!Status, Calls, Call

LEMMA HandleIsStutter ==
    ASSUME ApiTypeOK, NEW c \in Callers, Handle(c)
    PROVE  UNCHANGED <<state.reserved, Calls>>
  <1>1. ASSUME NEW d \in Callers PROVE Seen(d)' = Seen(d)
    BY DEF Handle, Seen, Asking, ApiTypeOK, CallRecords
  <1> QED
    BY <1>1 DEF Calls, Handle

LEMMA AcceptIsAnswer ==
    ASSUME ApiTypeOK, AnswersHeld, NEW c \in Callers, Accept(c)
    PROVE  \E n \in Numbers : Promise!Answer(c, n)
  <1> DEFINE n == Reading(call[c].answer)
  <1>1. n \in held[c] \cap Nat /\ held[c] \subseteq Numbers
    BY EcomApiAssumption
    DEF Accept, Arrived, Reading, AnswersHeld, Asking, ApiTypeOK, CallRecords
  <1>2. call[c].pc = "wait" /\ call'[c].pc = "answered" /\ call'[c].answer = call[c].answer
    BY DEF Accept, Arrived, ApiTypeOK, CallRecords
  <1>3. Seen(c)' = [status |-> "answered", held |-> {n}, failures |-> 0]
    BY <1>2 DEF Seen, Asking
  <1>4. Calls' = [Calls EXCEPT ![c] = [status |-> "answered", held |-> {n}, failures |-> 0]]
    <2>1. ASSUME NEW d \in Callers, d # c PROVE Seen(d)' = Seen(d)
      BY <2>1 DEF Accept, Seen, Asking, ApiTypeOK
    <2> QED
      BY <1>3, <2>1 DEF Calls
  <1>5. Calls[c].status = "asked" /\ Calls[c].held = held[c]
    BY <1>2 DEF Calls, Seen, Asking
  <1>6. UNCHANGED state.reserved
    BY DEF Accept
  <1>7. Promise!Answer(c, n)
    BY <1>1, <1>4, <1>5, <1>6 DEF Promise!Answer, Promise!Status, Calls
  <1> QED
    BY <1>1, <1>7

LEMMA AttemptFailsIsFailure ==
    ASSUME ApiTypeOK, NEW c \in Callers, Asking(c), AttemptFails(c)
    PROVE  Promise!Fail(c) \/ Promise!GiveUp(c)
  <1>0. call[c].attempt \in 1 .. Attempts
    BY DEF ApiTypeOK, CallRecords
  <1>1. Calls[c] = [status |-> "asked", held |-> held[c], failures |-> call[c].attempt - 1]
    BY DEF Calls, Seen, Asking
  <1>2. UNCHANGED state.reserved
    BY DEF AttemptFails
  <1>3. CASE call[c].attempt < Attempts
    <2> DEFINE retried == [status |-> "asked", held |-> {state.reserved},
                           failures |-> call[c].attempt]
    <2>1. Seen(c)' = retried
      <3>1. /\ call'[c].pc = "ask" /\ call'[c].attempt = call[c].attempt + 1
            /\ held'[c] = {state.reserved}
        BY <1>3 DEF AttemptFails, CallAt, ApiTypeOK
      <3>2. Seen(c)' = [status |-> "asked", held |-> held'[c], failures |-> call'[c].attempt - 1]
        BY <3>1 DEF Seen, Asking
      <3>3. call'[c].attempt - 1 = call[c].attempt
        BY <3>1, <1>0, EcomApiAssumption
      <3> QED
        BY <3>1, <3>2, <3>3
    <2>2. Calls' = [Calls EXCEPT ![c] = retried]
      BY <1>3, <2>1, OneCallMoves DEF AttemptFails
    <2>3. call[c].attempt - 1 < Attempts - 1 /\ call[c].attempt - 1 + 1 = call[c].attempt
      BY <1>0, <1>3, EcomApiAssumption
    <2>4. Calls[c].failures + 1 = call[c].attempt
      BY <1>1, <2>3
    <2>5. Calls' = [Calls EXCEPT ![c] = [status |-> "asked", held |-> {state.reserved},
                                         failures |-> Calls[c].failures + 1]]
      BY <2>2, <2>4
    <2>6. Calls[c].status = "asked" /\ Calls[c].failures < Attempts - 1
      BY <1>1, <2>3
    <2>7. Promise!Fail(c)
      BY <1>2, <2>5, <2>6 DEF Promise!Fail, Promise!Status, Calls
    <2> QED
      BY <2>7
  <1>4. CASE ~(call[c].attempt < Attempts)
    <2>1. Seen(c)' = [status |-> "unavailable", held |-> {}, failures |-> 0]
      <3>1. call'[c].pc = "unavailable"
        BY <1>4 DEF AttemptFails, CallAt, ApiTypeOK
      <3> QED
        BY <3>1 DEF Seen, Asking
    <2>2. Calls' = [Calls EXCEPT ![c] = [status |-> "unavailable", held |-> {}, failures |-> 0]]
      BY <1>4, <2>1, OneCallMoves DEF AttemptFails
    <2>3. call[c].attempt - 1 = Attempts - 1
      BY <1>0, <1>4, EcomApiAssumption
    <2>4. Calls[c].status = "asked" /\ Calls[c].failures = Attempts - 1
      BY <1>1, <2>3
    <2> QED
      BY <1>2, <2>2, <2>4 DEF Promise!GiveUp, Promise!Status, Calls
  <1> QED
    BY <1>3, <1>4

LEMMA EndIsLeave ==
    ASSUME ApiTypeOK, NEW c \in Callers, End(c)
    PROVE  Promise!Leave(c)
  <1>1. Seen(c)' = Promise!NotAsked
    BY DEF End, Seen, Asking, NoCall, CallAt, ApiTypeOK, Promise!NotAsked
  <1>2. Calls' = [Calls EXCEPT ![c] = Promise!NotAsked]
    BY <1>1, OneCallMoves DEF End
  <1> QED
    BY <1>2 DEF Promise!Leave, Calls, End

LEMMA ApiStepIsPromised ==
    ApiTypeOK /\ AnswersHeld /\ [ApiNext]_apiVars => [Promise!Next]_(Promise!vars)
  <1> SUFFICES ASSUME ApiTypeOK, AnswersHeld, [ApiNext]_apiVars
               PROVE  [Promise!Next]_(Promise!vars)
    OBVIOUS
  <1>1. ASSUME NEW patch \in Patches, PutState(patch) PROVE Promise!Next
    BY <1>1, PutIsChange DEF Promise!Next
  <1>2. ASSUME NEW c \in Callers, Call(c) PROVE Promise!Next
    BY <1>2, CallIsAsk DEF Promise!Next
  <1>3. ASSUME NEW c \in Callers, Handle(c) PROVE UNCHANGED Promise!vars
    BY <1>3, HandleIsStutter DEF Promise!vars, Calls
  <1>4. ASSUME NEW c \in Callers, Accept(c) PROVE Promise!Next
    BY <1>4, AcceptIsAnswer DEF Promise!Next
  <1>5. ASSUME NEW c \in Callers, Reject(c) \/ TimeOut(c) PROVE Promise!Next
    <2>1. Asking(c) /\ AttemptFails(c)
      BY <1>5 DEF Reject, TimeOut, Arrived, Asking
    <2> QED
      BY <2>1, AttemptFailsIsFailure DEF Promise!Next
  <1>6. ASSUME NEW c \in Callers, End(c) PROVE Promise!Next
    BY <1>6, EndIsLeave DEF Promise!Next
  <1>7. CASE UNCHANGED apiVars
    BY <1>7 DEF apiVars, Promise!vars, Seen, Asking
  <1> QED
    BY <1>1, <1>2, <1>3, <1>4, <1>5, <1>6, <1>7 DEF ApiNext, ApiStep

LEMMA ApiInitIsPromised == ApiInit => Promise!Init /\ AnswersHeld
  BY DEF ApiInit, Promise!Init, Promise!NotAsked, Seen, Asking, AnswersHeld, NoCall, CallAt

(***************************************************************************)
(* The reservation call implements its promise: a number that was held     *)
(* during the answered attempt, or unavailability after every attempt.     *)
(***************************************************************************)
THEOREM ApiKeepsPromise == ApiSpec => AnswerWasHeld
  <1>1. ApiTypeOK /\ AnswersHeld /\ [ApiNext]_apiVars => AnswersHeld' /\ ApiTypeOK'
    BY ApiTypeStep, AnswersHeldStep
  <1> QED
    BY <1>1, ApiTypeInit, ApiInitIsPromised, ApiStepIsPromised, PTL
    DEF ApiSpec, AnswerWasHeld, Promise!Spec
=============================================================================
