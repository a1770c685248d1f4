------------------------------ MODULE EcomApi -------------------------------
(***************************************************************************)
(* The reservation call: EcomApiService.getReservedQuantity, with its time *)
(* limit, its attempts and its checks of the body, and the e-com it asks,  *)
(* which is the stand's stand-in for it (tools/mock-ecom.mjs): it can be   *)
(* told to fail in each of the ways the client guards against.             *)
(***************************************************************************)
EXTENDS Integers

CONSTANTS
    Callers,  \* calculations that ask
    Numbers,  \* what e-com may be told is reserved, legal or not
    Attempts, \* ECOM_API.RETRIES + 1
    None

ASSUME EcomApiAssumption ==
    /\ Numbers \subseteq Int /\ 0 \in Numbers
    /\ Attempts \in Nat \ {0}
    /\ None \notin Int

Modes == {"ok", "down", "slow", "garbage", "coercible"}

VARIABLES
    state, \* the e-com: mode and reserved
    call,  \* each caller's call: its attempt and the answer under way
    held   \* observation only: what e-com held during the attempt

apiVars == <<state, call, held>>

NoAnswer == [kind |-> "none", reserved |-> 0]
CallPCs == {"idle", "ask", "wait", "answered", "unavailable"}
CallRecords == [pc : CallPCs, attempt : 1 .. Attempts,
                answer : [kind : Modes \cup {"none"}, reserved : Numbers]]
CallAt(pc, attempt) == [pc |-> pc, attempt |-> attempt, answer |-> NoAnswer]
NoCall == CallAt("idle", 1)

ApiTypeOK ==
    /\ state \in [mode : Modes, reserved : Numbers]
    /\ call \in [Callers -> CallRecords]
    /\ held \in [Callers -> SUBSET Numbers]

ApiInit ==
    /\ state \in [mode : Modes, reserved : Numbers]
    /\ call = [c \in Callers |-> NoCall]
    /\ held = [c \in Callers |-> {}]

Asking(c) == call[c].pc \in {"ask", "wait"}

-----------------------------------------------------------------------------
(* The e-com *)

\* Object.assign(state, patch): a field the patch lacks stays.
Patched(patch) ==
    [mode |-> IF patch.mode = None THEN state.mode ELSE patch.mode,
     reserved |-> IF patch.reserved = None THEN state.reserved ELSE patch.reserved]

\* PUT /_state
PutState(patch) ==
    /\ state' = Patched(patch)
    /\ held' = [c \in Callers |-> IF Asking(c) THEN held[c] \cup {state'.reserved} ELSE held[c]]
    /\ UNCHANGED call

\* GET /api/reservations: the answer is made from the state of this moment.
Handle(c) ==
    /\ call[c].pc = "ask"
    /\ call' = [call EXCEPT ![c].pc = "wait",
                            ![c].answer = [kind |-> state.mode, reserved |-> state.reserved]]
    /\ UNCHANGED <<state, held>>

-----------------------------------------------------------------------------
(* getReservedQuantity *)

Call(c) ==
    /\ call[c].pc = "idle"
    /\ call' = [call EXCEPT ![c] = CallAt("ask", 1)]
    /\ held' = [held EXCEPT ![c] = {state.reserved}]
    /\ UNCHANGED state

\* Defect: an empty string coerced to a number.
ReadingCoerced(answer) ==
    IF answer.kind = "coercible" THEN 0
    ELSE IF answer.kind = "ok" /\ answer.reserved >= 0 THEN answer.reserved ELSE None

\* The number in a body that passes every check, None for any other answer.
Reading(answer) ==
    IF answer.kind = "ok" /\ answer.reserved >= 0 THEN answer.reserved ELSE None

\* The answer arrives within the time limit; a slow one never does.
Arrived(c) == call[c].pc = "wait" /\ call[c].answer.kind # "slow"

Accept(c) ==
    /\ Arrived(c)
    /\ Reading(call[c].answer) # None
    /\ call' = [call EXCEPT ![c].pc = "answered"]
    /\ UNCHANGED <<state, held>>

\* The catch block: another attempt after a pause, or EcomApiUnavailableError.
AttemptFails(c) ==
    /\ IF call[c].attempt < Attempts
       THEN /\ call' = [call EXCEPT ![c] = CallAt("ask", call[c].attempt + 1)]
            /\ held' = [held EXCEPT ![c] = {state.reserved}]
       ELSE /\ call' = [call EXCEPT ![c] = CallAt("unavailable", 1)]
            /\ held' = [held EXCEPT ![c] = {}]
    /\ UNCHANGED state

\* An error status, a body of the wrong shape, or a number that is none.
Reject(c) ==
    /\ Arrived(c)
    /\ Reading(call[c].answer) = None
    /\ AttemptFails(c)

\* No answer within TIMEOUT_MS, or no connection; a later answer finds nobody.
TimeOut(c) ==
    /\ Asking(c)
    /\ AttemptFails(c)

\* The call returns, or its process dies.
End(c) ==
    /\ call' = [call EXCEPT ![c] = NoCall]
    /\ held' = [held EXCEPT ![c] = {}]
    /\ UNCHANGED state

ApiStep(c) == Handle(c) \/ Accept(c) \/ Reject(c) \/ TimeOut(c)

Patches == [mode : Modes \cup {None}, reserved : Numbers \cup {None}]

ApiNext ==
    \/ \E patch \in Patches : PutState(patch)
    \/ \E c \in Callers : Call(c) \/ ApiStep(c) \/ End(c)

ApiSpec == ApiInit /\ [][ApiNext]_apiVars

-----------------------------------------------------------------------------
(* What the call promises *)

\* A call as its caller sees it.
Seen(c) ==
    CASE Asking(c) ->
           [status |-> "asked", held |-> held[c], failures |-> call[c].attempt - 1]
      [] call[c].pc = "answered" ->
           [status |-> "answered", held |-> {Reading(call[c].answer)}, failures |-> 0]
      [] OTHER -> [status |-> call[c].pc, held |-> {}, failures |-> 0]

Promise == INSTANCE ReservationPromise
    WITH current <- state.reserved, asked <- [c \in Callers |-> Seen(c)]

(***************************************************************************)
(* Whatever e-com is told to do meanwhile, a calculation gets a number     *)
(* e-com held during the attempt that was answered, or hears that it is    *)
(* unavailable after every attempt has failed.                             *)
(***************************************************************************)
AnswerWasHeld == Promise!Spec
=============================================================================
