---------------------------- MODULE StandProofs -----------------------------
(***************************************************************************)
(* Theorems about Stand, for any variants, refreshes, attempts and         *)
(* changes.  Whatever is pressed, killed or shown around it, a calculation *)
(* of the stand asks e-com as EcomApi does, and is therefore promised the  *)
(* same; and the screen holds only answers to what it asked.               *)
(***************************************************************************)
EXTENDS Stand, EcomApiProofs

\* What the panel sends to e-com is a patch it may be sent.
PatchIsLegal == act.patch \in Patches

StandInv == ApiTypeOK /\ PatchIsLegal

LEMMA NoPatchIsLegal == NoPatch \in Patches
  BY DEF NoPatch, Patches

LEMMA ActIsLegal ==
    ASSUME NEW pc, Act(pc)
    PROVE  PatchIsLegal'
  BY NoPatchIsLegal DEF Act, NoAct, PatchIsLegal

\* Only e-com's requests and the calculation of a button touch the call.
LEMMA LayerIsApi ==
    ASSUME StandInv, LayerStep
    PROVE  [ApiNext]_apiVars /\ PatchIsLegal'
  <1>0. Request \in Callers
    BY StandAssumption
  <1>1. ASSUME NEW v \in Variants, Retry(v) PROVE [ApiNext]_apiVars /\ PatchIsLegal'
    BY <1>1 DEF Retry, StandInv, PatchIsLegal, browser
  <1>2. ASSUME AskEcom PROVE [ApiNext]_apiVars /\ PatchIsLegal'
    BY <1>0, <1>2 DEF AskEcom, ApiNext, StandInv, PatchIsLegal, browser
  <1>3. ASSUME Store PROVE [ApiNext]_apiVars /\ PatchIsLegal'
    <2>1. Act("done") /\ End(Request)
      BY <1>3 DEF Store
    <2> QED
      BY <1>0, <2>1, ActIsLegal DEF ApiNext
  <1> QED
    BY <1>1, <1>2, <1>3 DEF LayerStep

LEMMA ActIsApi ==
    ASSUME StandInv, ActStep
    PROVE  [ApiNext]_apiVars /\ PatchIsLegal'
  <1>0. Request \in Callers
    BY StandAssumption
  <1>1. ASSUME HandlePatch PROVE [ApiNext]_apiVars /\ PatchIsLegal'
    <2>1. Act("done") /\ PutState(act.patch)
      BY <1>1 DEF HandlePatch
    <2> QED
      BY <2>1, ActIsLegal DEF ApiNext, StandInv, PatchIsLegal
  <1>2. ASSUME HandleStock \/ HandleRecalculate PROVE [ApiNext]_apiVars /\ PatchIsLegal'
    <2>1. Act("calculating") /\ Call(Request)
      BY <1>2 DEF HandleStock, HandleRecalculate, Begin
    <2> QED
      BY <1>0, <2>1, ActIsLegal DEF ApiNext
  <1>3. ASSUME HandleProduct \/ RecalculateNothing \/ RefreshAfterAct
        PROVE  [ApiNext]_apiVars /\ PatchIsLegal'
    <2>1. UNCHANGED apiVars
      BY <1>3 DEF HandleProduct, RecalculateNothing, RefreshAfterAct
    <2>2. Act("done") \/ Act("refresh")
      BY <1>3 DEF HandleProduct, RecalculateNothing, RefreshAfterAct
    <2> QED
      BY <2>1, <2>2, ActIsLegal
  <1>4. ASSUME ActFails PROVE [ApiNext]_apiVars /\ PatchIsLegal'
    BY <1>4, NoPatchIsLegal DEF ActFails, NoAct, PatchIsLegal
  <1> QED
    BY <1>1, <1>2, <1>3, <1>4 DEF ActStep

\* A refresh only reads.
LEMMA RefreshIsApi ==
    ASSUME StandInv, NEW s \in Refreshes, RefreshStep(s) \/ Poll(s)
    PROVE  [ApiNext]_apiVars /\ PatchIsLegal'
  <1>1. UNCHANGED apiVars
    BY DEF RefreshStep, Poll, ServeOverview, ShowOverview, OverviewFails, ServeTrace,
           ShowTrace, TraceFails, ServeEcom, ShowEcom, EcomFails, Serve
  <1>2. act' = act \/ act' = NoAct
    BY DEF RefreshStep, Poll, ServeOverview, ShowOverview, OverviewFails, ServeTrace,
           ShowTrace, TraceFails, ServeEcom, ShowEcom, EcomFails, Serve, Over, AwaitEcom
  <1> QED
    BY <1>1, <1>2, NoPatchIsLegal DEF NoAct, StandInv, PatchIsLegal

LEMMA ServiceIsApi ==
    ASSUME StandInv, NEW service \in Services, Die(service) \/ Return(service)
    PROVE  [ApiNext]_apiVars /\ PatchIsLegal'
  <1>1. CASE Die(service) /\ service = "layer"
    <2>1. End(Request)
      BY <1>1, StandAssumption DEF Die, End, StandInv, ApiTypeOK
    <2>2. act' = act \/ act' = NoAct
      BY <1>1 DEF Die
    <2> QED
      BY <2>1, <2>2, NoPatchIsLegal, StandAssumption
      DEF ApiNext, NoAct, StandInv, PatchIsLegal
  <1>2. CASE Die(service) /\ service # "layer"
    <2> DEFINE fresh == [mode |-> "ok", reserved |-> 0]
    <2>1. fresh \in Patches
      BY EcomApiAssumption DEF Patches, Modes
    <2>2. PutState(fresh) /\ act' = act
      BY <1>2 DEF Die
    <2> QED
      BY <2>1, <2>2 DEF ApiNext, StandInv, PatchIsLegal
  <1>3. CASE Return(service)
    BY <1>3 DEF Return, browser, StandInv, PatchIsLegal
  <1> QED
    BY <1>1, <1>2, <1>3

\* Pressing a button asks nothing yet, and a terminal sends what e-com accepts.
LEMMA PressIsApi ==
    ASSUME StandInv,
           \/ \E kind \in {"product", "stock"}, v \in Variants : Send(kind, v)
           \/ Recalculate
           \/ SwitchEcom
           \/ \E n \in Numbers : SaveReserved(n)
           \/ \E patch \in Patches : Curl(patch)
    PROVE  [ApiNext]_apiVars /\ PatchIsLegal'
  <1>1. ASSUME NEW kind, NEW patch \in Patches, Press(kind, patch)
        PROVE  [ApiNext]_apiVars /\ PatchIsLegal'
    BY <1>1 DEF Press, PatchIsLegal
  <1>2. ASSUME NEW kind, NEW v, Send(kind, v) PROVE [ApiNext]_apiVars /\ PatchIsLegal'
    BY <1>1, <1>2, NoPatchIsLegal DEF Send
  <1>3. ASSUME Recalculate PROVE [ApiNext]_apiVars /\ PatchIsLegal'
    BY <1>1, <1>3, NoPatchIsLegal DEF Recalculate
  <1>4. ASSUME SwitchEcom PROVE [ApiNext]_apiVars /\ PatchIsLegal'
    <2> DEFINE p == [NoPatch EXCEPT !.mode = IF Reachable THEN "down" ELSE "ok"]
    <2>1. p \in Patches
      BY DEF NoPatch, Patches, Modes
    <2>2. Press("ecom", p)
      BY <1>4 DEF SwitchEcom
    <2> QED
      BY <1>1, <2>1, <2>2
  <1>5. ASSUME NEW n \in Numbers, SaveReserved(n) PROVE [ApiNext]_apiVars /\ PatchIsLegal'
    <2> DEFINE p == [NoPatch EXCEPT !.reserved = n]
    <2>1. p \in Patches
      BY DEF NoPatch, Patches
    <2>2. Press("ecom", p)
      BY <1>5 DEF SaveReserved
    <2> QED
      BY <1>1, <2>1, <2>2
  <1>6. ASSUME NEW patch \in Patches, Curl(patch) PROVE [ApiNext]_apiVars /\ PatchIsLegal'
    BY <1>6 DEF Curl, ApiNext, browser, StandInv, PatchIsLegal
  <1> QED
    BY <1>2, <1>3, <1>4, <1>5, <1>6

LEMMA StandStepIsApi == StandInv /\ [StandNext]_standVars => [ApiNext]_apiVars /\ StandInv'
  <1> SUFFICES ASSUME StandInv, [StandNext]_standVars
               PROVE  [ApiNext]_apiVars /\ PatchIsLegal'
    BY ApiTypeStep DEF StandInv
  <1>1. CASE UNCHANGED standVars
    BY <1>1 DEF standVars, browser, StandInv, PatchIsLegal
  <1>2. CASE StandNext
    BY <1>2, PressIsApi, ActIsApi, LayerIsApi, RefreshIsApi, ServiceIsApi
    DEF StandNext, Refreshes
  <1> QED
    BY <1>1, <1>2

\* Every behaviour of the stand is, for the call, one of EcomApi.
THEOREM StandAsksAsEcomApi == StandSpec => ApiSpec
  <1>1. StandInit => ApiInit /\ StandInv
    BY ApiTypeInit, NoPatchIsLegal DEF StandInit, StandInv, PatchIsLegal, NoAct
  <1> QED
    BY <1>1, StandStepIsApi, PTL DEF StandSpec, ApiSpec

(***************************************************************************)
(* AnswerWasHeld of the whole stand: buttons, terminals, restarts of       *)
(* either service and any number of variants, refreshes and attempts never *)
(* make a calculation rest on a number e-com did not hold when asked.      *)
(***************************************************************************)
THEOREM StandKeepsPromise == StandSpec => AnswerWasHeld
  BY StandAsksAsEcomApi, ApiKeepsPromise

-----------------------------------------------------------------------------
(* Types of the stand *)

(***************************************************************************)
(* The screen is typed because every answer under way is one to the        *)
(* request its refresh waits for.  That an answer is never overtaken by    *)
(* another request of the same refresh rests on who is waiting: a button's *)
(* refresh runs only while the button waits for it, and so does its call,  *)
(* whose number is then never negative.                                    *)
(***************************************************************************)
ActPCs == {"idle", "request", "calculating", "done", "refresh"}

LayerOK ==
    /\ data \in [Variants -> Data]
    /\ reopened \subseteq Variants
    /\ target # None => target \in [variant : Variants, reserved : Nat]

ScreenOK ==
    /\ DOMAIN screen = {"variant", "trace", "health", "ecom", "offline"}
    /\ screen.variant \in Variants \cup {None} /\ screen.trace \in Data
    /\ screen.health # None => screen.health \in Answers("overview")
    /\ screen.ecom # None => screen.ecom \in Answers("ecom")
    /\ screen.offline \in BOOLEAN

Asked(r) ==
    /\ DOMAIN r = {"pc", "variant", "answer"}
    /\ r.variant \in Variants
    /\ r.answer # None => r.answer \in Answers(r.pc)

RefreshOK == DOMAIN refresh = Refreshes /\ \A s \in Refreshes : Asked(refresh[s])

\* The button's own refresh runs while the button waits for it, and no longer.
ButtonOK ==
    /\ selected \in Variants
    /\ act.pc \in ActPCs
    /\ act.pc # "refresh" => refresh[Own].pc = "idle"

\* A button's call runs while the button waits for it, and answers with a number.
CallOK ==
    /\ call[Request].pc # "idle" =>
          act.pc = "calculating" /\ target \in [variant : Variants, reserved : Nat]
    /\ call[Request].pc = "answered" => Reading(call[Request].answer) \in Nat

Around ==
    /\ LayerOK
    /\ ScreenOK
    /\ RefreshOK
    /\ ButtonOK
    /\ CallOK
    /\ up \subseteq Services
    /\ changes \in 0 .. MaxChanges

StandWhole == StandInv /\ Around

LEMMA AnswersOf ==
    /\ Answers("overview") = Healths
    /\ Answers("trace") = Data
    /\ Answers("ecom") = [mode : Modes, reserved : Numbers]
    /\ Answers("idle") = {}
  BY DEF Answers

LEMMA StandWholeTyped ==
    ASSUME StandWhole
    PROVE  StandTypeOK
  BY DEF StandWhole, Around, StandInv, LayerOK, ScreenOK, RefreshOK, Asked, ButtonOK, ActPCs,
         StandTypeOK

LEMMA HealthTyped == Health \in Healths /\ CountsFailed \in Healths
  BY DEF Health, CountsFailed, Healths

\* Steps of the layer and of e-com leave the browser's part as it was.
LEMMA BrowserKept ==
    ASSUME StandWhole, UNCHANGED <<screen, selected, refresh>>
    PROVE  ScreenOK' /\ RefreshOK' /\ selected' \in Variants
  BY DEF StandWhole, Around, ScreenOK, RefreshOK, ButtonOK

LEMMA ButtonKept ==
    ASSUME StandWhole, UNCHANGED <<act, selected, refresh>>
    PROVE  ButtonOK'
  BY DEF StandWhole, Around, ButtonOK

LEMMA CallKept ==
    ASSUME StandWhole, UNCHANGED call, target' = target,
           call[Request].pc # "idle" => act'.pc = "calculating"
    PROVE  CallOK'
  BY DEF StandWhole, Around, CallOK

LEMMA LayerKept ==
    ASSUME StandWhole, UNCHANGED layer
    PROVE  LayerOK'
  BY DEF StandWhole, Around, LayerOK, layer

\* A button is free, its request is out, or it waits for its calculation.
LEMMA CallIdle ==
    ASSUME StandWhole, act.pc # "calculating"
    PROVE  call[Request].pc = "idle"
  BY DEF StandWhole, Around, CallOK

LEMMA ChangeTyped ==
    ASSUME StandWhole, Change
    PROVE  changes' \in 0 .. MaxChanges
  BY StartAssumption DEF StandWhole, Around, Change

\* Pressing a button waits for nothing yet.
LEMMA PressKeeps ==
    ASSUME StandWhole,
           \/ \E kind \in {"product", "stock"}, v \in Variants : Send(kind, v)
           \/ Recalculate
           \/ SwitchEcom
           \/ \E n \in Numbers : SaveReserved(n)
    PROVE  Around'
  <1>1. PICK kind, patch : Press(kind, patch) /\ selected' \in Variants
    BY DEF Send, Recalculate, SwitchEcom, SaveReserved, StandWhole, Around, ButtonOK
  <1>2. /\ act.pc = "idle" /\ act'.pc = "request" /\ Change
        /\ UNCHANGED <<apiVars, layer, up, screen, refresh>>
    BY <1>1 DEF Press
  <1>3. changes' \in 0 .. MaxChanges
    BY <1>2, ChangeTyped
  <1>4. LayerOK'
    BY <1>2, LayerKept
  <1>5. ScreenOK' /\ RefreshOK'
    BY <1>2 DEF StandWhole, Around, ScreenOK, RefreshOK
  <1>6. ButtonOK'
    BY <1>1, <1>2 DEF StandWhole, Around, ButtonOK, ActPCs
  <1>7. CallOK'
    <2>1. call[Request].pc = "idle"
      BY <1>2, CallIdle
    <2>2. call' = call
      BY <1>2 DEF apiVars
    <2> QED
      BY <2>1, <2>2 DEF CallOK
  <1> QED
    BY <1>2, <1>3, <1>4, <1>5, <1>6, <1>7 DEF StandWhole, Around

LEMMA CurlKeeps ==
    ASSUME StandWhole, NEW patch \in Patches, Curl(patch)
    PROVE  Around'
  <1>1. /\ Change /\ call' = call /\ UNCHANGED <<data, reopened, target, up, screen, selected, act, refresh>>
    BY DEF Curl, PutState, layer, browser
  <1>2. changes' \in 0 .. MaxChanges
    BY <1>1, ChangeTyped
  <1>3. ScreenOK' /\ RefreshOK'
    BY <1>1, BrowserKept
  <1>4. ButtonOK' /\ LayerOK'
    BY <1>1, ButtonKept, LayerKept DEF layer
  <1>5. CallOK'
    BY <1>1 DEF StandWhole, Around, CallOK
  <1> QED
    BY <1>1, <1>2, <1>3, <1>4, <1>5 DEF StandWhole, Around

LEMMA RetryKeeps ==
    ASSUME StandWhole, NEW v \in Variants, Retry(v)
    PROVE  Around'
  <1>1. /\ Change /\ call' = call /\ reopened' \subseteq reopened
        /\ UNCHANGED <<target, up, screen, selected, act, refresh>>
    BY DEF Retry, apiVars, browser
  <1>2. changes' \in 0 .. MaxChanges
    BY <1>1, ChangeTyped
  <1>3. ScreenOK' /\ RefreshOK'
    BY <1>1, BrowserKept
  <1>4. ButtonOK'
    BY <1>1, ButtonKept
  <1>5. CallOK'
    BY <1>1 DEF StandWhole, Around, CallOK
  <1>6. LayerOK'
    <2>1. data[v] \in Data
      BY DEF StandWhole, Around, LayerOK
    <2>2. PICK d \in Data : data' = [data EXCEPT ![v] = d]
      <3>1. ASSUME state.reserved >= 0,
                   data' = [data EXCEPT ![v] = [status |-> "confirmed",
                                                reserved |-> state.reserved]]
            PROVE  \E d \in Data : data' = [data EXCEPT ![v] = d]
        <4>1. state.reserved \in Nat
          <5>1. state.reserved \in Numbers
            BY DEF StandWhole, StandInv, ApiTypeOK
          <5>2. state.reserved \in Int
            BY <5>1, EcomApiAssumption
          <5> QED
            BY <3>1, <5>2
        <4>2. [status |-> "confirmed", reserved |-> state.reserved] \in Data
          BY <4>1 DEF Data, Calculated
        <4> QED
          BY <3>1, <4>2
      <3>2. ASSUME NEW status \in {"stale", "abandoned"},
                   data' = [data EXCEPT ![v].status = status]
            PROVE  \E d \in Data : data' = [data EXCEPT ![v] = d]
        <4>1. [data[v] EXCEPT !.status = status] \in Data
          BY <2>1 DEF Data, Calculated
        <4> QED
          BY <3>2, <4>1
      <3> QED
        BY <3>1, <3>2 DEF Retry
    <2> QED
      BY <1>1, <2>2 DEF StandWhole, Around, LayerOK
  <1> QED
    BY <1>1, <1>2, <1>3, <1>4, <1>5, <1>6 DEF StandWhole, Around

LEMMA AskEcomKeeps ==
    ASSUME StandWhole, AskEcom
    PROVE  Around'
  <1>1. /\ ApiStep(Request)
        /\ UNCHANGED <<data, reopened, target, up, screen, selected, act, refresh, changes>>
    BY DEF AskEcom, layer, browser
  <1>2. ScreenOK' /\ RefreshOK'
    BY <1>1, BrowserKept
  <1>3. ButtonOK' /\ LayerOK'
    BY <1>1, ButtonKept, LayerKept DEF layer
  <1>4. Request \in Callers /\ call \in [Callers -> CallRecords]
    BY StandAssumption DEF StandWhole, StandInv, ApiTypeOK
  <1>5. call[Request].pc # "idle"
    BY <1>1 DEF ApiStep, Handle, Accept, Reject, TimeOut, Arrived, Asking
  <1>6. call'[Request].pc = "answered" => Reading(call'[Request].answer) \in Nat
    <2>1. CASE Accept(Request)
      <3>1. call'[Request].answer = call[Request].answer
            /\ Reading(call[Request].answer) # None
        BY <1>4, <2>1 DEF Accept, CallRecords
      <3>2. call[Request].answer.reserved \in Int
        BY <1>4, EcomApiAssumption DEF CallRecords
      <3>3. Reading(call[Request].answer) \in Nat
        BY <3>1, <3>2 DEF Reading
      <3> QED
        BY <3>1, <3>3
    <2>2. CASE Handle(Request)
      BY <1>4, <2>2 DEF Handle, CallRecords
    <2>3. CASE AttemptFails(Request)
      BY <1>4, <2>3 DEF AttemptFails, CallAt
    <2> QED
      BY <1>1, <2>1, <2>2, <2>3 DEF ApiStep, Reject, TimeOut
  <1>7. CallOK'
    BY <1>1, <1>5, <1>6 DEF StandWhole, Around, CallOK
  <1> QED
    BY <1>1, <1>2, <1>3, <1>7 DEF StandWhole, Around

LEMMA StoreKeeps ==
    ASSUME StandWhole, Store
    PROVE  Around'
  <1>1. /\ target' = None /\ act'.pc = "done" /\ reopened' \subseteq reopened
        /\ call' = [call EXCEPT ![Request] = NoCall]
        /\ UNCHANGED <<up, screen, selected, refresh, changes>>
    BY DEF Store, Act, NoAct, End
  <1>2. call[Request].pc \in {"answered", "unavailable"}
    BY DEF Store
  <1>3. act.pc = "calculating" /\ target \in [variant : Variants, reserved : Nat]
    BY <1>2 DEF StandWhole, Around, CallOK
  <1>4. target.variant \in Variants /\ target.reserved \in Nat
    BY <1>3
  <1>5. PICK d \in Data : data' = [data EXCEPT ![target.variant] = d]
    <2>1. CASE call[Request].pc = "answered"
      <3>1. Reading(call[Request].answer) \in Nat
        BY <2>1 DEF StandWhole, Around, CallOK
      <3>2. [status |-> "confirmed", reserved |-> Reading(call[Request].answer)] \in Data
        BY <3>1 DEF Data, Calculated
      <3> QED
        BY <2>1, <3>2 DEF Store
    <2>2. CASE call[Request].pc = "unavailable"
      <3>1. \A status \in {"stale", "abandoned"} :
               [status |-> status, reserved |-> target.reserved] \in Data
        BY <1>4 DEF Data, Calculated
      <3> QED
        BY <2>2, <3>1 DEF Store
    <2> QED
      BY <1>2, <2>1, <2>2
  <1>6. LayerOK'
    BY <1>1, <1>5 DEF StandWhole, Around, LayerOK
  <1>7. ScreenOK' /\ RefreshOK'
    BY <1>1, BrowserKept
  <1>8. ButtonOK'
    BY <1>1, <1>3 DEF StandWhole, Around, ButtonOK, ActPCs
  <1>9. CallOK'
    <2>1. call'[Request].pc = "idle"
      <3>1. Request \in Callers /\ DOMAIN call = Callers
        BY StandAssumption DEF StandWhole, StandInv, ApiTypeOK
      <3> QED
        BY <1>1, <3>1 DEF NoCall, CallAt
    <2> QED
      BY <2>1 DEF CallOK
  <1> QED
    BY <1>1, <1>6, <1>7, <1>8, <1>9 DEF StandWhole, Around

\* A refresh that waits for nothing has no answer to take along.
LEMMA AskedBegins ==
    ASSUME NEW r, Asked(r), r.pc = "idle"
    PROVE  Asked([r EXCEPT !.pc = "overview"])
  <1>1. r.answer = None
    BY AnswersOf DEF Asked
  <1> QED
    BY <1>1 DEF Asked

LEMMA ActKeeps ==
    ASSUME StandWhole, ActStep
    PROVE  Around'
  <1>1. Request \in Callers /\ call \in [Callers -> CallRecords]
    BY StandAssumption DEF StandWhole, StandInv, ApiTypeOK
  <1>2. \A pc \in ActPCs : Act(pc) => act'.pc = pc
    BY DEF Act, NoAct
  <1>3. CASE HandlePatch
    <2>1. /\ act.pc = "request" /\ act'.pc = "done" /\ call' = call
          /\ UNCHANGED <<data, reopened, target, up, screen, selected, refresh, changes>>
      BY <1>2, <1>3 DEF HandlePatch, PutState, layer, ActPCs
    <2>2. ScreenOK' /\ RefreshOK' /\ LayerOK'
      BY <2>1, BrowserKept, LayerKept DEF layer
    <2>3. ButtonOK' /\ CallOK'
      BY <2>1, CallIdle DEF StandWhole, Around, ButtonOK, CallOK, ActPCs
    <2> QED
      BY <2>1, <2>2, <2>3 DEF StandWhole, Around
  <1>4. CASE HandleProduct
    <2>1. /\ act.pc = "request" /\ act'.pc = "done" /\ call' = call
          /\ UNCHANGED <<reopened, target, up, screen, selected, refresh, changes>>
      BY <1>2, <1>4 DEF HandleProduct, apiVars, ActPCs
    <2>2. ScreenOK' /\ RefreshOK'
      BY <2>1, BrowserKept
    <2>3. LayerOK'
      <3>1. [Unknown EXCEPT !.status = "card"] \in Data
        BY DEF Unknown, Data
      <3>2. data' \in [Variants -> Data]
        BY <1>4, <3>1 DEF HandleProduct, StandWhole, Around, LayerOK
      <3> QED
        BY <2>1, <3>2 DEF StandWhole, Around, LayerOK
    <2>4. ButtonOK' /\ CallOK'
      BY <2>1, CallIdle DEF StandWhole, Around, ButtonOK, CallOK, ActPCs
    <2> QED
      BY <2>1, <2>2, <2>3, <2>4 DEF StandWhole, Around
  <1>5. CASE HandleStock \/ HandleRecalculate
    <2>1. /\ act.pc = "request" /\ act'.pc = "calculating"
          /\ data' = [data EXCEPT ![selected] = Owed(@)]
          /\ reopened' \subseteq reopened \cup {selected}
          /\ target' = [variant |-> selected, reserved |-> data[selected].reserved]
          /\ call' = [call EXCEPT ![Request] = CallAt("ask", 1)]
          /\ UNCHANGED <<up, screen, selected, refresh, changes>>
      BY <1>2, <1>5 DEF HandleStock, HandleRecalculate, Owe, Begin, Call, ActPCs
    <2>2. ScreenOK' /\ RefreshOK'
      BY <2>1, BrowserKept
    <2>3. selected \in Variants /\ data[selected] \in Data
      BY DEF StandWhole, Around, ButtonOK, LayerOK
    <2>4. LayerOK'
      <3>1. Owed(data[selected]) \in Data
        BY <2>3 DEF Owed, Data, Calculated
      <3>2. target' \in [variant : Variants, reserved : Nat]
        BY <2>1, <2>3 DEF Data
      <3>3. data' \in [Variants -> Data]
        BY <2>1, <3>1 DEF StandWhole, Around, LayerOK
      <3>4. reopened' \subseteq Variants
        BY <2>1, <2>3 DEF StandWhole, Around, LayerOK
      <3> QED
        BY <3>2, <3>3, <3>4 DEF LayerOK
    <2>5. ButtonOK'
      BY <2>1 DEF StandWhole, Around, ButtonOK, ActPCs
    <2>6. CallOK'
      <3>1. call'[Request].pc = "ask"
        BY <1>1, <2>1 DEF CallAt
      <3>2. target' \in [variant : Variants, reserved : Nat]
        BY <2>1, <2>3 DEF Data
      <3> QED
        BY <2>1, <3>1, <3>2 DEF CallOK
    <2> QED
      BY <2>1, <2>2, <2>4, <2>5, <2>6 DEF StandWhole, Around
  <1>6. CASE RecalculateNothing \/ ActFails
    <2>1. /\ act.pc = "request" /\ act'.pc \in {"done", "idle"} /\ call' = call
          /\ UNCHANGED <<data, reopened, target, up, screen, selected, refresh, changes>>
      BY <1>2, <1>6 DEF RecalculateNothing, ActFails, apiVars, layer, NoAct, ActPCs
    <2>2. ScreenOK' /\ RefreshOK' /\ LayerOK'
      BY <2>1, BrowserKept, LayerKept DEF layer
    <2>3. ButtonOK' /\ CallOK'
      BY <2>1, CallIdle DEF StandWhole, Around, ButtonOK, CallOK, ActPCs
    <2> QED
      BY <2>1, <2>2, <2>3 DEF StandWhole, Around
  <1>7. CASE RefreshAfterAct
    <2>1. /\ act.pc = "done" /\ act'.pc = "refresh" /\ call' = call
          /\ refresh' = [refresh EXCEPT ![Own].pc = "overview"]
          /\ UNCHANGED <<data, reopened, target, up, screen, selected, changes>>
      BY <1>2, <1>7 DEF RefreshAfterAct, apiVars, layer, ActPCs
    <2>2. refresh[Own].pc = "idle" /\ Own \in Refreshes
      BY <2>1 DEF StandWhole, Around, ButtonOK, Refreshes
    <2>4. RefreshOK'
      BY <2>1, <2>2, AskedBegins DEF StandWhole, Around, RefreshOK
    <2>5. ScreenOK' /\ LayerOK'
      BY <2>1, LayerKept DEF StandWhole, Around, ScreenOK, layer
    <2>6. ButtonOK' /\ CallOK'
      BY <2>1, CallIdle DEF StandWhole, Around, ButtonOK, CallOK, ActPCs
    <2> QED
      BY <2>1, <2>4, <2>5, <2>6 DEF StandWhole, Around
  <1> QED
    BY <1>3, <1>4, <1>5, <1>6, <1>7 DEF ActStep

LEMMA NothingAsked == Asked(NoRefresh)
  BY StandAssumption DEF Asked, NoRefresh

\* What every step of a refresh in progress does to the rest of the screen.
LEMMA RefreshedKeeps ==
    ASSUME StandWhole, NEW s \in Refreshes, NEW r, Asked(r),
           refresh' = [refresh EXCEPT ![s] = r],
           refresh[s].pc # "idle",
           act' = act \/ (s = Own /\ act' = NoAct /\ r.pc = "idle"),
           UNCHANGED <<call, data, reopened, target, up, selected>>,
           changes' \in 0 .. MaxChanges,
           ScreenOK'
    PROVE  Around'
  <1>1. RefreshOK'
    BY DEF StandWhole, Around, RefreshOK
  <1>2. LayerOK'
    BY LayerKept DEF layer
  <1>3. act' # act => s = Own /\ act.pc = "refresh"
    BY DEF StandWhole, Around, ButtonOK
  <1>4. ButtonOK'
    <2>1. CASE act' = act
      BY <2>1, <1>1 DEF StandWhole, Around, ButtonOK, RefreshOK
    <2>2. CASE act' # act
      BY <2>2, <1>1 DEF StandWhole, Around, ButtonOK, RefreshOK, NoAct, ActPCs
    <2> QED
      BY <2>1, <2>2
  <1>5. CallOK'
    <2>1. CASE act' = act
      BY <2>1 DEF StandWhole, Around, CallOK
    <2>2. CASE act' # act
      BY <2>2, <1>3, CallIdle DEF CallOK
    <2> QED
      BY <2>1, <2>2
  <1> QED
    BY <1>1, <1>2, <1>4, <1>5 DEF StandWhole, Around

\* An answer is one to the request the refresh waits for.
LEMMA ServeKeeps ==
    ASSUME StandWhole, NEW s \in Refreshes, NEW answer, Serve(s, answer),
           refresh[s].pc \in {"overview", "trace", "ecom"},
           answer \in Answers(refresh[s].pc),
           changes' \in 0 .. MaxChanges
    PROVE  Around'
  <1> DEFINE r == [refresh[s] EXCEPT !.answer = answer]
  <1>1. /\ refresh' = [refresh EXCEPT ![s] = r]
        /\ UNCHANGED <<call, data, reopened, target, up, selected, screen, act>>
    BY DEF Serve, apiVars, layer
  <1>2. Asked(r)
    BY DEF StandWhole, Around, RefreshOK, Asked
  <1>3. ScreenOK'
    BY <1>1 DEF StandWhole, Around, ScreenOK
  <1>4. refresh[s].pc # "idle"
    OBVIOUS
  <1> QED
    BY <1>1, <1>2, <1>3, <1>4, RefreshedKeeps

LEMMA ServedKeeps ==
    ASSUME StandWhole, NEW s \in Refreshes,
           ServeOverview(s) \/ ServeTrace(s) \/ ServeEcom(s)
    PROVE  Around'
  <1>1. changes \in 0 .. MaxChanges
    BY DEF StandWhole, Around
  <1>2. CASE ServeOverview(s)
    <2>1. PICK answer : Serve(s, answer) /\ answer \in Healths
      BY <1>2, HealthTyped DEF ServeOverview
    <2>2. changes' \in 0 .. MaxChanges
      BY <1>1, <1>2, ChangeTyped DEF ServeOverview
    <2> QED
      BY <1>2, <2>1, <2>2, AnswersOf, ServeKeeps DEF ServeOverview, Waiting
  <1>3. CASE ServeTrace(s)
    <2>1. data[refresh[s].variant] \in Data
      BY DEF StandWhole, Around, LayerOK, RefreshOK, Asked
    <2> QED
      BY <1>1, <1>3, <2>1, AnswersOf, ServeKeeps DEF ServeTrace, Waiting
  <1>4. CASE ServeEcom(s)
    <2>1. state \in [mode : Modes, reserved : Numbers]
      BY DEF StandWhole, StandInv, ApiTypeOK
    <2> QED
      BY <1>1, <1>4, <2>1, AnswersOf, ServeKeeps DEF ServeEcom, Waiting
  <1> QED
    BY <1>2, <1>3, <1>4

\* The screen takes an answer, or the failure of its request.
LEMMA ShownKeeps ==
    ASSUME StandWhole, NEW s \in Refreshes,
           \/ ShowOverview(s) \/ OverviewFails(s)
           \/ ShowTrace(s) \/ TraceFails(s)
           \/ ShowEcom(s) \/ EcomFails(s)
    PROVE  Around'
  <1>1. /\ UNCHANGED <<call, data, reopened, target, up, selected>>
        /\ changes' = changes
        /\ refresh[s].pc \in {"overview", "trace", "ecom"}
    BY DEF ShowOverview, OverviewFails, ShowTrace, TraceFails, ShowEcom, EcomFails,
           Waiting, Answered, apiVars, layer
  <1>2. changes' \in 0 .. MaxChanges
    BY <1>1 DEF StandWhole, Around
  <1>3. refresh[s].pc # "idle"
    BY <1>1
  <1>4. PICK r : /\ refresh' = [refresh EXCEPT ![s] = r]
                 /\ Asked(r)
                 /\ act' = act \/ (s = Own /\ act' = NoAct /\ r.pc = "idle")
    <2>1. CASE ShowOverview(s)
      <3> DEFINE r == [pc |-> "trace", variant |-> selected, answer |-> None]
      <3>1. Asked(r)
        BY DEF StandWhole, Around, ButtonOK, Asked
      <3> QED
        BY <2>1, <3>1 DEF ShowOverview
    <2>2. CASE ShowTrace(s) \/ TraceFails(s)
      <3> DEFINE r == [NoRefresh EXCEPT !.pc = "ecom"]
      <3>1. Asked(r)
        BY StandAssumption DEF Asked, NoRefresh
      <3> QED
        BY <2>2, <3>1 DEF ShowTrace, TraceFails, AwaitEcom
    <2>3. CASE OverviewFails(s) \/ ShowEcom(s) \/ EcomFails(s)
      <3>1. Over(s)
        BY <2>3 DEF OverviewFails, ShowEcom, EcomFails
      <3>2. NoRefresh.pc = "idle"
        BY DEF NoRefresh
      <3> QED
        BY <3>1, <3>2, NothingAsked DEF Over
    <2> QED
      BY <2>1, <2>2, <2>3
  <1>5. ScreenOK'
    <2>1. Asked(refresh[s]) /\ ScreenOK
      BY DEF StandWhole, Around, RefreshOK
    <2>2. CASE ShowOverview(s)
      <3>1. refresh[s].answer \in Answers("overview")
        BY <2>1, <2>2 DEF ShowOverview, Answered, Asked
      <3> QED
        BY <2>1, <2>2, <3>1 DEF ShowOverview, ScreenOK
    <2>3. CASE OverviewFails(s) \/ TraceFails(s) \/ EcomFails(s)
      BY <2>1, <2>3 DEF OverviewFails, TraceFails, EcomFails, ScreenOK
    <2>4. CASE ShowTrace(s)
      <3>1. refresh[s].answer \in Data /\ refresh[s].variant \in Variants
        BY <2>1, <2>4, AnswersOf DEF ShowTrace, Answered, Asked
      <3>2. Unknown \in Data
        BY DEF Unknown, Data
      <3> QED
        BY <2>1, <2>4, <3>1, <3>2 DEF ShowTrace, TraceShown, ScreenOK
    <2>5. CASE ShowEcom(s)
      <3>1. refresh[s].answer \in Answers("ecom")
        BY <2>1, <2>5 DEF ShowEcom, Answered, Asked
      <3> QED
        BY <2>1, <2>5, <3>1 DEF ShowEcom, ScreenOK
    <2> QED
      BY <2>2, <2>3, <2>4, <2>5
  <1> QED
    BY <1>1, <1>2, <1>3, <1>4, <1>5, RefreshedKeeps

\* A tick begins a refresh of the timer, never the one a button waits for.
LEMMA PollKeeps ==
    ASSUME StandWhole, NEW s \in Polls, Poll(s)
    PROVE  Around'
  <1>1. /\ s \in Refreshes /\ s # Own /\ Own \in Refreshes
        /\ refresh[s].pc = "idle"
        /\ refresh' = [refresh EXCEPT ![s].pc = "overview"]
        /\ UNCHANGED <<call, data, reopened, target, up, screen, selected, act, changes>>
    BY StandAssumption DEF Poll, Refreshes, apiVars, layer
  <1>2. RefreshOK'
    BY <1>1, AskedBegins DEF StandWhole, Around, RefreshOK
  <1>3. ButtonOK'
    BY <1>1 DEF StandWhole, Around, ButtonOK, RefreshOK
  <1>4. ScreenOK' /\ LayerOK' /\ CallOK'
    BY <1>1, LayerKept DEF StandWhole, Around, ScreenOK, CallOK, layer
  <1> QED
    BY <1>1, <1>2, <1>3, <1>4 DEF StandWhole, Around

\* With the layer dies the call, and the button that waited for it is free.
LEMMA ServiceKeeps ==
    ASSUME StandWhole, NEW service \in Services, Die(service) \/ Return(service)
    PROVE  Around'
  <1>1. UNCHANGED <<data, reopened, screen, selected, refresh>>
    BY DEF Die, Return, layer, browser
  <1>2. ScreenOK' /\ RefreshOK'
    BY <1>1, BrowserKept
  <1>3. up' \subseteq Services
    BY DEF Die, Return, StandWhole, Around
  <1>4. changes' \in 0 .. MaxChanges
    BY ChangeTyped DEF Die, Return, StandWhole, Around
  <1>5. CASE Die(service) /\ service = "layer"
    <2>1. /\ call' = [c \in Callers |-> NoCall] /\ target' = None
          /\ act' = IF act.pc = "calculating" THEN NoAct ELSE act
      BY <1>5 DEF Die
    <2>2. call'[Request].pc = "idle"
      BY <2>1, StandAssumption DEF NoCall, CallAt
    <2>3. CallOK'
      BY <2>2 DEF CallOK
    <2>4. ButtonOK'
      BY <1>1, <2>1 DEF StandWhole, Around, ButtonOK, NoAct, ActPCs
    <2>5. LayerOK'
      BY <1>1, <2>1 DEF StandWhole, Around, LayerOK
    <2> QED
      BY <1>2, <1>3, <1>4, <2>3, <2>4, <2>5 DEF Around
  <1>6. CASE ~(Die(service) /\ service = "layer")
    <2>1. UNCHANGED <<call, target, act>>
      BY <1>6 DEF Die, Return, PutState, apiVars, layer, browser
    <2>2. LayerOK' /\ ButtonOK'
      BY <1>1, <2>1, LayerKept, ButtonKept DEF layer
    <2>3. CallOK'
      BY <2>1 DEF StandWhole, Around, CallOK
    <2> QED
      BY <1>2, <1>3, <1>4, <2>2, <2>3 DEF Around
  <1> QED
    BY <1>5, <1>6

LEMMA StandWholeInit ==
    ASSUME StandInit
    PROVE  StandWhole
  <1>1. StandInv
    BY ApiTypeInit, NoPatchIsLegal DEF StandInit, StandInv, PatchIsLegal, NoAct
  <1>2. LayerOK
    BY StartAssumption DEF StandInit, LayerOK
  <1>3. ScreenOK
    BY DEF StandInit, ScreenOK, Unknown, Data
  <1>4. RefreshOK
    BY NothingAsked DEF StandInit, RefreshOK
  <1>5. ButtonOK
    BY StandAssumption DEF StandInit, ButtonOK, NoAct, ActPCs, NoRefresh, Refreshes
  <1>6. CallOK
    <2>1. call[Request].pc = "idle"
      BY StandAssumption DEF StandInit, ApiInit, NoCall, CallAt
    <2> QED
      BY <2>1 DEF CallOK
  <1>7. up \subseteq Services /\ changes \in 0 .. MaxChanges
    BY StartAssumption DEF StandInit
  <1> QED
    BY <1>1, <1>2, <1>3, <1>4, <1>5, <1>6, <1>7 DEF StandWhole, Around

LEMMA StandWholeStep == StandWhole /\ [StandNext]_standVars => StandWhole'
  <1> SUFFICES ASSUME StandWhole, [StandNext]_standVars
               PROVE  Around'
    BY StandStepIsApi DEF StandWhole
  <1>1. CASE UNCHANGED standVars
    <2>1. UNCHANGED <<call, data, reopened, target, up, screen, selected, act, refresh, changes>>
      BY <1>1 DEF standVars, apiVars, layer, browser
    <2>2. ScreenOK' /\ RefreshOK' /\ LayerOK' /\ ButtonOK'
      BY <2>1, BrowserKept, LayerKept, ButtonKept DEF layer
    <2> QED
      BY <2>1, <2>2 DEF StandWhole, Around, CallOK
  <1>2. ASSUME LayerStep PROVE Around'
    BY <1>2, RetryKeeps, AskEcomKeeps, StoreKeeps DEF LayerStep
  <1>3. ASSUME NEW s \in Refreshes, RefreshStep(s) PROVE Around'
    BY <1>3, ServedKeeps, ShownKeeps DEF RefreshStep
  <1>4. CASE StandNext
    BY <1>2, <1>3, <1>4, PressKeeps, CurlKeeps, ActKeeps, PollKeeps, ServiceKeeps
    DEF StandNext
  <1> QED
    BY <1>1, <1>4

(***************************************************************************)
(* The types of the whole stand, StandTypeOK: whatever is pressed, killed  *)
(* or answered late, the screen never holds an answer to another request   *)
(* than the one it was fetched by, and no variant is calculated with a     *)
(* negative number of reservations.                                        *)
(***************************************************************************)
THEOREM StandTypeCorrect == StandSpec => []StandTypeOK
  <1>1. StandWhole => StandTypeOK
    BY StandWholeTyped
  <1>2. StandInit => StandWhole
    BY StandWholeInit
  <1> QED
    BY <1>1, <1>2, StandWholeStep, PTL DEF StandSpec

=============================================================================
