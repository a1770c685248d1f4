------------------------------- MODULE Stand --------------------------------
(***************************************************************************)
(* The visualizer (App.tsx) over a running layer and the stand-in e-com.   *)
(* It holds no data of its own: a timer and every button refresh the       *)
(* screen by a chain of requests, nothing keeps two refreshes from         *)
(* overlapping, and either service may die in the middle of one.           *)
(*                                                                         *)
(* The layer is reduced to what the screen shows of it: per variant the    *)
(* state of its calculation, which asks e-com through EcomApi.             *)
(***************************************************************************)
EXTENDS EcomApi

CONSTANTS
    Variants,
    Demo,       \* DEMO_PRODUCT's first variant, selected at the start
    StartStates, StartData, \* what e-com and the layer hold when the page opens
    Request,    \* the caller of a calculation a button asked for
    Polls, Own, \* refreshes of the timer, and of the button being pressed
    MaxChanges  \* bound on buttons pressed, results of the sweep and faults

ASSUME StandAssumption ==
    /\ Demo \in Variants
    /\ Callers = {Request}
    /\ Own \notin Polls
    /\ StartStates \subseteq [mode : Modes, reserved : Numbers]

VARIABLES
    data,     \* the layer's knowledge of each variant
    reopened, \* variants whose result is confirmed and whose task is open again
    target,   \* what the run a button asked for calculates
    up,       \* the services that answer
    screen,   \* what App shows: trace, health, ecom, offline
    selected,
    act,      \* the button whose action is in progress
    refresh,  \* each refresh: the request it waits for and the answer under way
    changes

layer == <<data, reopened, target>>
browser == <<screen, selected, act, refresh>>
standVars == <<apiVars, layer, up, browser, changes>>

Refreshes == Polls \cup {Own}
Services == {"layer", "ecom"}

\* A variant: nothing heard of it, its card, stock not yet calculated, or the
\* calculation with what is known of its reservations and its task.
Calculated == {"confirmed", "stale", "abandoned"}
Data == [status : {"unknown", "card", "stocked"} \cup Calculated, reserved : Nat]
Unknown == [status |-> "unknown", reserved |-> 0]

ASSUME StartAssumption ==
    /\ StartData \subseteq [Variants -> Data]
    /\ MaxChanges \in Nat

Healths == [status : {"ok", "degraded"}, stale : 0 .. 2]
NoPatch == [mode |-> None, reserved |-> None]
NoAct == [pc |-> "idle", kind |-> "product", patch |-> NoPatch]
NoRefresh == [pc |-> "idle", variant |-> Demo, answer |-> None]

\* Once its request is handled it does not matter which button it was.
Act(pc) == act' = [NoAct EXCEPT !.pc = pc]

StandInit ==
    /\ ApiInit
    /\ state \in StartStates
    /\ data \in StartData
    /\ reopened \in SUBSET {v \in Variants : data[v].status = "confirmed"}
    /\ target = None
    /\ up = Services
    /\ screen = [variant |-> None, trace |-> Unknown, health |-> None,
                 ecom |-> None, offline |-> FALSE]
    /\ selected = Demo
    /\ act = NoAct
    /\ refresh = [s \in Refreshes |-> NoRefresh]
    /\ changes = 0

Change == changes < MaxChanges /\ changes' = changes + 1

-----------------------------------------------------------------------------
(* The layer *)

\* A run takes the last known reservations and asks e-com.
Begin(v) ==
    /\ target' = [variant |-> v, reserved |-> data[v].reserved]
    /\ Call(Request)

\* The task of a variant is open: nothing came of it yet, its result is not
\* confirmed, or stock or a request came after the confirmed one and the layer
\* died before its run ended.
Pending(v) == data[v].status \in {"stocked", "stale"} \/ v \in reopened

\* Defect: the sweep stores whatever e-com sends.
RetryUnchecked(v) ==
    /\ "layer" \in up
    /\ Pending(v)
    /\ "ecom" \in up /\ state.mode = "ok"
    /\ data' = [data EXCEPT ![v] = [status |-> "confirmed", reserved |-> state.reserved]]
    /\ reopened' = reopened \ {v}
    /\ Change
    /\ UNCHANGED <<apiVars, target, up, browser>>

(***************************************************************************)
(* The sweep runs a calculation that is owed.  It asks as any run does,    *)
(* so the number it stores is one e-com holds; what its runs do to each    *)
(* other is StockRecalculation's.                                          *)
(***************************************************************************)
Retry(v) ==
    /\ "layer" \in up
    /\ Pending(v)
    /\ \/ /\ "ecom" \in up /\ state.mode = "ok" /\ state.reserved >= 0
          /\ data' = [data EXCEPT ![v] = [status |-> "confirmed", reserved |-> state.reserved]]
       \/ \E status \in {"stale", "abandoned"} : data' = [data EXCEPT ![v].status = status]
    /\ reopened' = reopened \ {v}
    /\ Change
    /\ UNCHANGED <<apiVars, target, up, browser>>

(***************************************************************************)
(* The result is stored: confirmed, or on the last known reservations, the *)
(* task then pending or, its attempts used up, abandoned.                  *)
(***************************************************************************)
Store ==
    /\ \/ /\ call[Request].pc = "answered"
          /\ data' = [data EXCEPT ![target.variant] =
                [status |-> "confirmed", reserved |-> Reading(call[Request].answer)]]
       \/ /\ call[Request].pc = "unavailable"
          /\ \E status \in {"stale", "abandoned"} :
                data' = [data EXCEPT ![target.variant] =
                    [status |-> status, reserved |-> target.reserved]]
    /\ reopened' = reopened \ {target.variant}
    /\ target' = None
    /\ Act("done")
    /\ End(Request)
    /\ UNCHANGED <<up, screen, selected, refresh, changes>>

AskEcom ==
    /\ ApiStep(Request)
    /\ call'[Request].pc = "wait" => "ecom" \in up
    /\ UNCHANGED <<layer, up, browser, changes>>

Stale == {v \in Variants : data[v].status \in {"stale", "abandoned"}}
Abandoned == {v \in Variants : data[v].status = "abandoned"}

\* HealthService.check while the database answers.
Health == [status |-> IF Abandoned # {} THEN "degraded" ELSE "ok",
           stale |-> IF Stale = {} THEN 0 ELSE IF \E v \in Variants : Stale = {v} THEN 1 ELSE 2]

\* A count that cannot be taken is answered as zero.
CountsFailed == [status |-> "ok", stale |-> 0]

-----------------------------------------------------------------------------
(* Buttons *)

\* busy disables every button until the action and its refresh are through.
Press(kind, patch) ==
    /\ act.pc = "idle"
    /\ Change
    /\ act' = [pc |-> "request", kind |-> kind, patch |-> patch]
    /\ UNCHANGED <<apiVars, layer, up, screen, refresh>>

\* Sending an event turns the screen to its variant at once.
Send(kind, v) ==
    /\ Press(kind, NoPatch)
    /\ selected' = v

Recalculate == Press("recalculate", NoPatch) /\ UNCHANGED selected

Reachable == screen.ecom # None /\ screen.ecom.mode = "ok"

\* One button turns e-com on, one off; each is enabled by what the screen shows.
SwitchEcom ==
    /\ Press("ecom", [NoPatch EXCEPT !.mode = IF Reachable THEN "down" ELSE "ok"])
    /\ UNCHANGED selected

SaveReserved(n) ==
    /\ n >= 0
    /\ Press("ecom", [NoPatch EXCEPT !.reserved = n])
    /\ UNCHANGED selected

HandlePatch ==
    /\ act.pc = "request" /\ act.kind = "ecom"
    /\ "ecom" \in up
    /\ PutState(act.patch)
    /\ Act("done")
    /\ UNCHANGED <<layer, up, screen, selected, refresh, changes>>

\* A product message describes every variant of the SKU.
HandleProduct ==
    /\ act.pc = "request" /\ act.kind = "product"
    /\ "layer" \in up
    /\ data' = [v \in Variants |-> IF data[v] = Unknown THEN [Unknown EXCEPT !.status = "card"]
                                                       ELSE data[v]]
    /\ Act("done")
    /\ UNCHANGED <<apiVars, reopened, target, up, screen, selected, refresh, changes>>

\* The task is opened, whatever became of the last calculation.
Owed(d) ==
    [d EXCEPT !.status = CASE d.status \in {"unknown", "card"} -> "stocked"
                           [] d.status = "abandoned" -> "stale"
                           [] OTHER -> d.status]

Owe(v) ==
    /\ data' = [data EXCEPT ![v] = Owed(@)]
    /\ reopened' = reopened \cup {u \in {v} : data[u].status = "confirmed"}

HandleStock ==
    /\ act.pc = "request" /\ act.kind = "stock"
    /\ "layer" \in up
    /\ Owe(selected)
    /\ Begin(selected)
    /\ Act("calculating")
    /\ UNCHANGED <<up, screen, selected, refresh, changes>>

HandleRecalculate ==
    /\ act.pc = "request" /\ act.kind = "recalculate"
    /\ "layer" \in up
    /\ data[selected].status \notin {"unknown", "card"}
    /\ Owe(selected)
    /\ Begin(selected)
    /\ Act("calculating")
    /\ UNCHANGED <<up, screen, selected, refresh, changes>>

\* Without stock there is no region to calculate.
RecalculateNothing ==
    /\ act.pc = "request" /\ act.kind = "recalculate"
    /\ "layer" \in up
    /\ data[selected].status = "card"
    /\ Act("done")
    /\ UNCHANGED <<apiVars, layer, up, screen, selected, refresh, changes>>

\* The catch and finally blocks of act: a notice, and the buttons are free.
ActFails ==
    /\ act.pc = "request"
    /\ \/ act.kind = "ecom" /\ "ecom" \notin up
       \/ act.kind # "ecom" /\ "layer" \notin up
       \/ act.kind = "recalculate" /\ data[selected] = Unknown
    /\ act' = NoAct
    /\ UNCHANGED <<apiVars, layer, up, screen, selected, refresh, changes>>

-----------------------------------------------------------------------------
(* refresh *)

Waiting(s, pc) == refresh[s].pc = pc /\ refresh[s].answer = None
Answered(s, pc) == refresh[s].pc = pc /\ refresh[s].answer # None

\* A tick of the timer, which looks at no refresh in progress.
Poll(s) ==
    /\ refresh[s].pc = "idle"
    /\ refresh' = [refresh EXCEPT ![s].pc = "overview"]
    /\ UNCHANGED <<apiVars, layer, up, screen, selected, act, changes>>

RefreshAfterAct ==
    /\ act.pc = "done"
    /\ Act("refresh")
    /\ refresh' = [refresh EXCEPT ![Own].pc = "overview"]
    /\ UNCHANGED <<apiVars, layer, up, screen, selected, changes>>

\* The refresh is over; with it the button's action, if it was its own.
Over(s) ==
    /\ refresh' = [refresh EXCEPT ![s] = NoRefresh]
    /\ act' = IF s = Own THEN NoAct ELSE act

AwaitEcom(s) ==
    /\ refresh' = [refresh EXCEPT ![s] = [NoRefresh EXCEPT !.pc = "ecom"]]
    /\ UNCHANGED act

Serve(s, answer) ==
    /\ refresh' = [refresh EXCEPT ![s].answer = answer]
    /\ UNCHANGED <<apiVars, layer, up, screen, selected, act>>

(***************************************************************************)
(* health, stand and activity are awaited together; of the three answers   *)
(* the health is kept.                                                     *)
(***************************************************************************)
ServeOverview(s) ==
    /\ Waiting(s, "overview")
    /\ "layer" \in up
    /\ \/ Serve(s, Health) /\ UNCHANGED changes
       \/ Serve(s, CountsFailed) /\ Change

ShowOverview(s) ==
    /\ Answered(s, "overview")
    /\ screen' = [screen EXCEPT !.health = refresh[s].answer, !.offline = FALSE]
    /\ refresh' = [refresh EXCEPT ![s] =
                      [pc |-> "trace", variant |-> selected, answer |-> None]]
    /\ UNCHANGED <<act, apiVars, layer, up, selected, changes>>

OverviewFails(s) ==
    /\ Waiting(s, "overview")
    /\ "layer" \notin up
    /\ screen' = [screen EXCEPT !.offline = TRUE]
    /\ Over(s)
    /\ UNCHANGED <<apiVars, layer, up, selected, changes>>

ServeTrace(s) ==
    /\ Waiting(s, "trace")
    /\ "layer" \in up
    /\ Serve(s, data[refresh[s].variant])
    /\ UNCHANGED changes

\* Defect: a 404 treated like any other error.
TraceShownKept(s) ==
    IF refresh[s].answer = Unknown THEN screen
    ELSE [screen EXCEPT !.variant = refresh[s].variant, !.trace = refresh[s].answer]

\* A variant nobody has sent yet is answered with 404 and shows as no trace.
TraceShown(s) ==
    IF refresh[s].answer = Unknown
    THEN [screen EXCEPT !.variant = None, !.trace = Unknown]
    ELSE [screen EXCEPT !.variant = refresh[s].variant, !.trace = refresh[s].answer]

ShowTrace(s) ==
    /\ Answered(s, "trace")
    /\ screen' = TraceShown(s)
    /\ AwaitEcom(s)
    /\ UNCHANGED <<apiVars, layer, up, selected, changes>>

\* Any other error leaves the trace on the screen as it is.
TraceFails(s) ==
    /\ Waiting(s, "trace")
    /\ "layer" \notin up
    /\ AwaitEcom(s)
    /\ UNCHANGED <<apiVars, layer, up, screen, selected, changes>>

ServeEcom(s) ==
    /\ Waiting(s, "ecom")
    /\ "ecom" \in up
    /\ Serve(s, state)
    /\ UNCHANGED changes

ShowEcom(s) ==
    /\ Answered(s, "ecom")
    /\ screen' = [screen EXCEPT !.ecom = refresh[s].answer]
    /\ Over(s)
    /\ UNCHANGED <<apiVars, layer, up, selected, changes>>

EcomFails(s) ==
    /\ Waiting(s, "ecom")
    /\ "ecom" \notin up
    /\ screen' = [screen EXCEPT !.ecom = None]
    /\ Over(s)
    /\ UNCHANGED <<apiVars, layer, up, selected, changes>>

-----------------------------------------------------------------------------
(***************************************************************************)
(* A service dies.  Calculations die with the layer; the sweep takes them  *)
(* up again.  The stand-in forgets what it was told.                       *)
(***************************************************************************)
Die(service) ==
    /\ Change
    /\ up' = up \ {service}
    /\ IF service = "layer"
       THEN /\ call' = [c \in Callers |-> NoCall]
            /\ held' = [c \in Callers |-> {}]
            /\ target' = None
            /\ act' = IF act.pc = "calculating" THEN NoAct ELSE act
            /\ UNCHANGED state
       ELSE /\ PutState([mode |-> "ok", reserved |-> 0])
            /\ UNCHANGED <<target, act>>
    /\ UNCHANGED <<data, reopened, screen, selected, refresh>>

Return(service) ==
    /\ service \notin up
    /\ up' = up \cup {service}
    /\ UNCHANGED <<apiVars, layer, browser, changes>>

\* Someone at a terminal, or in another tab, changes e-com.
Curl(patch) ==
    /\ None \in {patch.mode, patch.reserved}
    /\ Change
    /\ "ecom" \in up
    /\ PutState(patch)
    /\ UNCHANGED <<layer, up, browser>>

LayerStep ==
    \/ \E v \in Variants : Retry(v)
    \/ AskEcom
    \/ Store

ActStep ==
    \/ HandlePatch
    \/ HandleProduct
    \/ HandleStock
    \/ HandleRecalculate
    \/ RecalculateNothing
    \/ ActFails
    \/ RefreshAfterAct

RefreshStep(s) ==
    \/ ServeOverview(s)
    \/ ShowOverview(s)
    \/ OverviewFails(s)
    \/ ServeTrace(s)
    \/ ShowTrace(s)
    \/ TraceFails(s)
    \/ ServeEcom(s)
    \/ ShowEcom(s)
    \/ EcomFails(s)

StandNext ==
    \/ \E kind \in {"product", "stock"}, v \in Variants : Send(kind, v)
    \/ Recalculate
    \/ SwitchEcom
    \/ \E n \in Numbers : SaveReserved(n)
    \/ \E patch \in Patches : Curl(patch)
    \/ ActStep
    \/ LayerStep
    \/ \E s \in Polls : Poll(s)
    \/ \E s \in Refreshes : RefreshStep(s)
    \/ \E service \in Services : Die(service) \/ Return(service)

(***************************************************************************)
(* The timer keeps ticking and requests get their answer or an error, the  *)
(* ones of a calculation and of a button included.                         *)
(***************************************************************************)
StandFairness ==
    /\ WF_standVars(ActStep)
    /\ WF_standVars(AskEcom \/ Store)
    /\ \A s \in Polls : WF_standVars(Poll(s))
    /\ \A s \in Refreshes : WF_standVars(RefreshStep(s))

StandSpec == StandInit /\ [][StandNext]_standVars
FairStandSpec == StandSpec /\ StandFairness

-----------------------------------------------------------------------------
(* Safety *)

Answers(pc) ==
    CASE pc = "overview" -> Healths
      [] pc = "trace" -> Data
      [] pc = "ecom" -> [mode : Modes, reserved : Numbers]
      [] OTHER -> {}

\* The types; above all no calculation rests on a negative number of reservations.
StandTypeOK ==
    /\ ApiTypeOK
    /\ data \in [Variants -> Data]
    /\ reopened \subseteq Variants
    /\ target # None => target \in [variant : Variants, reserved : Nat]
    /\ up \subseteq Services
    /\ screen.variant \in Variants \cup {None} /\ screen.trace \in Data
    /\ screen.health # None => screen.health \in Answers("overview")
    /\ screen.ecom # None => screen.ecom \in Answers("ecom")
    /\ screen.offline \in BOOLEAN
    /\ selected \in Variants
    /\ act.pc \in {"idle", "request", "calculating", "done", "refresh"}
    /\ \A s \in Refreshes : refresh[s].answer # None =>
          refresh[s].answer \in Answers(refresh[s].pc)
    /\ changes \in 0 .. MaxChanges

-----------------------------------------------------------------------------
(* What the manager sees *)

ServiceDot ==
    IF screen.offline THEN "stop"
    ELSE IF screen.health # None /\ screen.health.status = "ok" THEN "flow"
    ELSE "warn"

EcomDot == IF Reachable THEN "flow" ELSE "stop"

\* The calculation of the conveyor and the tape.
CalculationTone(d) ==
    IF d.status \notin Calculated THEN "muted"
    ELSE IF d.status = "confirmed" THEN "flow"
    ELSE "warn"

\* The tape: nothing is known, nothing calculated, or the reservations and a
\* note when they are only the last known ones.
Tape(variant, d) ==
    [known |-> variant # None,
     reserved |-> IF d.status \in Calculated THEN d.reserved ELSE None,
     noted |-> d.status \in Calculated \ {"confirmed"}]

ScreenIsTrue ==
    /\ act.pc = "idle"
    /\ ServiceDot = IF Abandoned = {} THEN "flow" ELSE "warn"
    /\ screen.health = Health
    /\ EcomDot = IF state.mode = "ok" THEN "flow" ELSE "stop"
    /\ screen.ecom # None /\ screen.ecom.reserved = state.reserved
    /\ screen.variant = IF data[selected] = Unknown THEN None ELSE selected
    /\ CalculationTone(screen.trace) = CalculationTone(data[selected])
    /\ Tape(screen.variant, screen.trace) =
          Tape(IF data[selected] = Unknown THEN None ELSE selected, data[selected])

(***************************************************************************)
(* Whatever order overlapping refreshes end in and whatever failed         *)
(* meanwhile, once the services stay up and nobody presses a button the    *)
(* screen comes to show what the services know, and the buttons are free.  *)
(***************************************************************************)
EventuallyTrue == <>[](up = Services) => <>[]ScreenIsTrue
=============================================================================
