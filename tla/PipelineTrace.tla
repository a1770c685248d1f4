--------------------------- MODULE PipelineTrace ----------------------------
(***************************************************************************)
(* GET /pipeline/trace: the journey of one variant, put together by        *)
(* PipelineService.readTrace from tables that stock messages, calculations *)
(* and the outbox publisher keep writing meanwhile.                        *)
(*                                                                         *)
(* The trace is read in statements of their own, in no transaction: the    *)
(* variant with its included rows first, then the lists.  The outbox is    *)
(* EcomOutbox; of the inbox only the transactions are kept that a reader   *)
(* can tell apart.                                                         *)
(***************************************************************************)
EXTENDS EcomOutbox

CONSTANTS
    Traced,      \* the pairs of the traced variant; the others share its SKU
    RecentLimit, \* RECENT_LIMIT
    MaxEvents    \* bound on inbox rows of the SKU

ASSUME TraceAssumption ==
    Traced \subseteq Pairs /\ RecentLimit \in Nat \ {0} /\ MaxEvents \in Nat \ {0}

VARIABLES
    events,  \* statuses of the SKU's inbox rows, in the order received
    applied, \* the rows whose effect the stock tables hold
    unheard, \* of these, the ones whose call lost the reply to its commit
    trace    \* the trace being read, or the last one answered

inboxVars == <<events, applied, unheard>>
traceVars == <<vars, inboxVars, trace>>

Events == DOMAIN events
Decided == {e \in Events : events[e] # "PENDING"}

Includes == {"stocks", "ecomStocks"}
Lists == {"events", "outbox"}

\* A calculation of the trace: what e-com was given and whether it is stamped.
Calculations == [publishedQuantity : Quantities \cup {None}, delivered : BOOLEAN]
\* A list of the trace: the rows it shows and the ones shown as finished.
Shown == [rows : SUBSET (1 .. MaxRows + MaxEvents), finished : SUBSET (1 .. MaxRows + MaxEvents)]

Traces == [status : {"idle", "variant", "lists", "answered"},
           unread : SUBSET (Includes \cup Lists),
           stocks : SUBSET (1 .. MaxEvents), \* the events the shop lines rest on
           calculations : [Traced -> Calculations],
           events : Shown,
           outbox : Shown]

Nothing == [rows |-> {}, finished |-> {}]
NoTrace == [status |-> "idle", unread |-> {}, stocks |-> {},
            calculations |-> [p \in Traced |-> [publishedQuantity |-> None, delivered |-> FALSE]],
            events |-> Nothing, outbox |-> Nothing]

\* A message has described the variant; without one the request is answered with
\* 404 after the first read.
TraceInit ==
    /\ Init
    /\ events = <<"PROCESSED">>
    /\ applied = {1}
    /\ unheard = {}
    /\ trace = NoTrace

-----------------------------------------------------------------------------
(* The writers *)

RecordEvent ==
    /\ Len(events) < MaxEvents
    /\ events' = Append(events, "PENDING")
    /\ UNCHANGED <<vars, applied, unheard, trace>>

\* The transaction commits: the stock of the message and its PROCESSED mark.
Commit(e) ==
    /\ events[e] = "PENDING"
    /\ events' = [events EXCEPT ![e] = "PROCESSED"]
    /\ applied' = applied \cup {e}

ApplyEvent(e) ==
    /\ Commit(e)
    /\ UNCHANGED <<vars, unheard, trace>>

\* The reply to the commit is lost: the call takes its transaction for failed.
ApplyReplyLost(e) ==
    /\ Commit(e)
    /\ unheard' = unheard \cup {e}
    /\ UNCHANGED <<vars, trace>>

\* markFailed, of a message malformed or rolled back, or of one that is applied
\* and was not heard of; where it fails too, the row stays as it is.
ParkEvent(e) ==
    /\ events[e] = "PENDING" \/ e \in unheard
    /\ events' = [events EXCEPT ![e] = "FAILED"]
    /\ unheard' = unheard \ {e}
    /\ UNCHANGED <<vars, applied, trace>>

InboxStep ==
    \/ RecordEvent
    \/ \E e \in Events : ApplyEvent(e) \/ ApplyReplyLost(e) \/ ParkEvent(e)

\* The outbox at work.
OutboxStep == Next /\ UNCHANGED <<inboxVars, trace>>

-----------------------------------------------------------------------------
(* readTrace *)

\* Defect: the lists read along with the variant instead of after it.
FindVariantWithLists ==
    /\ trace.status = "idle"
    /\ trace' = [trace EXCEPT !.status = "lists", !.unread = Includes \cup Lists]
    /\ UNCHANGED <<vars, inboxVars>>

\* The variant first, with the rows it includes.
FindVariant ==
    /\ trace.status = "idle"
    /\ trace' = [trace EXCEPT !.status = "variant", !.unread = Includes]
    /\ UNCHANGED <<vars, inboxVars>>

\* With the last statement of a group the next group is issued, or the answer sent.
HasRead(t, what) ==
    LET left == t.unread \ {what} IN
    IF left # {} THEN [t EXCEPT !.unread = left]
    ELSE IF t.status = "variant" THEN [t EXCEPT !.status = "lists", !.unread = Lists]
    ELSE [t EXCEPT !.status = "answered", !.unread = {}]

\* The newest rows of a table in creation order, at most RecentLimit of them.
Recent(rows) == {i \in rows : Cardinality({j \in rows : j > i}) < RecentLimit}

ReadStocks ==
    /\ "stocks" \in trace.unread
    /\ trace' = HasRead([trace EXCEPT !.stocks = applied], "stocks")
    /\ UNCHANGED <<vars, inboxVars>>

ReadEcomStocks ==
    /\ "ecomStocks" \in trace.unread
    /\ trace' = HasRead([trace EXCEPT !.calculations =
           [p \in Traced |-> [publishedQuantity |-> published[p], delivered |-> stamped[p]]]],
           "ecomStocks")
    /\ UNCHANGED <<vars, inboxVars>>

ReadEvents ==
    /\ "events" \in trace.unread
    /\ trace' = HasRead([trace EXCEPT !.events =
           [rows |-> Recent(Events), finished |-> Recent(Events) \cap Decided]], "events")
    /\ UNCHANGED <<vars, inboxVars>>

\* The rows of the SKU, whichever of its variants and regions they are for.
ReadOutbox ==
    /\ "outbox" \in trace.unread
    /\ trace' = HasRead([trace EXCEPT !.outbox =
           [rows |-> Recent(Committed), finished |-> Recent(Committed) \ Pending]], "outbox")
    /\ UNCHANGED <<vars, inboxVars>>

Reply ==
    /\ trace.status = "answered"
    /\ trace' = NoTrace
    /\ UNCHANGED <<vars, inboxVars>>

Write == OutboxStep \/ InboxStep

Read ==
    \/ FindVariant
    \/ ReadStocks
    \/ ReadEcomStocks
    \/ ReadEvents
    \/ ReadOutbox

\* An answer is given in the moment of the last read.
TraceNext ==
    \/ trace.status # "answered" /\ (Write \/ Read)
    \/ Reply

\* Nothing is assumed of messages or readers.
TraceSpec == TraceInit /\ [][TraceNext]_traceVars /\ Fairness /\ WF_traceVars(Reply)

TraceTypeOK ==
    /\ TypeOK
    /\ events \in Seq({"PENDING", "PROCESSED", "FAILED"})
    /\ unheard \subseteq applied /\ applied \subseteq Events
    /\ trace \in Traces

-----------------------------------------------------------------------------
Full(list) == Cardinality(list.rows) = RecentLimit

\* The conveyor's stage of the queue: something waits, all was sent, or no rows.
QueueTone(list) ==
    IF list.rows \ list.finished # {} THEN "warn"
    ELSE IF list.finished # {} THEN "flow" ELSE "muted"

(***************************************************************************)
(* A trace explains its own numbers although it is read while they change, *)
(* unless newer rows fill the list.  The number e-com is said to hold has  *)
(* its row in the list of the same trace; a delivery time, a row that was  *)
(* sent; and where the queue is shown to be through, that number has been  *)
(* handed to the topic.                                                    *)
(***************************************************************************)
CalculationHasItsRow ==
    trace.status = "answered" /\ ~Full(trace.outbox) => \A p \in Traced :
        LET calculation == trace.calculations[p]
            shown == trace.outbox.rows \cap RowsOf(p)
        IN
        /\ calculation.publishedQuantity # None => \E i \in shown :
              /\ outbox[i].quantity = calculation.publishedQuantity
              /\ QueueTone(trace.outbox) = "flow" => topic[p] >= i
        /\ calculation.delivered => trace.outbox.finished \cap shown # {}

(***************************************************************************)
(* Shop lines have their message: every event whose effect the trace shows *)
(* is in the list of the same trace and is not shown there as waiting,     *)
(* unless newer ones fill the list.  It reads PROCESSED, or FAILED where   *)
(* the call that applied it never heard of its commit and parked it.       *)
(***************************************************************************)
StockHasItsEvent ==
    trace.status = "answered" =>
        \/ Full(trace.events)
        \/ trace.stocks \subseteq trace.events.finished
=============================================================================
