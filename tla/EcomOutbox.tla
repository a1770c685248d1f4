----------------------------- MODULE EcomOutbox -----------------------------
(***************************************************************************)
(* The transactional outbox: rows queued by the transaction that stores a  *)
(* calculation, and EcomOutboxPublisherService, which sends them to the    *)
(* stock topic and then marks them SENT and their pairs published.         *)
(*                                                                         *)
(* A row's place is the time it was inserted at, and transactions commit   *)
(* in another order.  A drain is a chain of statements with the Kafka send *)
(* in the middle; the process may die between any two, a statement may     *)
(* fail, and a send may reach the broker and still report an error.        *)
(***************************************************************************)
EXTENDS Integers, Sequences, FiniteSets

CONSTANTS
    Pairs,      \* variant/region pairs
    Quantities, \* numbers a calculation may publish
    MaxCalls,   \* bound on concurrent calls of publishPending: timer ticks, publishSoon
    None,
    BatchSize,  \* ECOM_OUTBOX.BATCH_SIZE
    MaxRows,    \* bound on outbox rows
    MaxFaults   \* bound on crashes and failed statements

ASSUME BoundsAssumption ==
    BatchSize \in Nat \ {0} /\ MaxCalls \in Nat /\ MaxRows \in Nat /\ MaxFaults \in Nat
ASSUME NoneAssumption == None \notin Quantities

VARIABLES
    outbox,    \* the rows in the order of createdAt; a row's id is its place
    published, \* EcomStock.publishedQuantity
    stamped,   \* EcomStock.publishedAt is not NULL
    draining,  \* the flag of the publisher
    drain,     \* where each call is, and the ids it took
    topic,     \* per pair, the row whose message is the last in its partition
    faults

database == <<outbox, published, stamped>>
vars == <<database, draining, drain, topic, faults>>

Calls == 1 .. MaxCalls
NoDrain == [pc |-> "idle", ids |-> {}]
Ids == DOMAIN outbox
RowsOf(p) == {i \in Ids : outbox[i].pair = p}
WithStatus(status) == {i \in Ids : outbox[i].status = status}
Pending == WithStatus("PENDING")
Committed == Pending \cup WithStatus("SENT")
Statuses == {"UNCOMMITTED", "ROLLED BACK", "PENDING", "SENT"}
Greatest(ids) == CHOOSE i \in ids : \A j \in ids : j <= i

TypeOK ==
    /\ outbox \in Seq([pair : Pairs, quantity : Quantities, status : Statuses])
    /\ Len(outbox) <= MaxRows
    /\ published \in [Pairs -> Quantities \cup {None}]
    /\ stamped \in [Pairs -> BOOLEAN]
    /\ draining \in BOOLEAN
    /\ drain \in [Calls -> [pc : {"idle", "find", "publish", "markSent", "stamp"},
                            ids : SUBSET (1 .. MaxRows)]]
    /\ \A c \in Calls : Cardinality(drain[c].ids) <= BatchSize
    /\ topic \in [Pairs -> 0 .. MaxRows]
    /\ faults \in 0 .. MaxFaults

Init ==
    /\ outbox = <<>>
    /\ published = [p \in Pairs |-> None]
    /\ stamped = [p \in Pairs |-> FALSE]
    /\ draining = FALSE
    /\ drain = [c \in Calls |-> NoDrain]
    /\ topic = [p \in Pairs |-> 0]
    /\ faults = 0

Fault == faults < MaxFaults /\ faults' = faults + 1

-----------------------------------------------------------------------------
(* The calculation's transaction *)

Mark(ids, status) ==
    outbox' = [i \in Ids |-> IF i \in ids THEN [outbox[i] EXCEPT !.status = status]
                                         ELSE outbox[i]]

\* Defect: the row queued first and the number stored after it.
EnqueuePublicationFirst(p, quantity) ==
    /\ Len(outbox) < MaxRows
    /\ outbox' = Append(outbox, [pair |-> p, quantity |-> quantity, status |-> "UNCOMMITTED"])
    /\ UNCHANGED <<published, stamped, draining, drain, topic, faults>>

(***************************************************************************)
(* The number is stored and a row queued to deliver it.  The first of the  *)
(* two locks the pair's EcomStock row, so another transaction of the pair  *)
(* waits and its row is the younger one.                                   *)
(***************************************************************************)
EnqueuePublication(p, quantity) ==
    /\ Len(outbox) < MaxRows
    /\ RowsOf(p) \cap WithStatus("UNCOMMITTED") = {}
    /\ outbox' = Append(outbox, [pair |-> p, quantity |-> quantity, status |-> "UNCOMMITTED"])
    /\ UNCHANGED <<published, stamped, draining, drain, topic, faults>>

\* The number stored becomes visible with its row, not yet delivered.
CommitCalculation(i) ==
    /\ outbox[i].status = "UNCOMMITTED"
    /\ Mark({i}, "PENDING")
    /\ published' = [published EXCEPT ![outbox[i].pair] = outbox[i].quantity]
    /\ stamped' = [stamped EXCEPT ![outbox[i].pair] = FALSE]
    /\ UNCHANGED <<draining, drain, topic, faults>>

\* A later statement of the transaction, or its commit, fails.
RollBack(i) ==
    /\ outbox[i].status = "UNCOMMITTED"
    /\ Fault
    /\ Mark({i}, "ROLLED BACK")
    /\ UNCHANGED <<published, stamped, draining, drain, topic>>

-----------------------------------------------------------------------------
(* publishPending *)

\* Calls are told apart by the first free number.
Free(c) == drain[c].pc = "idle" /\ \A d \in 1 .. c - 1 : drain[d].pc # "idle"

\* Defect: a call that does not look whether another one is draining.
PublishPendingUnguarded(c) ==
    /\ Free(c)
    /\ draining' = TRUE
    /\ drain' = [drain EXCEPT ![c].pc = "find"]
    /\ UNCHANGED <<database, topic, faults>>

\* A tick or a publishSoon; a call that finds a drain in progress returns.
PublishPending(c) ==
    /\ Free(c)
    /\ ~draining
    /\ draining' = TRUE
    /\ drain' = [drain EXCEPT ![c].pc = "find"]
    /\ UNCHANGED <<database, topic, faults>>

\* Defect: a call that ends on an error and leaves the flag set.
LeaveLocked(c) ==
    /\ drain' = [drain EXCEPT ![c] = NoDrain]
    /\ draining' = (drain[c].pc = "publish")

\* The finally block: the call returns and the next one may drain.
Leave(c) ==
    /\ drain' = [drain EXCEPT ![c] = NoDrain]
    /\ draining' = FALSE

\* Defect: the whole backlog taken at once.
BatchWhole(ids) == ids = Pending

\* Defect: a batch taken in no order.
BatchUnordered(ids) ==
    /\ ids \subseteq Pending
    /\ Cardinality(ids) <= BatchSize
    /\ ids # Pending => Cardinality(ids) = BatchSize

\* The oldest PENDING rows, at most a batch of them.
Batch(ids) ==
    /\ ids \subseteq Pending
    /\ Cardinality(ids) <= BatchSize
    /\ ids # Pending => Cardinality(ids) = BatchSize
    /\ \A i \in ids, j \in Pending \ ids : i < j

FindPending(c) ==
    /\ drain[c].pc = "find"
    /\ Pending # {}
    /\ \E ids \in SUBSET Pending :
          /\ Batch(ids)
          /\ drain' = [drain EXCEPT ![c] = [pc |-> "publish", ids |-> ids]]
    /\ UNCHANGED <<database, draining, topic, faults>>

NothingPending(c) ==
    /\ drain[c].pc = "find"
    /\ Pending = {}
    /\ Leave(c)
    /\ UNCHANGED <<database, topic, faults>>

\* The rows' messages are in the topic, in order, for the pairs it reached.
Delivered(ids, pairs) ==
    topic' = [p \in Pairs |-> IF p \in pairs /\ ids \cap RowsOf(p) # {}
                              THEN Greatest(ids \cap RowsOf(p)) ELSE topic[p]]

Publish(c) ==
    /\ drain[c].pc = "publish"
    /\ Delivered(drain[c].ids, Pairs)
    /\ drain' = [drain EXCEPT ![c].pc = "markSent"]
    /\ UNCHANGED <<database, draining, faults>>

(***************************************************************************)
(* The send reports an error although some partitions, or all of them, may *)
(* have taken their messages.  The rows stay PENDING; recordFailure counts *)
(* an attempt nobody reads.                                                *)
(***************************************************************************)
PublishFails(c) ==
    /\ drain[c].pc = "publish"
    /\ Fault
    /\ \E pairs \in SUBSET Pairs : Delivered(drain[c].ids, pairs)
    /\ Leave(c)
    /\ UNCHANGED database

MarkSent(c) ==
    /\ drain[c].pc = "markSent"
    /\ Mark(drain[c].ids, "SENT")
    /\ drain' = [drain EXCEPT ![c].pc = "stamp"]
    /\ UNCHANGED <<published, stamped, draining, topic, faults>>

\* Defect: the variant's other regions stamped along.
MarkPublishedAll(c) ==
    /\ drain[c].pc = "stamp"
    /\ stamped' = [p \in Pairs |-> TRUE]
    /\ Leave(c)
    /\ UNCHANGED <<outbox, published, topic, faults>>

(***************************************************************************)
(* The delivery time is set on the pairs of the batch, whatever number     *)
(* they were given since it was read.                                      *)
(***************************************************************************)
MarkPublished(c) ==
    /\ drain[c].pc = "stamp"
    /\ stamped' = [p \in Pairs |-> stamped[p] \/ drain[c].ids \cap RowsOf(p) # {}]
    /\ Leave(c)
    /\ UNCHANGED <<outbox, published, topic, faults>>

\* A statement of the drain fails: publishPending logs it and returns.
StatementFails(c) ==
    /\ drain[c].pc \in {"find", "markSent", "stamp"}
    /\ Fault
    /\ Leave(c)
    /\ UNCHANGED <<database, topic>>

\* The process dies, the transactions of its calculations with it.
Crash ==
    /\ Fault
    /\ drain' = [c \in Calls |-> NoDrain]
    /\ draining' = FALSE
    /\ Mark(WithStatus("UNCOMMITTED"), "ROLLED BACK")
    /\ UNCHANGED <<published, stamped, topic>>

-----------------------------------------------------------------------------
Step(c) ==
    \/ FindPending(c)
    \/ NothingPending(c)
    \/ Publish(c)
    \/ MarkSent(c)
    \/ MarkPublished(c)

Next ==
    \/ \E p \in Pairs, q \in Quantities : EnqueuePublication(p, q)
    \/ \E i \in Ids : CommitCalculation(i) \/ RollBack(i)
    \/ \E c \in Calls : PublishPending(c)
    \/ \E c \in Calls : Step(c)
    \/ \E c \in Calls : PublishFails(c)
    \/ \E c \in Calls : StatementFails(c)
    \/ Crash

\* Transactions end, the timer keeps calling publishPending and a drain goes on.
Fairness ==
    /\ WF_vars(\E i \in Ids : CommitCalculation(i))
    /\ WF_vars(\E c \in Calls : PublishPending(c))
    /\ \A c \in Calls : WF_vars(Step(c))

Spec == Init /\ [][Next]_vars

-----------------------------------------------------------------------------
(* Safety *)

Outstanding(p) == RowsOf(p) \cap Pending

(***************************************************************************)
(* Once nothing of a pair is waiting, the last message e-com finds for it  *)
(* is the number the layer believes it holds.                              *)
(***************************************************************************)
TopicEndsAtPublished ==
    \A p \in Pairs : published[p] # None /\ Outstanding(p) = {} =>
        /\ topic[p] \in RowsOf(p)
        /\ outbox[topic[p]].quantity = published[p]

(***************************************************************************)
(* The order of a pair's numbers survives calculations that overlap in the *)
(* database, failed and repeated sends, crashes and calls of the timer and *)
(* of publishSoon at any moment: once a row is SENT, no older one of its   *)
(* pair ends up behind it.  Until then one may: a failed send may have     *)
(* reached the topic, and a row of another pair that commits late may take *)
(* the younger row's place in the next batch.                              *)
(***************************************************************************)
OrderPreserved ==
    \A p \in Pairs : \A i \in RowsOf(p) \cap WithStatus("SENT") : i <= topic[p]

-----------------------------------------------------------------------------
(* Refinement *)

CommittedOf(p) == RowsOf(p) \cap Committed
SentOf(p) == RowsOf(p) \cap WithStatus("SENT")

Order ==
    INSTANCE Publication
    WITH Places <- 1 .. MaxRows,
         given <- [p \in Pairs |-> [i \in CommittedOf(p) |-> outbox[i].quantity]],
         stored <- published,
         received <- topic,
         acknowledged <- [p \in Pairs |-> IF SentOf(p) = {} THEN 0 ELSE Greatest(SentOf(p))]

(***************************************************************************)
(* The outbox is an ordered publication: a pair's rows commit in the order *)
(* of their places although createdAt is taken before the commit, the      *)
(* topic carries committed numbers only, and a row that is SENT stays so   *)
(* and is never followed by an older one, whatever drains, failed sends    *)
(* and crashes there are in between.                                       *)
(***************************************************************************)
PublishedInOrder == Order!Spec

-----------------------------------------------------------------------------
(* Liveness *)

\* Every row that commits is sent, whatever fails a bounded number of times.
EveryRowSent ==
    \A i \in 1 .. MaxRows :
        (i \in Ids) ~> (i \in WithStatus("SENT") \cup WithStatus("ROLLED BACK"))
=============================================================================
