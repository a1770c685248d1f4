------------------------ MODULE PipelineTraceProofs -------------------------
(***************************************************************************)
(* Theorems about EcomOutbox and PipelineTrace for any number of pairs,    *)
(* rows, messages, concurrent calls and faults, and for any batch size and *)
(* length of the lists.                                                    *)
(***************************************************************************)
EXTENDS PipelineTrace, TLAPS, FiniteSetTheorems, WellFoundedInduction

-----------------------------------------------------------------------------
(* The inductive invariant of the outbox *)

Row == [pair : Pairs, quantity : Quantities, status : Statuses]
Sent == WithStatus("SENT")
Busy(c) == drain[c].pc # "idle"

\* The flag lets one call drain at a time.
OneDrain ==
    /\ \A c \in Calls : Busy(c) => draining
    /\ \A c, d \in Calls : Busy(c) /\ Busy(d) => c = d

\* The lock of the EcomStock row: a row that is not decided is the pair's youngest.
OpenRowIsYoungest ==
    \A i, j \in Ids :
        outbox[i].status = "UNCOMMITTED" /\ outbox[j].pair = outbox[i].pair => j <= i

\* What is stored is what the youngest committed row of the pair delivers.
PublishedIsYoungest ==
    \A p \in Pairs :
        \/ CommittedOf(p) = {} /\ published[p] = None
        \/ \E i \in CommittedOf(p) :
              (\A j \in CommittedOf(p) : j <= i) /\ published[p] = outbox[i].quantity

\* A pair's rows are sent from the oldest on.
OlderIsSentFirst ==
    \A i, j \in Ids :
        /\ outbox[i].pair = outbox[j].pair
        /\ outbox[i].status = "SENT" /\ outbox[j].status = "PENDING"
        => i < j

\* The rows in a drain's hands wait, and no older row of their pairs is left out.
BatchWaits ==
    \A c \in Calls : drain[c].pc \in {"publish", "markSent"} =>
        /\ drain[c].ids \subseteq Pending
        /\ \A i \in drain[c].ids, j \in Pending :
              outbox[i].pair = outbox[j].pair /\ j < i => j \in drain[c].ids

\* Between the send and markSent the topic ends at the batch.
TopicEndsAtBatch ==
    \A c \in Calls : drain[c].pc = "markSent" =>
        \A i \in drain[c].ids :
            /\ topic[outbox[i].pair] \in drain[c].ids
            /\ i <= topic[outbox[i].pair]

\* Rows are stamped after they are marked, and only a sent row stamps its pair.
StampsFollowSent ==
    /\ \A c \in Calls : drain[c].pc = "stamp" => drain[c].ids \subseteq Sent
    /\ \A p \in Pairs : stamped[p] => RowsOf(p) \cap Sent # {}

\* A message in the topic is the message of a committed row.
TopicIsCommitted == \A p \in Pairs : topic[p] # 0 => topic[p] \in CommittedOf(p)

OutboxInv ==
    /\ TypeOK
    /\ OneDrain
    /\ OpenRowIsYoungest
    /\ PublishedIsYoungest
    /\ OlderIsSentFirst
    /\ BatchWaits
    /\ TopicEndsAtBatch
    /\ StampsFollowSent
    /\ TopicIsCommitted
    /\ OrderPreserved

-----------------------------------------------------------------------------
(* The inductive invariant of a trace *)

\* Which statements are outstanding in each phase.
PhaseOfReads ==
    CASE trace.status = "variant" -> trace.unread \subseteq Includes
      [] trace.status = "lists"   -> trace.unread \subseteq Lists
      [] OTHER                    -> trace.unread = {}

\* A list of the trace that has been read.
HasList(list) ==
    \/ trace.status = "answered"
    \/ trace.status = "lists" /\ list \notin trace.unread

\* The inbox: what the stock tables hold is no longer waiting.
InboxInv ==
    /\ events \in Seq({"PENDING", "PROCESSED", "FAILED"}) /\ Len(events) <= MaxEvents
    /\ unheard \subseteq applied /\ applied \subseteq Decided

\* What the included rows say rests on rows that outlive the reading.
IncludesHaveRows ==
    /\ trace.stocks \subseteq applied
    /\ \A p \in Traced :
          /\ trace.calculations[p].publishedQuantity # None =>
                \E i \in CommittedOf(p) : outbox[i].quantity = trace.calculations[p].publishedQuantity
          /\ trace.calculations[p].delivered => RowsOf(p) \cap Sent # {}

\* A list that is not full holds every row the included rows rest on.
ListsHaveRows ==
    /\ HasList("events") /\ ~Full(trace.events) => trace.stocks \subseteq trace.events.finished
    /\ trace.outbox.finished \subseteq Sent
    /\ HasList("outbox") /\ ~Full(trace.outbox) => \A p \in Traced :
          /\ trace.calculations[p].publishedQuantity # None =>
                \E i \in trace.outbox.rows \cap RowsOf(p) :
                    outbox[i].quantity = trace.calculations[p].publishedQuantity
          /\ trace.calculations[p].delivered =>
                trace.outbox.finished \cap trace.outbox.rows \cap RowsOf(p) # {}

TraceInv ==
    /\ TraceTypeOK
    /\ InboxInv
    /\ OutboxInv
    /\ PhaseOfReads
    /\ IncludesHaveRows
    /\ ListsHaveRows
-----------------------------------------------------------------------------
(* Numbers and rows *)

\* A set of naturals has a least element.
LEMMA LeastOfNaturals ==
    ASSUME NEW S, S \subseteq Nat, S # {}
    PROVE  \E i \in S : \A j \in S : i <= j
  <1> DEFINE Less == OpToRel(<, Nat)
  <1>1. IsWellFoundedOn(Less, Nat)
    BY NatLessThanWellFounded
  <1>2. \A i, j \in Nat : j < i => <<j, i>> \in Less
    BY DEF OpToRel
  <1> HIDE DEF Less
  <1>3. PICK i \in S : \A j \in S : <<j, i>> \notin Less
    BY <1>1, WFMin
  <1>4. ASSUME NEW j \in S PROVE i <= j
    <2>1. i \in Nat /\ j \in Nat /\ <<j, i>> \notin Less
      BY <1>3
    <2>2. ~(j < i)
      BY <1>2, <2>1
    <2> QED
      BY <2>1, <2>2
  <1> QED
    BY <1>4

\* A set of naturals with a bound has a greatest element.
LEMMA GreatestOfBounded ==
    ASSUME NEW S, NEW n \in Nat, S \subseteq Nat, S # {}, \A i \in S : i <= n
    PROVE  Greatest(S) \in S /\ \A j \in S : j <= Greatest(S)
  <1> DEFINE Bounds == {k \in Nat : \A i \in S : i <= k}
  <1>1. PICK k \in Bounds : \A j \in Bounds : k <= j
    <2>1. Bounds \subseteq Nat /\ n \in Bounds
      OBVIOUS
    <2> HIDE DEF Bounds
    <2> QED
      BY <2>1, LeastOfNaturals
  <1>2. k \in S
    <2> SUFFICES ASSUME k \notin S PROVE FALSE
      OBVIOUS
    <2>1. PICK i \in S : i < k
      <3>1. \A i \in S : i < k
        BY <1>1
      <3> QED
        BY <3>1
    <2>2. k \in Nat /\ i \in Nat /\ k - 1 \in Nat
      BY <2>1
    <2>3. \A j \in S : j \in Nat /\ j <= k - 1
      BY <1>1, <2>2
    <2>4. k - 1 \in Bounds
      BY <2>2, <2>3
    <2> QED
      BY <2>2, <2>4, <1>1
  <1>3. \E i \in S : \A j \in S : j <= i
    BY <1>1, <1>2
  <1> QED
    BY <1>3 DEF Greatest

\* The rows are numbered from one and have a pair, a quantity and a status.
LEMMA RowsTyped ==
    ASSUME TypeOK
    PROVE  /\ Len(outbox) \in 0 .. MaxRows
           /\ Ids = 1 .. Len(outbox)
           /\ Ids \subseteq 1 .. MaxRows
           /\ \A i \in Ids : /\ outbox[i] = [pair |-> outbox[i].pair,
                                              quantity |-> outbox[i].quantity,
                                              status |-> outbox[i].status]
                              /\ outbox[i].pair \in Pairs
                              /\ outbox[i].quantity \in Quantities
                              /\ outbox[i].status \in Statuses
  <1>1. /\ outbox \in Seq(Row)
        /\ Len(outbox) <= MaxRows
    BY DEF TypeOK, Row
  <1>2. Len(outbox) \in 0 .. MaxRows /\ Ids = 1 .. Len(outbox) /\ Ids \subseteq 1 .. MaxRows
    BY <1>1, BoundsAssumption DEF Ids
  <1>3. \A i \in Ids : outbox[i] \in Row
    BY <1>1, <1>2
  <1>4. ASSUME NEW i \in Ids
        PROVE  /\ outbox[i] = [pair |-> outbox[i].pair, quantity |-> outbox[i].quantity,
                               status |-> outbox[i].status]
               /\ outbox[i].pair \in Pairs
               /\ outbox[i].quantity \in Quantities
               /\ outbox[i].status \in Statuses
    BY <1>3 DEF Row
  <1> QED
    BY <1>2, <1>4

\* A row that is queued comes after the others and leaves them as they are.
LEMMA AppendKeepsRows ==
    ASSUME TypeOK, NEW p \in Pairs, NEW q \in Quantities, EnqueuePublication(p, q)
    PROVE  LET n == Len(outbox) + 1 IN
           /\ outbox' \in Seq(Row)
           /\ Len(outbox') <= MaxRows
           /\ n \in Nat
           /\ Ids' = Ids \cup {n}
           /\ \A i \in Ids : i < n /\ outbox'[i] = outbox[i]
           /\ outbox'[n] = [pair |-> p, quantity |-> q, status |-> "UNCOMMITTED"]
  <1> DEFINE row == [pair |-> p, quantity |-> q, status |-> "UNCOMMITTED"]
  <1>1. row \in Row
    BY DEF Row, Statuses
  <1>2. outbox \in Seq(Row) /\ Len(outbox) < MaxRows /\ outbox' = Append(outbox, row)
    BY DEF TypeOK, Row, EnqueuePublication
  <1> HIDE DEF row
  <1>3. outbox' \in Seq(Row) /\ Len(outbox') = Len(outbox) + 1
        /\ outbox'[Len(outbox) + 1] = row
        /\ \A i \in 1 .. Len(outbox) : outbox'[i] = outbox[i]
    BY <1>1, <1>2
  <1>4. Ids = 1 .. Len(outbox) /\ Ids' = 1 .. Len(outbox) + 1 /\ Len(outbox) \in Nat
    BY <1>2, <1>3 DEF Ids
  <1> QED
    BY <1>2, <1>3, <1>4, BoundsAssumption DEF row

\* Marking rows touches nothing but their status.
LEMMA MarkKeepsRows ==
    ASSUME TypeOK, NEW ids, NEW status \in Statuses, Mark(ids, status)
    PROVE  /\ outbox' \in Seq(Row)
           /\ Len(outbox') <= MaxRows
           /\ Ids' = Ids
           /\ \A i \in Ids :
                 /\ outbox'[i].pair = outbox[i].pair
                 /\ outbox'[i].quantity = outbox[i].quantity
                 /\ outbox'[i].status = IF i \in ids THEN status ELSE outbox[i].status
  <1>1. outbox' = [i \in 1 .. Len(outbox) |-> IF i \in ids THEN [outbox[i] EXCEPT !.status = status]
                                                           ELSE outbox[i]]
    BY RowsTyped DEF Mark
  <1>2. ASSUME NEW i \in 1 .. Len(outbox)
        PROVE  /\ outbox'[i] \in Row
               /\ outbox'[i].pair = outbox[i].pair
               /\ outbox'[i].quantity = outbox[i].quantity
               /\ outbox'[i].status = IF i \in ids THEN status ELSE outbox[i].status
    <2>1. outbox'[i] = IF i \in ids THEN [outbox[i] EXCEPT !.status = status] ELSE outbox[i]
      BY <1>1
    <2>2. outbox \in Seq(Row) /\ Len(outbox) \in Nat
      BY RowsTyped DEF TypeOK, Row
    <2>3. outbox[i] \in Row
      BY <2>2
    <2> QED
      BY <2>1, <2>3 DEF Row
  <1>3. DOMAIN outbox' = 1 .. Len(outbox) /\ Len(outbox) \in Nat /\ Len(outbox) <= MaxRows
    BY <1>1, RowsTyped, BoundsAssumption
  <1>4. outbox' \in Seq(Row)
        /\ Len(outbox') = Len(outbox)
    BY <1>1, <1>2, <1>3
  <1> QED
    BY <1>2, <1>3, <1>4, RowsTyped DEF Ids

-----------------------------------------------------------------------------
(* The steps of the outbox *)

\* A queued row is not committed and takes no part in what is promised.
LEMMA EnqueueKeepsInv ==
    ASSUME OutboxInv, NEW p \in Pairs, NEW q \in Quantities, EnqueuePublication(p, q)
    PROVE  OutboxInv'
  <1> DEFINE n == Len(outbox) + 1
  <1> USE DEF OutboxInv
  <1>1. /\ outbox' \in Seq(Row) /\ Len(outbox') <= MaxRows
        /\ n \in Nat /\ Ids' = Ids \cup {n}
        /\ \A i \in Ids : i < n /\ outbox'[i] = outbox[i]
        /\ outbox'[n] = [pair |-> p, quantity |-> q, status |-> "UNCOMMITTED"]
    BY AppendKeepsRows
  <1> HIDE DEF n
  <1>2. UNCHANGED <<published, stamped, draining, drain, topic, faults>>
        /\ RowsOf(p) \cap WithStatus("UNCOMMITTED") = {}
    BY DEF EnqueuePublication
  <1>3. Ids \subseteq Nat
    BY RowsTyped
  <1>4. Pending' = Pending /\ Sent' = Sent /\ Committed' = Committed
    <2>1. \A i \in Ids' : i \in Ids \/ outbox'[i].status = "UNCOMMITTED"
      BY <1>1
    <2>2. n \notin Ids
      BY <1>1, <1>3
    <2>3. ASSUME NEW status, status # "UNCOMMITTED"
          PROVE  WithStatus(status)' = WithStatus(status)
      BY <1>1, <2>1, <2>3 DEF WithStatus
    <2>4. Pending' = Pending /\ Sent' = Sent /\ WithStatus("SENT")' = WithStatus("SENT")
      BY <2>3 DEF Pending, Sent
    <2> QED
      BY <2>4 DEF Committed
  <1>5. /\ \A r \in Pairs : RowsOf(r) \subseteq RowsOf(r)' /\ CommittedOf(r)' = CommittedOf(r)
        /\ \A i \in Ids, r \in Pairs : i \in RowsOf(r)' => i \in RowsOf(r)
    <2>1. \A i \in Ids, r \in Pairs : i \in RowsOf(r)' <=> i \in RowsOf(r)
      BY <1>1 DEF RowsOf
    <2>2. Committed \subseteq Ids
      BY DEF Committed, Pending, WithStatus
    <2>3. \A r \in Pairs : RowsOf(r) \subseteq RowsOf(r)'
      BY <2>1 DEF RowsOf
    <2>4. ASSUME NEW r \in Pairs PROVE CommittedOf(r)' = CommittedOf(r)
      BY <2>1, <2>2, <1>4 DEF CommittedOf
    <2> QED
      BY <2>1, <2>3, <2>4
  <1>6. TypeOK'
    BY <1>1, <1>2 DEF TypeOK, Row
  <1>7. OneDrain'
    BY <1>2 DEF OneDrain, Busy
  <1>8. OpenRowIsYoungest'
    <2> SUFFICES ASSUME NEW i \in Ids', NEW j \in Ids', outbox'[i].status = "UNCOMMITTED",
                        outbox'[j].pair = outbox'[i].pair
                 PROVE  j <= i
      BY DEF OpenRowIsYoungest
    <2>1. CASE i = n
      BY <1>1, <1>3, <2>1
    <2>2. CASE i \in Ids /\ j \in Ids
      BY <1>1, <2>2 DEF OpenRowIsYoungest
    <2>3. CASE i \in Ids /\ j = n
      BY <1>1, <1>2, <2>3 DEF RowsOf, WithStatus
    <2> QED
      BY <1>1, <2>1, <2>2, <2>3
  <1>9. PublishedIsYoungest'
    <2> SUFFICES ASSUME NEW r \in Pairs, CommittedOf(r) # {}
                 PROVE  \E i \in CommittedOf(r) : /\ \A j \in CommittedOf(r) : j <= i
                                                  /\ published[r] = outbox'[i].quantity
      BY <1>2, <1>5 DEF PublishedIsYoungest
    <2>1. \A i \in CommittedOf(r) : outbox'[i] = outbox[i]
      BY <1>1 DEF CommittedOf, RowsOf
    <2> QED
      BY <2>1 DEF PublishedIsYoungest
  <1>10. OlderIsSentFirst'
    BY <1>1 DEF OlderIsSentFirst
  <1>11. BatchWaits' /\ TopicEndsAtBatch' /\ StampsFollowSent'
    <2>1. Pending \subseteq Ids /\ Sent \subseteq Ids
      BY DEF Pending, Sent, WithStatus
    <2>2. BatchWaits'
      BY <1>1, <1>2, <1>4, <2>1 DEF BatchWaits
    <2>3. TopicEndsAtBatch'
      BY <1>1, <1>2, <2>1 DEF TopicEndsAtBatch, BatchWaits
    <2>4. StampsFollowSent'
      BY <1>2, <1>4, <1>5 DEF StampsFollowSent
    <2> QED
      BY <2>2, <2>3, <2>4
  <1>12. TopicIsCommitted'
    BY <1>2, <1>5 DEF TopicIsCommitted
  <1>13. OrderPreserved'
    BY <1>2, <1>4, <1>5 DEF OrderPreserved, Sent, WithStatus
  <1> QED
    BY <1>6, <1>7, <1>8, <1>9, <1>10, <1>11, <1>12, <1>13

\* Marking leaves every row with its pair and the rows of every other status where they were.
LEMMA MarkKeepsPairs ==
    ASSUME TypeOK, NEW ids, NEW status \in Statuses, Mark(ids, status)
    PROVE  /\ \A r : RowsOf(r)' = RowsOf(r)
           /\ WithStatus(status)' = WithStatus(status) \cup (ids \cap Ids)
           /\ \A other : other # status => WithStatus(other)' = WithStatus(other) \ ids
  <1>1. /\ Ids' = Ids
        /\ \A i \in Ids :
              /\ outbox'[i].pair = outbox[i].pair
              /\ outbox'[i].status = IF i \in ids THEN status ELSE outbox[i].status
    BY MarkKeepsRows
  <1>2. ASSUME NEW r PROVE RowsOf(r)' = RowsOf(r)
    BY <1>1 DEF RowsOf
  <1>3. WithStatus(status)' = WithStatus(status) \cup (ids \cap Ids)
    BY <1>1 DEF WithStatus
  <1>4. ASSUME NEW other, other # status
        PROVE  WithStatus(other)' = WithStatus(other) \ ids
    BY <1>1, <1>4 DEF WithStatus
  <1> QED
    BY <1>2, <1>3, <1>4

\* Sets of rows told apart by their status.
LEMMA StatusSets ==
    ASSUME TypeOK
    PROVE  /\ Pending \subseteq Ids /\ Sent \subseteq Ids /\ Pending \cap Sent = {}
           /\ \A i \in Ids : /\ i \in Pending <=> outbox[i].status = "PENDING"
                             /\ i \in Sent <=> outbox[i].status = "SENT"
           /\ Committed = Pending \cup Sent
           /\ \A p \in Pairs : /\ CommittedOf(p) \subseteq RowsOf(p)
                               /\ RowsOf(p) \subseteq Ids
                               /\ \A i \in Ids : i \in RowsOf(p) <=> outbox[i].pair = p
  BY DEF Pending, Sent, Committed, WithStatus, CommittedOf, RowsOf

(***************************************************************************)
(* The row a transaction commits is the pair's youngest: what it stores is *)
(* what is delivered last, and it waits behind every older row.            *)
(***************************************************************************)
LEMMA CommitKeepsInv ==
    ASSUME OutboxInv, NEW k \in Ids, CommitCalculation(k)
    PROVE  OutboxInv'
  <1> USE DEF OutboxInv
  <1>0. PICK p \in Pairs : p = outbox[k].pair
    BY RowsTyped
  <1>1. /\ outbox[k].status = "UNCOMMITTED" /\ Mark({k}, "PENDING")
        /\ published' = [published EXCEPT ![p] = outbox[k].quantity]
        /\ stamped' = [stamped EXCEPT ![p] = FALSE]
        /\ UNCHANGED <<draining, drain, topic, faults>>
    BY <1>0 DEF CommitCalculation
  <1>2. /\ outbox' \in Seq(Row) /\ Len(outbox') <= MaxRows /\ Ids' = Ids
        /\ \A i \in Ids : /\ outbox'[i].pair = outbox[i].pair
                          /\ outbox'[i].quantity = outbox[i].quantity
                          /\ outbox'[i].status = IF i = k THEN "PENDING" ELSE outbox[i].status
    <2>1. "PENDING" \in Statuses
      BY DEF Statuses
    <2>2. \A i \in Ids : i \in {k} <=> i = k
      OBVIOUS
    <2> QED
      BY <1>1, <2>1, <2>2, MarkKeepsRows
  <1>3. /\ \A r : RowsOf(r)' = RowsOf(r)
        /\ Pending' = Pending \cup {k} /\ Sent' = Sent /\ Committed' = Committed \cup {k}
    <2>1. "PENDING" \in Statuses /\ k \notin WithStatus("SENT")
      BY <1>1 DEF Statuses, WithStatus
    <2>2. /\ \A r : RowsOf(r)' = RowsOf(r)
          /\ WithStatus("PENDING")' = WithStatus("PENDING") \cup {k}
          /\ WithStatus("SENT")' = WithStatus("SENT")
      BY <1>1, <2>1, MarkKeepsPairs
    <2> QED
      BY <2>2 DEF Pending, Sent, Committed
  <1>4. /\ p \in Pairs /\ outbox[k].quantity \in Quantities
        /\ k \in RowsOf(p) /\ \A j \in RowsOf(p) : j <= k
    BY <1>0, <1>1, RowsTyped DEF OpenRowIsYoungest, RowsOf
  <1>5. /\ CommittedOf(p)' = CommittedOf(p) \cup {k}
        /\ \A r \in Pairs \ {p} : CommittedOf(r)' = CommittedOf(r)
    <2>1. \A r \in Pairs \ {p} : k \notin RowsOf(r)
      BY <1>0 DEF RowsOf
    <2>2. CommittedOf(p)' = CommittedOf(p) \cup {k}
      BY <1>3, <1>4 DEF CommittedOf
    <2>3. ASSUME NEW r \in Pairs \ {p} PROVE CommittedOf(r)' = CommittedOf(r)
      BY <1>3, <2>1 DEF CommittedOf
    <2> QED
      BY <2>2, <2>3
  <1>6. k \notin Pending /\ k \notin Sent
    BY <1>1, StatusSets
  <1>7. TypeOK'
    <2>1. published' \in [Pairs -> Quantities \cup {None}] /\ stamped' \in [Pairs -> BOOLEAN]
      BY <1>1, <1>4 DEF TypeOK
    <2> QED
      BY <1>1, <1>2, <2>1 DEF TypeOK, Row
  <1>8. OneDrain'
    BY <1>1 DEF OneDrain, Busy
  <1>9. OpenRowIsYoungest'
    BY <1>2 DEF OpenRowIsYoungest
  <1>10. PublishedIsYoungest'
    <2> SUFFICES ASSUME NEW r \in Pairs
                 PROVE  \/ CommittedOf(r)' = {} /\ published'[r] = None
                        \/ \E i \in CommittedOf(r)' : /\ \A j \in CommittedOf(r)' : j <= i
                                                     /\ published'[r] = outbox'[i].quantity
      BY DEF PublishedIsYoungest
    <2>1. CASE r = p
      <3>1. published'[p] = outbox'[k].quantity
        BY <1>1, <1>2, <1>4 DEF TypeOK
      <3>2. \A j \in CommittedOf(p)' : j <= k
        <4>1. CommittedOf(p) \subseteq RowsOf(p)
          BY DEF CommittedOf
        <4>2. k <= k
          BY <1>4
        <4> QED
          BY <1>4, <1>5, <4>1, <4>2
      <3> QED
        BY <1>5, <2>1, <3>1, <3>2
    <2>2. CASE r # p
      <3>1. published'[r] = published[r] /\ CommittedOf(r)' = CommittedOf(r)
        BY <1>1, <1>5, <2>2 DEF TypeOK
      <3>2. \A i \in CommittedOf(r) : outbox'[i].quantity = outbox[i].quantity
        BY <1>2, StatusSets
      <3> QED
        BY <3>1, <3>2 DEF PublishedIsYoungest
    <2> QED
      BY <2>1, <2>2
  <1>11. OlderIsSentFirst'
    <2> SUFFICES ASSUME NEW i \in Ids, NEW j \in Ids, outbox[i].pair = outbox[j].pair,
                        outbox'[i].status = "SENT", outbox'[j].status = "PENDING"
                 PROVE  i < j
      BY <1>2 DEF OlderIsSentFirst
    <2>1. i # k /\ outbox[i].status = "SENT"
      BY <1>2
    <2>2. CASE j = k
      BY <1>4, <2>1, <2>2, RowsTyped DEF RowsOf
    <2>3. CASE j # k
      BY <1>2, <2>1, <2>3 DEF OlderIsSentFirst
    <2> QED
      BY <2>2, <2>3
  <1>12. BatchWaits'
    <2> SUFFICES ASSUME NEW c \in Calls, drain[c].pc \in {"publish", "markSent"}
                 PROVE  /\ drain[c].ids \subseteq Pending'
                        /\ \A i \in drain[c].ids, j \in Pending' :
                              outbox'[i].pair = outbox'[j].pair /\ j < i => j \in drain[c].ids
      BY <1>1 DEF BatchWaits
    <2>1. drain[c].ids \subseteq Pending
      BY DEF BatchWaits
    <2>2. \A i \in drain[c].ids : i \in Ids /\ (outbox[i].pair = p => ~(k < i))
      BY <1>4, <2>1, StatusSets, RowsTyped DEF RowsOf
    <2>3. ASSUME NEW i \in drain[c].ids, NEW j \in Pending',
                 outbox'[i].pair = outbox'[j].pair, j < i
          PROVE  j \in drain[c].ids
      <3>1. i \in Ids /\ j \in Ids /\ outbox[i].pair = outbox[j].pair
        BY <1>2, <1>3, <2>1, <2>3, StatusSets
      <3>2. j # k
        BY <1>0, <2>2, <2>3, <3>1
      <3>3. j \in Pending
        BY <1>3, <3>2
      <3> QED
        BY <2>3, <3>1, <3>3 DEF BatchWaits
    <2> QED
      BY <1>3, <2>1, <2>3
  <1>13. TopicEndsAtBatch'
    BY <1>1, <1>2, StatusSets DEF TopicEndsAtBatch, BatchWaits
  <1>14. StampsFollowSent'
    <2>1. \A r \in Pairs : stamped'[r] => stamped[r]
      BY <1>1, <1>4 DEF TypeOK
    <2> QED
      BY <1>1, <1>3, <2>1 DEF StampsFollowSent
  <1>15. TopicIsCommitted'
    <2>1. \A r \in Pairs : CommittedOf(r) \subseteq CommittedOf(r)'
      BY <1>5
    <2> QED
      BY <1>1, <2>1 DEF TopicIsCommitted
  <1>16. OrderPreserved'
    BY <1>1, <1>3 DEF OrderPreserved, Sent
  <1> QED
    BY <1>7, <1>8, <1>9, <1>10, <1>11, <1>12, <1>13, <1>14, <1>15, <1>16

\* A call that is not in progress is well-formed.
LEMMA NoDrainTyped ==
    /\ NoDrain \in [pc : {"idle", "find", "publish", "markSent", "stamp"}, ids : SUBSET (1 .. MaxRows)]
    /\ NoDrain.pc = "idle"
    /\ Cardinality(NoDrain.ids) <= BatchSize
  <1>1. Cardinality({}) = 0
    BY FS_EmptySet
  <1> QED
    BY <1>1, BoundsAssumption DEF NoDrain

\* Undecided rows that are given up were promised to nobody.
LEMMA DiscardKeepsInv ==
    ASSUME OutboxInv, NEW ids \in SUBSET WithStatus("UNCOMMITTED"), Mark(ids, "ROLLED BACK"),
           UNCHANGED <<published, stamped, topic>>, faults' \in 0 .. MaxFaults,
           \/ UNCHANGED <<drain, draining>>
           \/ drain' = [c \in Calls |-> NoDrain] /\ draining' = FALSE
    PROVE  OutboxInv'
  <1> USE DEF OutboxInv
  <1>0. "ROLLED BACK" \in Statuses
    BY DEF Statuses
  <1>1. /\ outbox' \in Seq(Row) /\ Len(outbox') <= MaxRows /\ Ids' = Ids
        /\ \A i \in Ids : /\ outbox'[i].pair = outbox[i].pair
                          /\ outbox'[i].quantity = outbox[i].quantity
                          /\ outbox'[i].status = IF i \in ids THEN "ROLLED BACK" ELSE outbox[i].status
    BY <1>0, MarkKeepsRows
  <1>2. /\ \A r : RowsOf(r)' = RowsOf(r)
        /\ Pending' = Pending /\ Sent' = Sent /\ Committed' = Committed
    <2>1. ids \cap WithStatus("PENDING") = {} /\ ids \cap WithStatus("SENT") = {}
      BY DEF WithStatus
    <2>2. /\ \A r : RowsOf(r)' = RowsOf(r)
          /\ \A other : other # "ROLLED BACK" => WithStatus(other)' = WithStatus(other) \ ids
      BY <1>0, MarkKeepsPairs
    <2>3. WithStatus("PENDING")' = WithStatus("PENDING") /\ WithStatus("SENT")' = WithStatus("SENT")
      BY <2>1, <2>2
    <2> QED
      BY <2>2, <2>3 DEF Pending, Sent, Committed
  <1>3. \A r : CommittedOf(r)' = CommittedOf(r)
    BY <1>2 DEF CommittedOf
  <1>4. TypeOK' /\ OneDrain'
    <2>1. CASE UNCHANGED <<drain, draining>>
      BY <1>1, <2>1 DEF TypeOK, Row, OneDrain, Busy
    <2>2. CASE drain' = [c \in Calls |-> NoDrain] /\ draining' = FALSE
      <3>1. \A c \in Calls : drain'[c] = NoDrain
        BY <2>2
      <3> QED
        BY <1>1, <2>2, <3>1, NoDrainTyped DEF TypeOK, Row, OneDrain, Busy
    <2> QED
      BY <2>1, <2>2
  <1>5. OpenRowIsYoungest' /\ OlderIsSentFirst'
    <2>1. \A i \in Ids : outbox'[i].status # "ROLLED BACK" => outbox'[i].status = outbox[i].status
      BY <1>1
    <2>2. ASSUME NEW i \in Ids', NEW j \in Ids', outbox'[i].status = "UNCOMMITTED",
                 outbox'[j].pair = outbox'[i].pair
          PROVE  j <= i
      <3>1. outbox[i].status = "UNCOMMITTED" /\ outbox[j].pair = outbox[i].pair
        BY <1>1, <2>1, <2>2
      <3> QED
        BY <1>1, <3>1 DEF OpenRowIsYoungest
    <2>3. ASSUME NEW i \in Ids', NEW j \in Ids', outbox'[i].pair = outbox'[j].pair,
                 outbox'[i].status = "SENT", outbox'[j].status = "PENDING"
          PROVE  i < j
      <3>1. /\ outbox[i].pair = outbox[j].pair
            /\ outbox[i].status = "SENT" /\ outbox[j].status = "PENDING"
        BY <1>1, <2>1, <2>3
      <3> QED
        BY <1>1, <3>1 DEF OlderIsSentFirst
    <2> QED
      BY <2>2, <2>3 DEF OpenRowIsYoungest, OlderIsSentFirst
  <1>6. PublishedIsYoungest'
    <2> SUFFICES ASSUME NEW r \in Pairs, CommittedOf(r) # {}
                 PROVE  \E i \in CommittedOf(r) : /\ \A j \in CommittedOf(r) : j <= i
                                                  /\ published[r] = outbox'[i].quantity
      BY <1>3 DEF PublishedIsYoungest
    <2>1. \A i \in CommittedOf(r) : outbox'[i].quantity = outbox[i].quantity
      BY <1>1, StatusSets
    <2> QED
      BY <2>1 DEF PublishedIsYoungest
  <1>7. BatchWaits' /\ TopicEndsAtBatch' /\ StampsFollowSent'
    <2>1. CASE UNCHANGED <<drain, draining>>
      <3>1. BatchWaits'
        BY <1>1, <1>2, <2>1, StatusSets DEF BatchWaits
      <3>2. TopicEndsAtBatch'
        BY <1>1, <2>1, StatusSets DEF BatchWaits, TopicEndsAtBatch
      <3>3. StampsFollowSent'
        BY <1>2, <2>1 DEF StampsFollowSent
      <3> QED
        BY <3>1, <3>2, <3>3
    <2>2. CASE drain' = [c \in Calls |-> NoDrain] /\ draining' = FALSE
      <3>1. \A c \in Calls : drain'[c].pc = "idle"
        BY <2>2, NoDrainTyped
      <3> QED
        BY <1>2, <3>1 DEF BatchWaits, TopicEndsAtBatch, StampsFollowSent
    <2> QED
      BY <2>1, <2>2
  <1>8. TopicIsCommitted' /\ OrderPreserved'
    BY <1>2, <1>3 DEF TopicIsCommitted, OrderPreserved, Sent
  <1> QED
    BY <1>4, <1>5, <1>6, <1>7, <1>8

\* A call that has returned leaves no call in progress.
LEMMA NobodyDrains ==
    ASSUME TypeOK, OneDrain, NEW c \in Calls, Busy(c), Leave(c)
    PROVE  /\ draining' = FALSE
           /\ drain' \in [Calls -> [pc : {"idle", "find", "publish", "markSent", "stamp"},
                                    ids : SUBSET (1 .. MaxRows)]]
           /\ \A d \in Calls : drain'[d].pc = "idle" /\ Cardinality(drain'[d].ids) <= BatchSize
  <1>1. \A d \in Calls \ {c} : drain[d].pc = "idle"
    BY DEF OneDrain, Busy
  <1>2. drain' = [drain EXCEPT ![c] = NoDrain] /\ draining' = FALSE
    BY DEF Leave
  <1>3. \A d \in Calls : drain'[d] = IF d = c THEN NoDrain ELSE drain[d]
    BY <1>2 DEF TypeOK
  <1> QED
    BY <1>1, <1>2, <1>3, NoDrainTyped DEF TypeOK

(***************************************************************************)
(* A send in the order of creation puts the youngest row of each pair it   *)
(* reaches last, behind every row that was sent before.                    *)
(***************************************************************************)
LEMMA DeliveredInOrder ==
    ASSUME OutboxInv, NEW c \in Calls, drain[c].pc = "publish", NEW pairs \in SUBSET Pairs,
           Delivered(drain[c].ids, pairs)
    PROVE  /\ topic' \in [Pairs -> 0 .. MaxRows]
           /\ \A p \in Pairs :
                 /\ topic'[p] # 0 => topic'[p] \in CommittedOf(p)
                 /\ \A i \in RowsOf(p) \cap Sent : i <= topic'[p]
                 /\ p \in pairs => \A i \in drain[c].ids \cap RowsOf(p) :
                       topic'[p] \in drain[c].ids /\ i <= topic'[p]
  <1> USE DEF OutboxInv
  <1>1. drain[c].ids \subseteq Pending /\ Pending \subseteq Ids /\ Ids \subseteq 1 .. MaxRows
    BY RowsTyped, StatusSets DEF BatchWaits
  <1>2. ASSUME NEW p \in Pairs
        PROVE  /\ topic'[p] \in 0 .. MaxRows
               /\ topic'[p] # 0 => topic'[p] \in CommittedOf(p)
               /\ \A i \in RowsOf(p) \cap Sent : i <= topic'[p]
               /\ p \in pairs => \A i \in drain[c].ids \cap RowsOf(p) :
                     topic'[p] \in drain[c].ids /\ i <= topic'[p]
    <2> DEFINE mine == drain[c].ids \cap RowsOf(p)
    <2>1. CASE p \in pairs /\ mine # {}
      <3>1. topic'[p] = Greatest(mine)
        BY <2>1 DEF Delivered
      <3>2. topic'[p] \in mine /\ \A i \in mine : i <= topic'[p]
        <4>1. mine \subseteq Nat /\ MaxRows \in Nat /\ \A i \in mine : i <= MaxRows
          <5>1. mine \subseteq 1 .. MaxRows
            BY <1>1
          <5> HIDE DEF mine
          <5> QED
            BY <5>1, BoundsAssumption
        <4>2. mine # {}
          BY <2>1
        <4> HIDE DEF mine
        <4> QED
          BY <3>1, <4>1, <4>2, GreatestOfBounded
      <3>3. \A i \in RowsOf(p) \cap Sent : i < topic'[p]
        <4>1. topic'[p] \in Pending /\ topic'[p] \in RowsOf(p) /\ topic'[p] \in Ids
          BY <1>1, <3>2
        <4>2. outbox[topic'[p]].pair = p /\ outbox[topic'[p]].status = "PENDING"
          BY <4>1, StatusSets
        <4>3. \A i \in RowsOf(p) \cap Sent :
                 i \in Ids /\ outbox[i].pair = p /\ outbox[i].status = "SENT"
          BY StatusSets
        <4> QED
          BY <4>1, <4>2, <4>3 DEF OlderIsSentFirst
      <3>4. topic'[p] \in CommittedOf(p) /\ topic'[p] \in 0 .. MaxRows
        <4>1. topic'[p] \in Pending /\ topic'[p] \in RowsOf(p)
          BY <1>1, <3>2
        <4>2. topic'[p] \in Committed /\ topic'[p] \in 1 .. MaxRows
          BY <1>1, <4>1, StatusSets
        <4> QED
          BY <4>1, <4>2 DEF CommittedOf
      <3>5. RowsOf(p) \cap Sent \subseteq 1 .. MaxRows
        BY <1>1, StatusSets
      <3> QED
        BY <3>2, <3>3, <3>4, <3>5
    <2>2. CASE ~(p \in pairs /\ mine # {})
      <3>1. topic'[p] = topic[p]
        BY <2>2 DEF Delivered
      <3> QED
        BY <2>2, <3>1 DEF TypeOK, TopicIsCommitted, OrderPreserved, Sent
    <2> QED
      BY <2>1, <2>2
  <1>3. topic' \in [Pairs -> 0 .. MaxRows]
    BY <1>2 DEF Delivered
  <1> QED
    BY <1>2, <1>3

\* A fault is one of the bounded number of faults.
LEMMA FaultIsCounted ==
    ASSUME TypeOK, Fault
    PROVE  faults' \in 0 .. MaxFaults
  BY BoundsAssumption DEF TypeOK, Fault

\* The parts of the invariant that are about rows alone.
RowsInv == OpenRowIsYoungest /\ PublishedIsYoungest /\ OlderIsSentFirst

LEMMA RowsStay ==
    ASSUME RowsInv, UNCHANGED <<outbox, published>>
    PROVE  RowsInv'
  BY DEF RowsInv, OpenRowIsYoungest, PublishedIsYoungest, OlderIsSentFirst, CommittedOf, RowsOf,
         Committed, Pending, WithStatus, Ids

\* The parts that are about rows and topic.
TopicInv == TopicIsCommitted /\ OrderPreserved

LEMMA TopicStays ==
    ASSUME TopicInv, UNCHANGED <<outbox, topic>>
    PROVE  TopicInv'
  BY DEF TopicInv, TopicIsCommitted, OrderPreserved, CommittedOf, RowsOf,
         Committed, Pending, WithStatus, Ids

\* A call that begins finds nobody draining.
LEMMA BeginKeepsInv ==
    ASSUME OutboxInv, NEW c \in Calls, PublishPending(c)
    PROVE  OutboxInv'
  <1> USE DEF OutboxInv
  <1>1. /\ \A d \in Calls : drain[d].pc = "idle"
        /\ draining' = TRUE /\ drain' = [drain EXCEPT ![c].pc = "find"]
        /\ UNCHANGED <<outbox, published, stamped, topic, faults>>
    BY DEF PublishPending, OneDrain, Busy, database
  <1>2. \A d \in Calls : /\ drain'[d].pc = IF d = c THEN "find" ELSE "idle"
                         /\ drain'[d].ids = drain[d].ids
    BY <1>1 DEF TypeOK
  <1>3. TypeOK'
    <2>1. drain' \in [Calls -> [pc : {"idle", "find", "publish", "markSent", "stamp"},
                               ids : SUBSET (1 .. MaxRows)]]
      BY <1>1 DEF TypeOK
    <2> QED
      BY <1>1, <1>2, <2>1 DEF TypeOK
  <1>4. OneDrain'
    BY <1>1, <1>2 DEF OneDrain, Busy
  <1>5. RowsInv' /\ TopicInv'
    BY <1>1, RowsStay, TopicStays DEF RowsInv, TopicInv
  <1>6. BatchWaits' /\ TopicEndsAtBatch'
    BY <1>2 DEF BatchWaits, TopicEndsAtBatch
  <1>7. StampsFollowSent'
    BY <1>1, <1>2 DEF StampsFollowSent, RowsOf, Sent, WithStatus, Ids
  <1> QED
    BY <1>3, <1>4, <1>5, <1>6, <1>7 DEF RowsInv, TopicInv

\* The oldest rows are taken, so no older row of their pairs stays behind.
LEMMA FindKeepsInv ==
    ASSUME OutboxInv, NEW c \in Calls, FindPending(c)
    PROVE  OutboxInv'
  <1> USE DEF OutboxInv
  <1>1. PICK ids \in SUBSET Pending :
           /\ Batch(ids)
           /\ drain' = [drain EXCEPT ![c] = [pc |-> "publish", ids |-> ids]]
    BY DEF FindPending
  <1>2. /\ Busy(c) /\ UNCHANGED <<outbox, published, stamped, draining, topic, faults>>
        /\ \A d \in Calls \ {c} : drain[d].pc = "idle"
    BY DEF FindPending, OneDrain, Busy, database
  <1>3. \A d \in Calls : drain'[d] = IF d = c THEN [pc |-> "publish", ids |-> ids] ELSE drain[d]
    BY <1>1 DEF TypeOK
  <1>4. Pending \subseteq Ids /\ ids \subseteq Ids /\ Ids \subseteq 1 .. MaxRows
    BY RowsTyped, StatusSets
  <1>5. TypeOK'
    <2>1. drain' \in [Calls -> [pc : {"idle", "find", "publish", "markSent", "stamp"},
                               ids : SUBSET (1 .. MaxRows)]]
      BY <1>1, <1>4 DEF TypeOK
    <2>2. \A d \in Calls : Cardinality(drain'[d].ids) <= BatchSize
      BY <1>1, <1>3 DEF TypeOK, Batch
    <2> QED
      BY <1>2, <2>1, <2>2 DEF TypeOK
  <1>6. OneDrain'
    BY <1>2, <1>3 DEF OneDrain, Busy
  <1>7. RowsInv' /\ TopicInv'
    BY <1>2, RowsStay, TopicStays DEF RowsInv, TopicInv
  <1>8. BatchWaits' /\ TopicEndsAtBatch'
    <2>1. Pending' = Pending
      BY <1>2 DEF Pending, WithStatus, Ids
    <2>2. ASSUME NEW i \in ids, NEW j \in Pending, j < i PROVE j \in ids
      <3>1. i \in 1 .. MaxRows /\ j \in 1 .. MaxRows
        BY <1>4
      <3>2. j \notin ids => i < j
        <4>1. j \notin ids => j \in Pending \ ids
          OBVIOUS
        <4> HIDE DEF Pending
        <4> QED
          BY <1>1, <4>1 DEF Batch
      <3> QED
        BY <2>2, <3>1, <3>2
    <2>3. \A d \in Calls : d # c => drain'[d].pc = "idle"
      BY <1>2, <1>3
    <2> QED
      BY <1>3, <2>1, <2>2, <2>3 DEF BatchWaits, TopicEndsAtBatch
  <1>9. StampsFollowSent'
    BY <1>2, <1>3 DEF StampsFollowSent, RowsOf, Sent, WithStatus, Ids
  <1> QED
    BY <1>5, <1>6, <1>7, <1>8, <1>9 DEF RowsInv, TopicInv

\* A call that returns, whatever it did, leaves the rows to the next one.
LEMMA LeaveKeepsInv ==
    ASSUME OutboxInv, NEW c \in Calls, Busy(c), Leave(c),
           UNCHANGED <<outbox, published>>, faults' \in 0 .. MaxFaults,
           topic' \in [Pairs -> 0 .. MaxRows], TopicInv',
           stamped' \in [Pairs -> BOOLEAN],
           \A p \in Pairs : stamped'[p] => RowsOf(p) \cap Sent # {}
    PROVE  OutboxInv'
  <1> USE DEF OutboxInv
  <1>1. /\ draining' = FALSE
        /\ drain' \in [Calls -> [pc : {"idle", "find", "publish", "markSent", "stamp"},
                                 ids : SUBSET (1 .. MaxRows)]]
        /\ \A d \in Calls : drain'[d].pc = "idle" /\ Cardinality(drain'[d].ids) <= BatchSize
    BY NobodyDrains
  <1>2. TypeOK' /\ OneDrain'
    BY <1>1 DEF TypeOK, OneDrain, Busy
  <1>3. RowsInv'
    BY RowsStay DEF RowsInv
  <1>4. BatchWaits' /\ TopicEndsAtBatch'
    BY <1>1 DEF BatchWaits, TopicEndsAtBatch
  <1>5. StampsFollowSent'
    BY <1>1 DEF StampsFollowSent, RowsOf, Sent, WithStatus, Ids
  <1> QED
    BY <1>2, <1>3, <1>4, <1>5 DEF RowsInv, TopicInv

\* A send that succeeds: the topic ends at the batch for every pair in it.
LEMMA PublishKeepsInv ==
    ASSUME OutboxInv, NEW c \in Calls, Publish(c)
    PROVE  OutboxInv'
  <1> USE DEF OutboxInv
  <1>1. /\ drain[c].pc = "publish" /\ Delivered(drain[c].ids, Pairs)
        /\ drain' = [drain EXCEPT ![c].pc = "markSent"]
        /\ UNCHANGED <<outbox, published, stamped, draining, faults>>
    BY DEF Publish, database
  <1>2. \A d \in Calls : /\ drain'[d].pc = IF d = c THEN "markSent" ELSE drain[d].pc
                         /\ drain'[d].ids = drain[d].ids
                         /\ d # c => drain[d].pc = "idle"
    BY <1>1 DEF TypeOK, OneDrain, Busy
  <1>3. /\ topic' \in [Pairs -> 0 .. MaxRows]
        /\ \A p \in Pairs :
              /\ topic'[p] # 0 => topic'[p] \in CommittedOf(p)
              /\ \A i \in RowsOf(p) \cap Sent : i <= topic'[p]
              /\ \A i \in drain[c].ids \cap RowsOf(p) :
                    topic'[p] \in drain[c].ids /\ i <= topic'[p]
    BY <1>1, DeliveredInOrder
  <1>4. TypeOK'
    <2>1. drain' \in [Calls -> [pc : {"idle", "find", "publish", "markSent", "stamp"},
                               ids : SUBSET (1 .. MaxRows)]]
      BY <1>1 DEF TypeOK
    <2> QED
      BY <1>1, <1>2, <1>3, <2>1 DEF TypeOK
  <1>5. OneDrain'
    BY <1>1, <1>2 DEF OneDrain, Busy
  <1>6. RowsInv'
    BY <1>1, RowsStay DEF RowsInv
  <1>7. TopicInv'
    <2>1. /\ Sent' = Sent
          /\ \A p \in Pairs : RowsOf(p)' = RowsOf(p) /\ CommittedOf(p)' = CommittedOf(p)
      BY <1>1 DEF CommittedOf, RowsOf, Committed, Pending, Sent, WithStatus, Ids
    <2> QED
      BY <1>3, <2>1 DEF TopicInv, TopicIsCommitted, OrderPreserved, Sent
  <1>8. BatchWaits'
    <2>1. Pending' = Pending
      BY <1>1 DEF Pending, WithStatus, Ids
    <2> QED
      BY <1>1, <1>2, <2>1 DEF BatchWaits
  <1>9. TopicEndsAtBatch'
    <2>1. ASSUME NEW i \in drain[c].ids
          PROVE  topic'[outbox[i].pair] \in drain[c].ids /\ i <= topic'[outbox[i].pair]
      <3>1. i \in Ids
        BY <1>1, StatusSets DEF BatchWaits
      <3>2. outbox[i].pair \in Pairs /\ i \in RowsOf(outbox[i].pair)
        BY <3>1, RowsTyped DEF RowsOf
      <3> QED
        BY <1>3, <3>2
    <2> QED
      BY <1>1, <1>2, <2>1 DEF TopicEndsAtBatch
  <1>10. StampsFollowSent'
    BY <1>1, <1>2 DEF StampsFollowSent, RowsOf, Sent, WithStatus, Ids
  <1> QED
    BY <1>4, <1>5, <1>6, <1>7, <1>8, <1>9, <1>10 DEF RowsInv, TopicInv

(***************************************************************************)
(* The whole batch becomes SENT: what waits for the same pairs is younger, *)
(* and the topic ends at the batch or behind it.                           *)
(***************************************************************************)
LEMMA MarkSentKeepsInv ==
    ASSUME OutboxInv, NEW c \in Calls, MarkSent(c)
    PROVE  OutboxInv'
  <1> USE DEF OutboxInv
  <1>0. PICK ids : ids = drain[c].ids
    OBVIOUS
  <1>1. /\ drain[c].pc = "markSent" /\ Mark(ids, "SENT")
        /\ drain' = [drain EXCEPT ![c].pc = "stamp"]
        /\ UNCHANGED <<published, stamped, draining, topic, faults>>
    BY <1>0 DEF MarkSent
  <1>2. \A d \in Calls : /\ drain'[d].pc = IF d = c THEN "stamp" ELSE "idle"
                         /\ drain'[d].ids = drain[d].ids
    BY <1>1 DEF TypeOK, OneDrain, Busy
  <1>3. /\ outbox' \in Seq(Row) /\ Len(outbox') <= MaxRows /\ Ids' = Ids
        /\ \A i \in Ids : /\ outbox'[i].pair = outbox[i].pair
                          /\ outbox'[i].quantity = outbox[i].quantity
                          /\ outbox'[i].status = IF i \in ids THEN "SENT" ELSE outbox[i].status
    <2>1. "SENT" \in Statuses
      BY DEF Statuses
    <2> QED
      BY <1>1, <2>1, MarkKeepsRows
  <1>4. ids \subseteq Pending /\ ids \subseteq Ids
    BY <1>0, <1>1, StatusSets DEF BatchWaits
  <1>5. /\ \A r : RowsOf(r)' = RowsOf(r)
        /\ Pending' = Pending \ ids /\ Sent' = Sent \cup ids /\ Committed' = Committed
    <2>1. "SENT" \in Statuses
      BY DEF Statuses
    <2>2. /\ \A r : RowsOf(r)' = RowsOf(r)
          /\ WithStatus("SENT")' = WithStatus("SENT") \cup (ids \cap Ids)
          /\ \A other : other # "SENT" => WithStatus(other)' = WithStatus(other) \ ids
      BY <1>1, <2>1, MarkKeepsPairs
    <2>3. Pending' = Pending \ ids /\ Sent' = Sent \cup ids
      BY <1>4, <2>2 DEF Pending, Sent
    <2>4. Committed' = Pending' \cup Sent' /\ Committed = Pending \cup Sent
      BY DEF Committed, Sent
    <2> QED
      BY <1>4, <2>2, <2>3, <2>4
  <1>6. \A r : CommittedOf(r)' = CommittedOf(r)
    BY <1>5 DEF CommittedOf
  <1>7. TypeOK'
    <2>1. drain' \in [Calls -> [pc : {"idle", "find", "publish", "markSent", "stamp"},
                               ids : SUBSET (1 .. MaxRows)]]
      BY <1>1 DEF TypeOK
    <2> QED
      BY <1>1, <1>2, <1>3, <2>1 DEF TypeOK, Row
  <1>8. OneDrain'
    BY <1>1, <1>2 DEF OneDrain, Busy
  <1>9. OpenRowIsYoungest'
    BY <1>3 DEF OpenRowIsYoungest
  <1>10. PublishedIsYoungest'
    <2> SUFFICES ASSUME NEW r \in Pairs, CommittedOf(r) # {}
                 PROVE  \E i \in CommittedOf(r) : /\ \A j \in CommittedOf(r) : j <= i
                                                  /\ published[r] = outbox'[i].quantity
      BY <1>1, <1>6 DEF PublishedIsYoungest
    <2>1. \A i \in CommittedOf(r) : outbox'[i].quantity = outbox[i].quantity
      BY <1>3, StatusSets
    <2> QED
      BY <2>1 DEF PublishedIsYoungest
  <1>11. OlderIsSentFirst'
    <2> SUFFICES ASSUME NEW i \in Ids, NEW j \in Ids, outbox[i].pair = outbox[j].pair,
                        outbox'[i].status = "SENT", outbox'[j].status = "PENDING"
                 PROVE  i < j
      BY <1>3 DEF OlderIsSentFirst
    <2>1. j \notin ids /\ outbox[j].status = "PENDING" /\ j \in Pending
      BY <1>3, StatusSets
    <2>2. CASE i \in ids
      <3>1. ~(j < i)
        BY <1>0, <1>1, <2>1, <2>2 DEF BatchWaits
      <3>2. i # j /\ i \in Int /\ j \in Int
        BY <2>1, <2>2, RowsTyped
      <3> QED
        BY <3>1, <3>2
    <2>3. CASE i \notin ids
      BY <1>3, <2>1, <2>3 DEF OlderIsSentFirst
    <2> QED
      BY <2>2, <2>3
  <1>12. BatchWaits' /\ TopicEndsAtBatch'
    BY <1>2 DEF BatchWaits, TopicEndsAtBatch
  <1>13. StampsFollowSent'
    BY <1>0, <1>1, <1>2, <1>5 DEF StampsFollowSent
  <1>14. TopicIsCommitted'
    BY <1>1, <1>6 DEF TopicIsCommitted
  <1>15. OrderPreserved'
    <2> SUFFICES ASSUME NEW p \in Pairs, NEW i \in RowsOf(p), i \in Sent \cup ids
                 PROVE  i <= topic[p]
      BY <1>1, <1>5 DEF OrderPreserved, Sent
    <2>1. CASE i \in Sent
      BY <2>1 DEF OrderPreserved, Sent
    <2>2. CASE i \in ids
      BY <1>0, <1>1, <2>2, StatusSets DEF TopicEndsAtBatch, RowsOf
    <2> QED
      BY <2>1, <2>2
  <1> QED
    BY <1>7, <1>8, <1>9, <1>10, <1>11, <1>12, <1>13, <1>14, <1>15

\* A failed send may have reached any of the pairs; the rows still wait.
LEMMA PublishFailsKeepsInv ==
    ASSUME OutboxInv, NEW c \in Calls, PublishFails(c)
    PROVE  OutboxInv'
  <1>1. PICK pairs \in SUBSET Pairs : Delivered(drain[c].ids, pairs)
    BY DEF PublishFails
  <1>2. /\ drain[c].pc = "publish" /\ Busy(c) /\ Leave(c) /\ faults' \in 0 .. MaxFaults
        /\ UNCHANGED <<outbox, published, stamped>>
    BY FaultIsCounted DEF PublishFails, Busy, database, OutboxInv
  <1>3. /\ topic' \in [Pairs -> 0 .. MaxRows]
        /\ \A p \in Pairs : /\ topic'[p] # 0 => topic'[p] \in CommittedOf(p)
                            /\ \A i \in RowsOf(p) \cap Sent : i <= topic'[p]
    BY <1>1, <1>2, DeliveredInOrder
  <1>4. TopicInv'
    <2>1. /\ Sent' = Sent
          /\ \A p \in Pairs : RowsOf(p)' = RowsOf(p) /\ CommittedOf(p)' = CommittedOf(p)
      BY <1>2 DEF CommittedOf, RowsOf, Committed, Pending, Sent, WithStatus, Ids
    <2> QED
      BY <1>3, <2>1 DEF TopicInv, TopicIsCommitted, OrderPreserved, Sent
  <1>5. /\ stamped' \in [Pairs -> BOOLEAN]
        /\ \A p \in Pairs : stamped'[p] => RowsOf(p) \cap Sent # {}
    BY <1>2 DEF OutboxInv, TypeOK, StampsFollowSent
  <1> QED
    BY <1>2, <1>3, <1>4, <1>5, LeaveKeepsInv

\* Only pairs of rows that were sent are stamped.
LEMMA MarkPublishedKeepsInv ==
    ASSUME OutboxInv, NEW c \in Calls, MarkPublished(c)
    PROVE  OutboxInv'
  <1>1. /\ drain[c].pc = "stamp" /\ Busy(c) /\ Leave(c)
        /\ stamped' = [p \in Pairs |-> stamped[p] \/ drain[c].ids \cap RowsOf(p) # {}]
        /\ UNCHANGED <<outbox, published, topic, faults>>
    BY DEF MarkPublished, Busy
  <1>2. TopicInv' /\ topic' \in [Pairs -> 0 .. MaxRows] /\ faults' \in 0 .. MaxFaults
    BY <1>1, TopicStays DEF OutboxInv, TopicInv, TypeOK
  <1>3. drain[c].ids \subseteq Sent
    BY <1>1 DEF OutboxInv, StampsFollowSent
  <1>4. stamped' \in [Pairs -> BOOLEAN]
    <2>1. \A p \in Pairs : stamped[p] \in BOOLEAN
      BY DEF OutboxInv, TypeOK
    <2> QED
      BY <1>1, <2>1
  <1>5. ASSUME NEW p \in Pairs, stamped'[p] PROVE RowsOf(p) \cap Sent # {}
    <2>1. stamped[p] \/ drain[c].ids \cap RowsOf(p) # {}
      BY <1>1, <1>5
    <2> QED
      BY <1>3, <2>1 DEF OutboxInv, StampsFollowSent
  <1> QED
    BY <1>1, <1>2, <1>4, <1>5, LeaveKeepsInv

\* A drain that ends early or finds nothing has done nothing.
LEMMA ReturnKeepsInv ==
    ASSUME OutboxInv, NEW c \in Calls, StatementFails(c) \/ NothingPending(c)
    PROVE  OutboxInv'
  <1>1. /\ Busy(c) /\ Leave(c) /\ faults' \in 0 .. MaxFaults
        /\ UNCHANGED <<outbox, published, stamped, topic>>
    <2>1. CASE StatementFails(c)
      BY <2>1, FaultIsCounted DEF StatementFails, Busy, database, OutboxInv
    <2>2. CASE NothingPending(c)
      BY <2>2 DEF NothingPending, Busy, database, OutboxInv, TypeOK
    <2> QED
      BY <2>1, <2>2
  <1>2. TopicInv' /\ topic' \in [Pairs -> 0 .. MaxRows]
    BY <1>1, TopicStays DEF OutboxInv, TopicInv, TypeOK
  <1>3. /\ stamped' \in [Pairs -> BOOLEAN]
        /\ \A p \in Pairs : stamped'[p] => RowsOf(p) \cap Sent # {}
    BY <1>1 DEF OutboxInv, TypeOK, StampsFollowSent
  <1> QED
    BY <1>1, <1>2, <1>3, LeaveKeepsInv

\* Nothing happens.
LEMMA StutterKeepsInv ==
    ASSUME OutboxInv, UNCHANGED vars
    PROVE  OutboxInv'
  <1>1. UNCHANGED <<outbox, published, stamped, draining, drain, topic, faults>>
    BY DEF vars, database
  <1>2. TypeOK' /\ OneDrain'
    BY <1>1 DEF OutboxInv, TypeOK, OneDrain, Busy
  <1>3. RowsInv' /\ TopicInv'
    BY <1>1, RowsStay, TopicStays DEF OutboxInv, RowsInv, TopicInv
  <1>4. BatchWaits' /\ TopicEndsAtBatch' /\ StampsFollowSent'
    BY <1>1 DEF OutboxInv, BatchWaits, TopicEndsAtBatch, StampsFollowSent, RowsOf, Pending, Sent,
                WithStatus, Ids
  <1> QED
    BY <1>2, <1>3, <1>4 DEF OutboxInv, RowsInv, TopicInv

LEMMA OutboxKeepsInv ==
    ASSUME OutboxInv, [Next]_vars
    PROVE  OutboxInv'
  <1>1. ASSUME NEW p \in Pairs, NEW q \in Quantities, EnqueuePublication(p, q) PROVE OutboxInv'
    BY <1>1, EnqueueKeepsInv
  <1>2. ASSUME NEW i \in Ids, CommitCalculation(i) PROVE OutboxInv'
    BY <1>2, CommitKeepsInv
  <1>3. ASSUME NEW i \in Ids, RollBack(i) PROVE OutboxInv'
    <2>1. /\ {i} \in SUBSET WithStatus("UNCOMMITTED") /\ Mark({i}, "ROLLED BACK")
          /\ UNCHANGED <<published, stamped, topic, drain, draining>>
          /\ faults' \in 0 .. MaxFaults
      BY <1>3, FaultIsCounted DEF RollBack, WithStatus, OutboxInv
    <2> QED
      BY <2>1, DiscardKeepsInv
  <1>4. CASE Crash
    <2>1. /\ Mark(WithStatus("UNCOMMITTED"), "ROLLED BACK")
          /\ UNCHANGED <<published, stamped, topic>>
          /\ drain' = [c \in Calls |-> NoDrain] /\ draining' = FALSE
          /\ faults' \in 0 .. MaxFaults
      BY <1>4, FaultIsCounted DEF Crash, OutboxInv
    <2> QED
      BY <2>1, DiscardKeepsInv
  <1>5. ASSUME NEW c \in Calls, PublishPending(c) PROVE OutboxInv'
    BY <1>5, BeginKeepsInv
  <1>6. ASSUME NEW c \in Calls, Step(c) PROVE OutboxInv'
    BY <1>6, FindKeepsInv, ReturnKeepsInv, PublishKeepsInv, MarkSentKeepsInv, MarkPublishedKeepsInv
    DEF Step
  <1>7. ASSUME NEW c \in Calls, PublishFails(c) \/ StatementFails(c) PROVE OutboxInv'
    BY <1>7, PublishFailsKeepsInv, ReturnKeepsInv
  <1>8. CASE UNCHANGED vars
    BY <1>8, StutterKeepsInv
  <1> QED
    BY <1>1, <1>2, <1>3, <1>4, <1>5, <1>6, <1>7, <1>8 DEF Next

LEMMA OutboxStartsInInv ==
    ASSUME Init
    PROVE  OutboxInv
  <1>1. Ids = {}
    BY DEF Init, Ids
  <1>2. TypeOK
    <2>1. outbox \in Seq([pair : Pairs, quantity : Quantities, status : Statuses]) /\ Len(outbox) <= MaxRows
      BY BoundsAssumption DEF Init
    <2>2. /\ drain \in [Calls -> [pc : {"idle", "find", "publish", "markSent", "stamp"},
                                  ids : SUBSET (1 .. MaxRows)]]
          /\ \A c \in Calls : Cardinality(drain[c].ids) <= BatchSize
      <3>1. drain = [c \in Calls |-> NoDrain]
        BY DEF Init
      <3>2. \A c \in Calls : drain[c] = NoDrain
        BY <3>1
      <3> QED
        BY <3>1, <3>2, NoDrainTyped
    <2>3. /\ published \in [Pairs -> Quantities \cup {None}] /\ stamped \in [Pairs -> BOOLEAN]
          /\ draining \in BOOLEAN /\ topic \in [Pairs -> 0 .. MaxRows] /\ faults \in 0 .. MaxFaults
      <3>1. 0 \in 0 .. MaxRows /\ 0 \in 0 .. MaxFaults
        BY BoundsAssumption
      <3> QED
        BY <3>1 DEF Init
    <2> QED
      BY <2>1, <2>2, <2>3 DEF TypeOK
  <1>3. OneDrain /\ BatchWaits /\ TopicEndsAtBatch
    BY NoDrainTyped DEF Init, OneDrain, Busy, BatchWaits, TopicEndsAtBatch
  <1>4. OpenRowIsYoungest /\ OlderIsSentFirst
    BY <1>1 DEF OpenRowIsYoungest, OlderIsSentFirst
  <1>5. PublishedIsYoungest /\ TopicIsCommitted /\ OrderPreserved
    BY <1>1 DEF Init, PublishedIsYoungest, TopicIsCommitted, OrderPreserved, CommittedOf, RowsOf
  <1>6. StampsFollowSent
    BY NoDrainTyped DEF Init, StampsFollowSent
  <1> QED
    BY <1>2, <1>3, <1>4, <1>5, <1>6 DEF OutboxInv

-----------------------------------------------------------------------------
(* What the outbox keeps for a reader *)

\* Rows are only added, committed and sent: whatever a reader saw is still there.
RowsGrow ==
    /\ Ids \subseteq Ids'
    /\ \A i \in Ids : outbox'[i].pair = outbox[i].pair /\ outbox'[i].quantity = outbox[i].quantity
    /\ Committed \subseteq Committed'
    /\ Sent \subseteq Sent'

LEMMA MarkGrows ==
    ASSUME TypeOK, NEW ids, NEW status \in Statuses, Mark(ids, status),
           \/ ids \subseteq WithStatus("UNCOMMITTED")
           \/ ids \subseteq Pending /\ status = "SENT"
    PROVE  RowsGrow
  <1>1. /\ Ids' = Ids
        /\ \A i \in Ids : outbox'[i].pair = outbox[i].pair /\ outbox'[i].quantity = outbox[i].quantity
    BY MarkKeepsRows
  <1>2. /\ WithStatus(status)' = WithStatus(status) \cup (ids \cap Ids)
        /\ \A other : other # status => WithStatus(other)' = WithStatus(other) \ ids
    BY MarkKeepsPairs
  <1>3. Committed = Pending \cup Sent /\ Committed' = Pending' \cup Sent'
        /\ Pending \subseteq Ids /\ Sent \subseteq Ids /\ Pending \cap Sent = {}
    BY StatusSets DEF Committed, Sent
  <1>4. CASE ids \subseteq WithStatus("UNCOMMITTED")
    <2>1. ids \cap WithStatus("PENDING") = {} /\ ids \cap WithStatus("SENT") = {}
      BY <1>4 DEF WithStatus
    <2>2. WithStatus("PENDING") \subseteq WithStatus("PENDING")'
      BY <1>2, <2>1
    <2>3. WithStatus("SENT") \subseteq WithStatus("SENT")'
      BY <1>2, <2>1
    <2>4. Pending \subseteq Pending' /\ Sent \subseteq Sent'
      BY <2>2, <2>3 DEF Pending, Sent
    <2> QED
      BY <1>1, <1>3, <2>4 DEF RowsGrow
  <1>5. CASE ids \subseteq Pending /\ status = "SENT"
    <2>1. Sent' = Sent \cup (ids \cap Ids) /\ Pending' = Pending \ ids
      BY <1>2, <1>5 DEF Pending, Sent
    <2> QED
      BY <1>1, <1>3, <1>5, <2>1 DEF RowsGrow
  <1> QED
    BY <1>4, <1>5

LEMMA RowsOnlyGrow ==
    ASSUME OutboxInv, [Next]_vars
    PROVE  RowsGrow
  <1> USE DEF OutboxInv
  <1>1. CASE UNCHANGED outbox
    BY <1>1 DEF RowsGrow, Committed, Pending, Sent, WithStatus, Ids
  <1>2. ASSUME NEW p \in Pairs, NEW q \in Quantities, EnqueuePublication(p, q) PROVE RowsGrow
    <2>1. Ids \subseteq Ids' /\ \A i \in Ids : outbox'[i] = outbox[i]
      BY <1>2, AppendKeepsRows
    <2> QED
      BY <2>1 DEF RowsGrow, Committed, Pending, Sent, WithStatus
  <1>3. ASSUME NEW i \in Ids, CommitCalculation(i) PROVE RowsGrow
    <2>1. {i} \subseteq WithStatus("UNCOMMITTED") /\ Mark({i}, "PENDING") /\ "PENDING" \in Statuses
      BY <1>3 DEF CommitCalculation, WithStatus, Statuses
    <2> QED
      BY <2>1, MarkGrows
  <1>4. ASSUME NEW i \in Ids, RollBack(i) PROVE RowsGrow
    <2>1. {i} \subseteq WithStatus("UNCOMMITTED") /\ Mark({i}, "ROLLED BACK")
          /\ "ROLLED BACK" \in Statuses
      BY <1>4 DEF RollBack, WithStatus, Statuses
    <2> QED
      BY <2>1, MarkGrows
  <1>5. CASE Crash
    <2>1. Mark(WithStatus("UNCOMMITTED"), "ROLLED BACK") /\ "ROLLED BACK" \in Statuses
      BY <1>5 DEF Crash, Statuses
    <2> QED
      BY <2>1, MarkGrows
  <1>6. ASSUME NEW c \in Calls, MarkSent(c) PROVE RowsGrow
    <2>1. drain[c].ids \subseteq Pending /\ Mark(drain[c].ids, "SENT") /\ "SENT" \in Statuses
      BY <1>6 DEF MarkSent, BatchWaits, Statuses
    <2> QED
      BY <2>1, MarkGrows
  <1>7. ASSUME NEW c \in Calls,
               \/ PublishPending(c) \/ FindPending(c) \/ NothingPending(c) \/ Publish(c)
               \/ MarkPublished(c) \/ PublishFails(c) \/ StatementFails(c)
        PROVE  UNCHANGED outbox
    BY <1>7 DEF PublishPending, FindPending, NothingPending, Publish, MarkPublished, PublishFails,
                StatementFails, database
  <1>8. CASE UNCHANGED vars
    BY <1>1, <1>8 DEF vars, database
  <1> QED
    BY <1>1, <1>2, <1>3, <1>4, <1>5, <1>6, <1>7, <1>8 DEF Next, Step

(***************************************************************************)
(* A list of the newest rows that is not full has every row: otherwise the *)
(* newest row left out has a full list of newer ones.                      *)
(***************************************************************************)
LEMMA NotFullIsComplete ==
    ASSUME NEW n \in Nat, NEW rows \in SUBSET (1 .. n), Cardinality(Recent(rows)) # RecentLimit
    PROVE  Recent(rows) = rows
  <1> SUFFICES ASSUME Recent(rows) # rows PROVE FALSE
    OBVIOUS
  <1> DEFINE Newer(i) == {j \in rows : j > i}
             Left == rows \ Recent(rows)
  <1>1. /\ RecentLimit \in Nat \ {0} /\ rows \subseteq Nat
        /\ IsFiniteSet(rows) /\ Recent(rows) \subseteq rows
    <2>1. IsFiniteSet(1 .. n)
      BY FS_Interval
    <2>2. IsFiniteSet(rows)
      BY <2>1, FS_Subset
    <2>3. rows \subseteq Nat /\ Recent(rows) \subseteq rows
      BY DEF Recent
    <2> QED
      BY <2>2, <2>3, TraceAssumption
  <1>2. /\ IsFiniteSet(Recent(rows)) /\ Cardinality(Recent(rows)) \in Nat
        /\ \A i : IsFiniteSet(Newer(i)) /\ Cardinality(Newer(i)) \in Nat
    <2>1. \A S \in SUBSET rows : IsFiniteSet(S) /\ Cardinality(S) \in Nat
      BY <1>1, FS_Subset, FS_CardinalityType
    <2> QED
      BY <1>1, <2>1
  <1>3. \A i \in rows : i \in Recent(rows) <=> Cardinality(Newer(i)) < RecentLimit
    BY DEF Recent
  <1>4. PICK top \in Left : \A i \in Left : i <= top
    <2>1. Left # {} /\ Left \subseteq Nat
      BY <1>1
    <2>2. \A i \in Left : i <= n
      OBVIOUS
    <2> HIDE DEF Left
    <2> QED
      BY <2>1, <2>2, GreatestOfBounded
  <1>5. Cardinality(Recent(rows)) >= RecentLimit
    <2>1. top \in rows /\ ~(Cardinality(Newer(top)) < RecentLimit)
      BY <1>3, <1>4
    <2>2. ASSUME NEW j \in rows, j > top PROVE j \in Recent(rows)
      <3>1. j \in Nat /\ top \in Nat
        BY <1>1, <1>4
      <3>2. j \notin Left
        BY <1>4, <2>2, <3>1
      <3> QED
        BY <3>2
    <2>3. Cardinality(Newer(top)) <= Cardinality(Recent(rows))
      BY <1>2, <2>2, FS_Subset
    <2> QED
      BY <1>1, <1>2, <2>1, <2>3
  <1>6. PICK low \in Recent(rows) : \A i \in Recent(rows) : low <= i
    <2>1. Recent(rows) # {}
      BY <1>1, <1>5, FS_EmptySet
    <2> QED
      BY <1>1, <2>1, LeastOfNaturals
  <1>7. Cardinality(Recent(rows)) <= RecentLimit
    <2>1. low \in rows /\ Cardinality(Newer(low)) < RecentLimit
      BY <1>1, <1>3, <1>6
    <2>2. ASSUME NEW j \in Recent(rows) PROVE j \in Newer(low) \cup {low}
      <3>1. j \in Nat /\ low \in Nat /\ j \in rows /\ low <= j
        BY <1>1, <1>6
      <3> QED
        BY <3>1
    <2>3. low \notin Newer(low)
      BY <1>1, <2>1
    <2>4. /\ IsFiniteSet(Newer(low) \cup {low})
          /\ Cardinality(Newer(low) \cup {low}) = Cardinality(Newer(low)) + 1
      BY <1>2, <2>3, FS_AddElement
    <2>5. Cardinality(Recent(rows)) <= Cardinality(Newer(low) \cup {low})
      BY <2>2, <2>4, FS_Subset
    <2> HIDE DEF Newer
    <2> QED
      BY <1>1, <1>2, <2>1, <2>4, <2>5
  <1> QED
    BY <1>1, <1>2, <1>5, <1>7

-----------------------------------------------------------------------------
(* The steps of a trace *)

\* What a statement that is read last leads to.
LEMMA AfterRead ==
    ASSUME TraceTypeOK, PhaseOfReads, NEW t \in Traces, NEW what \in trace.unread,
           t.status = trace.status, t.unread = trace.unread,
           trace' = HasRead(t, what)
    PROVE  /\ trace' \in Traces
           /\ PhaseOfReads'
           /\ trace'.stocks = t.stocks /\ trace'.calculations = t.calculations
           /\ trace'.events = t.events /\ trace'.outbox = t.outbox
           /\ \A list \in Lists : HasList(list)' => HasList(list) \/ list = what
           /\ what \in Includes => trace.status = "variant"
           /\ what \in Lists => trace.status = "lists"
  <1> DEFINE left == t.unread \ {what}
  <1>1. trace.status \in {"variant", "lists"}
    BY DEF PhaseOfReads, TraceTypeOK, Traces
  <1>2. /\ what \in Includes => trace.status = "variant"
        /\ what \in Lists => trace.status = "lists"
    BY <1>1 DEF PhaseOfReads, Includes, Lists
  <1>3. CASE left # {}
    <2>1. trace' = [t EXCEPT !.unread = left]
      BY <1>3 DEF HasRead
    <2> QED
      BY <1>1, <1>2, <2>1 DEF PhaseOfReads, Traces, HasList
  <1>4. CASE left = {} /\ t.status = "variant"
    <2>1. trace' = [t EXCEPT !.status = "lists", !.unread = Lists]
      BY <1>4 DEF HasRead
    <2> QED
      BY <1>2, <2>1 DEF PhaseOfReads, Traces, HasList
  <1>5. CASE left = {} /\ t.status = "lists"
    <2>1. trace' = [t EXCEPT !.status = "answered", !.unread = {}]
      BY <1>5 DEF HasRead
    <2>2. \A list \in Lists : list \notin trace.unread \/ list = what
      BY <1>5
    <2> QED
      BY <1>2, <1>5, <2>1, <2>2 DEF PhaseOfReads, Traces, HasList
  <1> QED
    BY <1>1, <1>3, <1>4, <1>5

\* A trace nobody has begun says nothing.
LEMMA NoTraceHolds ==
    /\ NoTrace \in Traces
    /\ trace = NoTrace => PhaseOfReads /\ IncludesHaveRows /\ ListsHaveRows
  <1>1. /\ NoTrace.status = "idle" /\ NoTrace.unread = {} /\ NoTrace.stocks = {}
        /\ NoTrace.events.finished = {} /\ NoTrace.outbox.finished = {}
        /\ \A p \in Traced : /\ NoTrace.calculations[p].publishedQuantity = None
                             /\ NoTrace.calculations[p].delivered = FALSE
    BY DEF NoTrace, Nothing
  <1>2. NoTrace \in Traces
    <2>1. Nothing \in Shown
      BY DEF Nothing, Shown
    <2>2. [p \in Traced |-> [publishedQuantity |-> None, delivered |-> FALSE]]
             \in [Traced -> Calculations]
      BY DEF Calculations
    <2> QED
      BY <2>1, <2>2 DEF NoTrace, Traces
  <1>3. trace = NoTrace => PhaseOfReads /\ IncludesHaveRows /\ ListsHaveRows
    BY <1>1 DEF PhaseOfReads, IncludesHaveRows, ListsHaveRows, HasList
  <1> QED
    BY <1>2, <1>3

\* The inbox rows are numbered from one.
LEMMA EventsTyped ==
    ASSUME InboxInv
    PROVE  /\ Events = 1 .. Len(events) /\ Len(events) \in Nat
           /\ Decided \subseteq Events /\ applied \subseteq Events
  BY DEF InboxInv, Events, Decided

\* Writers take nothing away from what a trace has read.
LEMMA WritersKeepTrace ==
    ASSUME TraceInv, RowsGrow, applied \subseteq applied', UNCHANGED trace
    PROVE  PhaseOfReads' /\ IncludesHaveRows' /\ ListsHaveRows'
  <1>1. ASSUME NEW p \in Traced
        PROVE  /\ RowsOf(p) \subseteq RowsOf(p)'
               /\ CommittedOf(p) \subseteq CommittedOf(p)'
               /\ \A i \in RowsOf(p) : outbox'[i].quantity = outbox[i].quantity
    <2>1. RowsOf(p) \subseteq RowsOf(p)'
      BY DEF RowsOf, RowsGrow
    <2> QED
      BY <2>1 DEF RowsGrow, CommittedOf, RowsOf
  <1>3. PhaseOfReads'
    BY DEF TraceInv, PhaseOfReads
  <1>4. IncludesHaveRows'
    <2>1. trace.stocks \subseteq applied'
      BY DEF TraceInv, IncludesHaveRows
    <2>2. ASSUME NEW p \in Traced
          PROVE  /\ trace.calculations[p].publishedQuantity # None =>
                      \E i \in CommittedOf(p)' :
                         outbox'[i].quantity = trace.calculations[p].publishedQuantity
                 /\ trace.calculations[p].delivered => RowsOf(p)' \cap Sent' # {}
      <3>1. CommittedOf(p) \subseteq RowsOf(p) /\ Sent \subseteq Sent'
        BY DEF CommittedOf, RowsGrow
      <3> QED
        BY <1>1, <3>1 DEF TraceInv, IncludesHaveRows
    <2> QED
      BY <2>1, <2>2 DEF IncludesHaveRows
  <1>5. ListsHaveRows'
    <2>1. Sent \subseteq Sent' /\ \A list : HasList(list)' <=> HasList(list)
      BY DEF RowsGrow, HasList
    <2>2. ASSUME NEW p \in Traced, HasList("outbox"), ~Full(trace.outbox)
          PROVE  /\ trace.calculations[p].publishedQuantity # None =>
                      \E i \in trace.outbox.rows \cap RowsOf(p)' :
                         outbox'[i].quantity = trace.calculations[p].publishedQuantity
                 /\ trace.calculations[p].delivered =>
                      trace.outbox.finished \cap trace.outbox.rows \cap RowsOf(p)' # {}
      BY <1>1, <2>2 DEF TraceInv, ListsHaveRows
    <2>3. /\ HasList("events") /\ ~Full(trace.events) => trace.stocks \subseteq trace.events.finished
          /\ trace.outbox.finished \subseteq Sent
      BY DEF TraceInv, ListsHaveRows
    <2>4. trace' = trace /\ \A list : Full(list)' <=> Full(list)
      BY DEF Full
    <2> QED
      BY <2>1, <2>2, <2>3, <2>4 DEF ListsHaveRows, Full
  <1> QED
    BY <1>3, <1>4, <1>5

\* A row is decided once, and keeps its effect whatever it is marked as.
LEMMA InboxGrows ==
    ASSUME InboxInv, InboxStep
    PROVE  InboxInv' /\ applied \subseteq applied'
  <1> DEFINE Status == {"PENDING", "PROCESSED", "FAILED"}
  <1>1. /\ events \in Seq(Status) /\ Len(events) <= MaxEvents
        /\ Events = 1 .. Len(events) /\ Len(events) \in Nat
        /\ unheard \subseteq applied /\ applied \subseteq Decided
    BY EventsTyped DEF InboxInv
  <1>2. CASE RecordEvent
    <2>1. /\ Len(events) < MaxEvents /\ events' = Append(events, "PENDING")
          /\ UNCHANGED <<applied, unheard>>
      BY <1>2 DEF RecordEvent
    <2>2. events' \in Seq(Status) /\ Len(events') = Len(events) + 1
          /\ \A e \in 1 .. Len(events) : events'[e] = events[e]
      BY <1>1, <2>1
    <2>3. Events' = 1 .. Len(events) + 1
      BY <1>1, <2>2 DEF Events
    <2>4. Decided \subseteq Decided'
      BY <1>1, <2>2, <2>3 DEF Decided
    <2> QED
      BY <1>1, <2>1, <2>2, <2>4, TraceAssumption DEF InboxInv
  <1>3. ASSUME NEW e \in Events, NEW mark \in Status \ {"PENDING"},
               events' = [events EXCEPT ![e] = mark]
        PROVE  /\ events' \in Seq(Status) /\ Len(events') = Len(events)
               /\ Decided' = Decided \cup {e}
    <2>1. events' \in Seq(Status) /\ Len(events') = Len(events)
          /\ \A d \in Events : events'[d] = IF d = e THEN mark ELSE events[d]
      BY <1>1, <1>3
    <2>2. Events' = Events
      BY <1>3 DEF Events
    <2> QED
      BY <2>1, <2>2 DEF Decided
  <1>4. ASSUME NEW e \in Events, Commit(e), unheard' \in {unheard, unheard \cup {e}}
        PROVE  InboxInv' /\ applied \subseteq applied'
    <2>1. events' = [events EXCEPT ![e] = "PROCESSED"] /\ applied' = applied \cup {e}
      BY <1>4 DEF Commit
    <2>2. events' \in Seq(Status) /\ Len(events') = Len(events) /\ Decided' = Decided \cup {e}
      BY <1>3, <2>1
    <2> QED
      BY <1>1, <1>4, <2>1, <2>2 DEF InboxInv
  <1>5. ASSUME NEW e \in Events, ParkEvent(e)
        PROVE  InboxInv' /\ applied \subseteq applied'
    <2>1. /\ events' = [events EXCEPT ![e] = "FAILED"]
          /\ applied' = applied /\ unheard' = unheard \ {e}
      BY <1>5 DEF ParkEvent
    <2>2. events' \in Seq(Status) /\ Len(events') = Len(events) /\ Decided' = Decided \cup {e}
      BY <1>3, <2>1
    <2> QED
      BY <1>1, <2>1, <2>2 DEF InboxInv
  <1> QED
    BY <1>2, <1>4, <1>5 DEF InboxStep, ApplyEvent, ApplyReplyLost

LEMMA WriteKeepsInv ==
    ASSUME TraceInv, Write
    PROVE  TraceInv'
  <1>1. OutboxInv' /\ RowsGrow /\ InboxInv' /\ applied \subseteq applied' /\ UNCHANGED trace
    <2>1. CASE OutboxStep
      <3>1. OutboxInv' /\ RowsGrow /\ UNCHANGED <<inboxVars, trace>>
        BY <2>1, OutboxKeepsInv, RowsOnlyGrow DEF OutboxStep, TraceInv
      <3> QED
        BY <3>1 DEF TraceInv, InboxInv, inboxVars, Decided, Events
    <2>2. CASE InboxStep
      <3>1. UNCHANGED <<vars, trace>>
        BY <2>2 DEF InboxStep, RecordEvent, ApplyEvent, ApplyReplyLost, ParkEvent
      <3>2. OutboxInv' /\ RowsGrow
        BY <3>1, StutterKeepsInv, RowsOnlyGrow DEF TraceInv
      <3> QED
        BY <2>2, <3>1, <3>2, InboxGrows DEF TraceInv
    <2> QED
      BY <2>1, <2>2 DEF Write
  <1>2. PhaseOfReads' /\ IncludesHaveRows' /\ ListsHaveRows'
    BY <1>1, WritersKeepTrace
  <1>3. applied' \subseteq Events'
    BY <1>1 DEF InboxInv, Decided
  <1>4. TraceTypeOK'
    BY <1>1, <1>3 DEF TraceInv, TraceTypeOK, OutboxInv, InboxInv
  <1> QED
    BY <1>1, <1>2, <1>4 DEF TraceInv

\* A read of the outbox's rows takes committed ones.
LEMMA RecentTyped ==
    ASSUME TraceInv
    PROVE  /\ Recent(Events) \subseteq 1 .. MaxRows + MaxEvents
           /\ Recent(Committed) \subseteq 1 .. MaxRows + MaxEvents
           /\ Committed \subseteq 1 .. MaxRows /\ MaxRows \in Nat
           /\ Events = 1 .. Len(events) /\ Len(events) \in Nat
           /\ applied \subseteq 1 .. MaxEvents
  <1>1. /\ Events = 1 .. Len(events) /\ Len(events) \in Nat /\ applied \subseteq Events
        /\ Len(events) <= MaxEvents
    BY EventsTyped DEF TraceInv, InboxInv
  <1>2. Committed \subseteq 1 .. MaxRows
    BY StatusSets, RowsTyped DEF TraceInv, OutboxInv
  <1>3. Recent(Events) \subseteq Events /\ Recent(Committed) \subseteq Committed
    BY DEF Recent
  <1>4. MaxRows \in Nat /\ MaxEvents \in Nat
    BY BoundsAssumption, TraceAssumption
  <1>5. Events \subseteq 1 .. MaxEvents
    BY <1>1, <1>4
  <1>6. 1 .. MaxEvents \subseteq 1 .. MaxRows + MaxEvents /\ 1 .. MaxRows \subseteq 1 .. MaxRows + MaxEvents
    BY <1>4
  <1> QED
    BY <1>1, <1>2, <1>3, <1>4, <1>5, <1>6

\* While a trace is read the tables stand still.
LEMMA TablesStay ==
    ASSUME TraceInv, UNCHANGED <<vars, inboxVars>>
    PROVE  /\ OutboxInv' /\ applied' = applied /\ Sent' = Sent /\ UNCHANGED outbox
           /\ \A p : RowsOf(p)' = RowsOf(p) /\ CommittedOf(p)' = CommittedOf(p)
           /\ TypeOK' /\ InboxInv' /\ applied' \subseteq Events'
  <1>1. OutboxInv'
    BY StutterKeepsInv DEF TraceInv
  <1>2. UNCHANGED outbox
    BY DEF vars, database
  <1>3. InboxInv' /\ applied' = applied /\ applied' \subseteq Events'
    BY DEF TraceInv, InboxInv, inboxVars, Decided, Events
  <1> QED
    BY <1>1, <1>2, <1>3 DEF OutboxInv, TraceInv, TraceTypeOK, Sent, WithStatus, RowsOf,
                      CommittedOf, Committed, Pending, Ids

(***************************************************************************)
(* The shop lines rest on events that are applied, the numbers on rows     *)
(* that are committed, the delivery times on rows that are sent.           *)
(***************************************************************************)
LEMMA ReadIncludesKeepsInv ==
    ASSUME TraceInv, ReadStocks \/ ReadEcomStocks
    PROVE  TraceInv'
  <1>1. /\ OutboxInv' /\ applied' = applied /\ Sent' = Sent /\ UNCHANGED outbox
        /\ \A p : RowsOf(p)' = RowsOf(p) /\ CommittedOf(p)' = CommittedOf(p)
        /\ TypeOK' /\ InboxInv' /\ applied' \subseteq Events'
    BY TablesStay DEF ReadStocks, ReadEcomStocks
  <1>2. trace \in Traces /\ TraceTypeOK /\ PhaseOfReads
    BY DEF TraceInv, TraceTypeOK
  <1>3. PICK t \in Traces, what \in Includes \cap trace.unread :
           /\ t.status = trace.status /\ t.unread = trace.unread
           /\ t.events = trace.events /\ t.outbox = trace.outbox
           /\ trace' = HasRead(t, what)
           /\ t.stocks \subseteq applied
           /\ \A p \in Traced :
                 /\ t.calculations[p].publishedQuantity # None =>
                       \E i \in CommittedOf(p) :
                          outbox[i].quantity = t.calculations[p].publishedQuantity
                 /\ t.calculations[p].delivered => RowsOf(p) \cap Sent # {}
    <2>1. CASE ReadStocks
      <3> DEFINE u == [trace EXCEPT !.stocks = applied]
      <3>1. u \in Traces
        BY <1>2, RecentTyped DEF Traces
      <3>2. "stocks" \in Includes \cap trace.unread /\ trace' = HasRead(u, "stocks")
        BY <2>1 DEF ReadStocks, Includes
      <3>3. /\ u.status = trace.status /\ u.unread = trace.unread /\ u.events = trace.events
            /\ u.outbox = trace.outbox /\ u.stocks = applied
            /\ u.calculations = trace.calculations
        BY <1>2 DEF Traces
      <3> HIDE DEF u
      <3> QED
        BY <3>1, <3>2, <3>3 DEF TraceInv, IncludesHaveRows
    <2>2. CASE ReadEcomStocks
      <3> DEFINE read == [p \in Traced |-> [publishedQuantity |-> published[p],
                                             delivered |-> stamped[p]]]
                 u == [trace EXCEPT !.calculations = read]
      <3>1. read \in [Traced -> Calculations]
        BY TraceAssumption DEF TraceInv, OutboxInv, TypeOK, Calculations
      <3>2. "ecomStocks" \in Includes \cap trace.unread /\ trace' = HasRead(u, "ecomStocks")
        BY <2>2 DEF ReadEcomStocks, Includes
      <3>3. \A p \in Traced :
               /\ p \in Pairs
               /\ read[p].publishedQuantity = published[p] /\ read[p].delivered = stamped[p]
        BY TraceAssumption
      <3> HIDE DEF read
      <3>4. /\ u \in Traces
            /\ u.status = trace.status /\ u.unread = trace.unread /\ u.events = trace.events
            /\ u.outbox = trace.outbox /\ u.stocks = trace.stocks /\ u.calculations = read
        BY <1>2, <3>1 DEF Traces
      <3> HIDE DEF u
      <3>5. ASSUME NEW p \in Traced
            PROVE  /\ published[p] # None => \E i \in CommittedOf(p) : outbox[i].quantity = published[p]
                   /\ stamped[p] => RowsOf(p) \cap Sent # {}
        BY <3>3 DEF TraceInv, OutboxInv, PublishedIsYoungest, StampsFollowSent
      <3>6. trace.stocks \subseteq applied
        BY DEF TraceInv, IncludesHaveRows
      <3> QED
        BY <3>2, <3>3, <3>4, <3>5, <3>6
    <2> QED
      BY <2>1, <2>2
  <1>4. /\ trace' \in Traces /\ PhaseOfReads'
        /\ trace'.stocks = t.stocks /\ trace'.calculations = t.calculations
        /\ trace'.events = t.events /\ trace'.outbox = t.outbox
        /\ trace.status = "variant"
        /\ \A list \in Lists : HasList(list)' => HasList(list) \/ list = what
    BY <1>2, <1>3, AfterRead
  <1>5. IncludesHaveRows'
    BY <1>1, <1>3, <1>4 DEF IncludesHaveRows
  <1>6. ListsHaveRows'
    <2>1. ~HasList("events")' /\ ~HasList("outbox")'
      BY <1>3, <1>4 DEF Includes, Lists, HasList
    <2> QED
      BY <1>1, <1>3, <1>4, <2>1 DEF TraceInv, ListsHaveRows
  <1> QED
    BY <1>1, <1>4, <1>5, <1>6 DEF TraceInv, TraceTypeOK, InboxInv

\* What a statement on a list leaves of the rest of the trace.
LEMMA ReadListKeepsIncludes ==
    ASSUME TraceInv, UNCHANGED <<vars, inboxVars>>,
           NEW t \in Traces, NEW what \in Lists \cap trace.unread,
           t.status = trace.status, t.unread = trace.unread,
           t.stocks = trace.stocks, t.calculations = trace.calculations,
           trace' = HasRead(t, what)
    PROVE  /\ TraceTypeOK' /\ OutboxInv' /\ InboxInv'
           /\ PhaseOfReads' /\ IncludesHaveRows'
           /\ trace'.stocks = trace.stocks /\ trace'.calculations = trace.calculations
           /\ trace'.events = t.events /\ trace'.outbox = t.outbox
           /\ \A list \in Lists : HasList(list)' => HasList(list) \/ list = what
  <1>1. /\ OutboxInv' /\ applied' = applied /\ Sent' = Sent /\ UNCHANGED outbox
        /\ \A p : RowsOf(p)' = RowsOf(p) /\ CommittedOf(p)' = CommittedOf(p)
        /\ TypeOK' /\ InboxInv' /\ applied' \subseteq Events'
    BY TablesStay
  <1>2. /\ trace' \in Traces /\ PhaseOfReads'
        /\ trace'.stocks = t.stocks /\ trace'.calculations = t.calculations
        /\ trace'.events = t.events /\ trace'.outbox = t.outbox
        /\ \A list \in Lists : HasList(list)' => HasList(list) \/ list = what
    BY AfterRead DEF TraceInv
  <1>3. IncludesHaveRows'
    BY <1>1, <1>2 DEF TraceInv, IncludesHaveRows
  <1> QED
    BY <1>1, <1>2, <1>3 DEF TraceTypeOK, InboxInv

\* A list of the inbox that is not full shows every event with an effect as decided.
LEMMA ReadEventsKeepsInv ==
    ASSUME TraceInv, ReadEvents
    PROVE  TraceInv'
  <1> DEFINE list == [rows |-> Recent(Events), finished |-> Recent(Events) \cap Decided]
             t == [trace EXCEPT !.events = list]
  <1>1. trace \in Traces
    BY DEF TraceInv, TraceTypeOK
  <1>2. list \in Shown
    BY RecentTyped DEF Shown
  <1>3. /\ list.rows = Recent(Events) /\ list.finished = Recent(Events) \cap Decided
        /\ "events" \in Lists \cap trace.unread /\ trace' = HasRead(t, "events")
        /\ UNCHANGED <<vars, inboxVars>>
    BY DEF ReadEvents, Lists
  <1> HIDE DEF list
  <1>4. /\ t \in Traces /\ t.status = trace.status /\ t.unread = trace.unread
        /\ t.stocks = trace.stocks /\ t.calculations = trace.calculations
        /\ t.events = list /\ t.outbox = trace.outbox
    BY <1>1, <1>2 DEF Traces
  <1> HIDE DEF t
  <1>5. PICK shown : shown = list
    OBVIOUS
  <1>6. /\ TraceTypeOK' /\ OutboxInv' /\ InboxInv'
        /\ PhaseOfReads' /\ IncludesHaveRows'
        /\ trace'.stocks = trace.stocks /\ trace'.calculations = trace.calculations
        /\ trace'.events = shown /\ trace'.outbox = trace.outbox
        /\ HasList("outbox")' => HasList("outbox")
    <2>1. "outbox" \in Lists
      BY DEF Lists
    <2> QED
      BY <1>3, <1>4, <1>5, <2>1, ReadListKeepsIncludes
  <1>7. ~Full(shown) => trace.stocks \subseteq shown.finished
    <2>1. Cardinality(Recent(Events)) # RecentLimit => Recent(Events) = Events
      BY RecentTyped, NotFullIsComplete
    <2>2. trace.stocks \subseteq Decided /\ Decided \subseteq Events
      BY DEF TraceInv, InboxInv, IncludesHaveRows, Decided
    <2> QED
      BY <1>3, <1>5, <2>1, <2>2 DEF Full
  <1>8. ListsHaveRows'
    <2>1. Sent' = Sent /\ UNCHANGED outbox /\ \A p : RowsOf(p)' = RowsOf(p)
      BY <1>3, TablesStay
    <2> QED
      BY <1>6, <1>7, <2>1 DEF TraceInv, ListsHaveRows, Full
  <1> QED
    BY <1>6, <1>8 DEF TraceInv

\* A list of the outbox that is not full shows every committed row.
LEMMA ReadOutboxKeepsInv ==
    ASSUME TraceInv, ReadOutbox
    PROVE  TraceInv'
  <1> DEFINE list == [rows |-> Recent(Committed), finished |-> Recent(Committed) \ Pending]
             t == [trace EXCEPT !.outbox = list]
  <1>1. trace \in Traces
    BY DEF TraceInv, TraceTypeOK
  <1>2. list \in Shown
    BY RecentTyped DEF Shown
  <1>3. /\ list.rows = Recent(Committed) /\ list.finished = Recent(Committed) \ Pending
        /\ "outbox" \in Lists \cap trace.unread /\ trace' = HasRead(t, "outbox")
        /\ UNCHANGED <<vars, inboxVars>>
    BY DEF ReadOutbox, Lists
  <1> HIDE DEF list
  <1>4. /\ t \in Traces /\ t.status = trace.status /\ t.unread = trace.unread
        /\ t.stocks = trace.stocks /\ t.calculations = trace.calculations
        /\ t.outbox = list /\ t.events = trace.events
    BY <1>1, <1>2 DEF Traces
  <1> HIDE DEF t
  <1>5. PICK shown : shown = list
    OBVIOUS
  <1>6. /\ TraceTypeOK' /\ OutboxInv' /\ InboxInv'
        /\ PhaseOfReads' /\ IncludesHaveRows'
        /\ trace'.stocks = trace.stocks /\ trace'.calculations = trace.calculations
        /\ trace'.outbox = shown /\ trace'.events = trace.events
        /\ HasList("events")' => HasList("events")
    <2>1. "events" \in Lists
      BY DEF Lists
    <2> QED
      BY <1>3, <1>4, <1>5, <2>1, ReadListKeepsIncludes
  <1>7. Committed = Pending \cup Sent /\ Recent(Committed) \subseteq Committed
    BY DEF Committed, Sent, Recent
  <1>8. shown.finished \subseteq Sent
    BY <1>3, <1>5, <1>7
  <1>9. ~Full(shown) => shown.rows = Committed /\ shown.finished = Sent
    <2>1. Cardinality(Recent(Committed)) # RecentLimit => Recent(Committed) = Committed
      BY RecentTyped, NotFullIsComplete
    <2>2. Committed \ Pending = Sent
      BY <1>7, StatusSets DEF TraceInv, OutboxInv
    <2> QED
      BY <1>3, <1>5, <2>1, <2>2 DEF Full
  <1>10. ASSUME NEW p \in Traced, ~Full(shown)
         PROVE  /\ trace.calculations[p].publishedQuantity # None =>
                      \E i \in shown.rows \cap RowsOf(p) :
                         outbox[i].quantity = trace.calculations[p].publishedQuantity
                /\ trace.calculations[p].delivered => shown.finished \cap shown.rows \cap RowsOf(p) # {}
    <2>1. shown.rows \cap RowsOf(p) = CommittedOf(p) /\ shown.finished \cap shown.rows = Sent
      BY <1>7, <1>9, <1>10 DEF CommittedOf
    <2> QED
      BY <2>1 DEF TraceInv, IncludesHaveRows
  <1>11. ListsHaveRows'
    <2>1. Sent' = Sent /\ UNCHANGED outbox /\ \A p : RowsOf(p)' = RowsOf(p)
      BY <1>3, TablesStay
    <2>2. Full(trace.outbox)' <=> Full(shown)
      BY <1>6 DEF Full
    <2>3. HasList("events")' /\ ~Full(trace.events)' => trace'.stocks \subseteq trace'.events.finished
      BY <1>6 DEF TraceInv, ListsHaveRows, Full
    <2> QED
      BY <1>6, <1>8, <1>10, <2>1, <2>2, <2>3 DEF ListsHaveRows
  <1> QED
    BY <1>6, <1>11 DEF TraceInv

\* A request begins and ends with nothing read.
LEMMA RequestKeepsInv ==
    ASSUME TraceInv, FindVariant \/ Reply
    PROVE  TraceInv'
  <1>1. /\ OutboxInv' /\ applied' = applied /\ Sent' = Sent /\ UNCHANGED outbox
        /\ \A p : RowsOf(p)' = RowsOf(p) /\ CommittedOf(p)' = CommittedOf(p)
        /\ TypeOK' /\ InboxInv' /\ applied' \subseteq Events'
    BY TablesStay DEF FindVariant, Reply
  <1>2. trace \in Traces
    BY DEF TraceInv, TraceTypeOK
  <1>3. CASE FindVariant
    <2>1. /\ trace' = [trace EXCEPT !.status = "variant", !.unread = Includes]
      BY <1>3 DEF FindVariant
    <2>2. /\ trace' \in Traces /\ trace'.status = "variant" /\ trace'.unread = Includes
          /\ trace'.stocks = trace.stocks /\ trace'.calculations = trace.calculations
          /\ trace'.events = trace.events /\ trace'.outbox = trace.outbox
      BY <1>2, <2>1 DEF Traces
    <2>3. PhaseOfReads'
      BY <2>2 DEF PhaseOfReads
    <2>4. IncludesHaveRows'
      BY <1>1, <2>2 DEF TraceInv, IncludesHaveRows
    <2>5. ListsHaveRows'
      BY <1>1, <2>2 DEF TraceInv, ListsHaveRows, HasList
    <2> QED
      BY <1>1, <2>2, <2>3, <2>4, <2>5 DEF TraceInv, TraceTypeOK, InboxInv
  <1>4. CASE Reply
    <2>1. trace' = NoTrace
      BY <1>4 DEF Reply
    <2>2. /\ trace' \in Traces /\ PhaseOfReads' /\ IncludesHaveRows' /\ ListsHaveRows'
      <3>1. (trace = NoTrace => PhaseOfReads /\ IncludesHaveRows /\ ListsHaveRows)'
        BY NoTraceHolds, PTL
      <3> QED
        BY <2>1, <3>1, NoTraceHolds
    <2> QED
      BY <1>1, <2>2 DEF TraceInv, TraceTypeOK, InboxInv
  <1> QED
    BY <1>3, <1>4

LEMMA TraceKeepsInv ==
    ASSUME TraceInv, [TraceNext]_traceVars
    PROVE  TraceInv'
  <1>1. CASE Write
    BY <1>1, WriteKeepsInv
  <1>2. CASE Read
    BY <1>2, RequestKeepsInv, ReadIncludesKeepsInv, ReadEventsKeepsInv, ReadOutboxKeepsInv DEF Read
  <1>3. CASE Reply
    BY <1>3, RequestKeepsInv
  <1>4. CASE UNCHANGED traceVars
    <2>1. UNCHANGED <<vars, inboxVars, trace>>
      BY <1>4 DEF traceVars
    <2>2. OutboxInv' /\ RowsGrow
      BY <2>1, StutterKeepsInv, RowsOnlyGrow DEF TraceInv
    <2>3. InboxInv' /\ applied \subseteq applied' /\ applied' \subseteq Events'
      BY <2>1, EventsTyped DEF TraceInv, InboxInv, inboxVars, Decided, Events
    <2>4. PhaseOfReads' /\ IncludesHaveRows' /\ ListsHaveRows'
      BY <2>1, <2>2, <2>3, WritersKeepTrace
    <2> QED
      BY <2>1, <2>2, <2>3, <2>4 DEF TraceInv, TraceTypeOK, OutboxInv, InboxInv
  <1> QED
    BY <1>1, <1>2, <1>3, <1>4 DEF TraceNext

LEMMA TraceStartsInInv ==
    ASSUME TraceInit
    PROVE  TraceInv
  <1>1. Init /\ events = <<"PROCESSED">> /\ applied = {1} /\ unheard = {} /\ trace = NoTrace
    BY DEF TraceInit
  <1>2. OutboxInv
    BY <1>1, OutboxStartsInInv
  <1>3. InboxInv /\ applied \subseteq Events
    BY <1>1, TraceAssumption DEF InboxInv, Decided, Events
  <1>4. trace \in Traces /\ PhaseOfReads /\ IncludesHaveRows /\ ListsHaveRows
    BY <1>1, NoTraceHolds
  <1> QED
    BY <1>2, <1>3, <1>4 DEF TraceInv, TraceTypeOK, OutboxInv, InboxInv

-----------------------------------------------------------------------------
(* The outbox as a publication in order *)

\* What the abstract specification sees of the rows.
GivenView == [p \in Pairs |-> [i \in CommittedOf(p) |-> outbox[i].quantity]]
AcknowledgedView == [p \in Pairs |-> IF SentOf(p) = {} THEN 0 ELSE Greatest(SentOf(p))]

\* The numbers given stay when no row is committed.
LEMMA GivenStays ==
    ASSUME TypeOK,
           \A i \in Ids : outbox'[i].quantity = outbox[i].quantity,
           \A p \in Pairs : CommittedOf(p)' = CommittedOf(p)
    PROVE  GivenView' = GivenView
  <1>1. ASSUME NEW p \in Pairs
        PROVE  [i \in CommittedOf(p)' |-> outbox'[i].quantity]
                  = [i \in CommittedOf(p) |-> outbox[i].quantity]
    <2>1. \A i \in CommittedOf(p) : outbox'[i].quantity = outbox[i].quantity
      BY StatusSets
    <2> QED
      BY <2>1
  <1> QED
    BY <1>1 DEF GivenView

\* What is acknowledged stays when no row is marked SENT.
LEMMA AcknowledgedStays ==
    ASSUME \A p \in Pairs : SentOf(p)' = SentOf(p)
    PROVE  AcknowledgedView' = AcknowledgedView
  BY DEF AcknowledgedView

\* The last row sent of a pair, with every row sent before it, and the topic past it.
LastSent ==
    \A p \in Pairs :
        /\ AcknowledgedView[p] \in 0 .. MaxRows
        /\ AcknowledgedView[p] <= topic[p]
        /\ \A i \in SentOf(p) : i <= AcknowledgedView[p]
        /\ AcknowledgedView[p] = 0 \/ AcknowledgedView[p] \in SentOf(p)

\* A pair is acknowledged up to the last of its rows that was sent.
LEMMA AcknowledgedIsLastSent == OutboxInv => LastSent
  <1> SUFFICES ASSUME OutboxInv, NEW p \in Pairs
               PROVE  /\ AcknowledgedView[p] \in 0 .. MaxRows
                      /\ AcknowledgedView[p] <= topic[p]
                      /\ \A i \in SentOf(p) : i <= AcknowledgedView[p]
                      /\ AcknowledgedView[p] = 0 \/ AcknowledgedView[p] \in SentOf(p)
    BY DEF LastSent
  <1> USE DEF OutboxInv
  <1>1. SentOf(p) \subseteq 1 .. MaxRows /\ \A i \in SentOf(p) : i <= topic[p]
    BY RowsTyped DEF SentOf, RowsOf, OrderPreserved
  <1>2. CASE SentOf(p) = {}
    <2>1. AcknowledgedView[p] = 0 /\ topic[p] \in 0 .. MaxRows
      BY <1>2 DEF AcknowledgedView, TypeOK
    <2> QED
      BY <1>2, <2>1, BoundsAssumption
  <1>3. CASE SentOf(p) # {}
    <2>1. AcknowledgedView[p] = Greatest(SentOf(p))
      BY <1>3 DEF AcknowledgedView
    <2>2. SentOf(p) \subseteq Nat /\ MaxRows \in Nat /\ \A i \in SentOf(p) : i <= MaxRows
      BY <1>1, BoundsAssumption
    <2>3. Greatest(SentOf(p)) \in SentOf(p) /\ \A i \in SentOf(p) : i <= Greatest(SentOf(p))
      BY <1>3, <2>2, GreatestOfBounded
    <2> QED
      BY <1>1, <2>1, <2>3
  <1> QED
    BY <1>2, <1>3

\* A commit stores a number and gives it the pair's last place.
LEMMA CommitStores ==
    ASSUME OutboxInv, NEW k \in Ids, CommitCalculation(k)
    PROVE  Order!Next
  <1> USE DEF OutboxInv
  <1>1. PICK p \in Pairs, q \in Quantities : p = outbox[k].pair /\ q = outbox[k].quantity
    BY RowsTyped
  <1>2. /\ outbox[k].status = "UNCOMMITTED" /\ Mark({k}, "PENDING") /\ "PENDING" \in Statuses
        /\ published' = [published EXCEPT ![p] = q]
        /\ UNCHANGED topic
    BY <1>1 DEF CommitCalculation, Statuses
  <1>3. /\ \A r : RowsOf(r)' = RowsOf(r)
        /\ WithStatus("PENDING")' = WithStatus("PENDING") \cup {k}
        /\ WithStatus("SENT")' = WithStatus("SENT")
    <2>1. k \notin WithStatus("SENT")
      BY <1>2 DEF WithStatus
    <2>2. /\ \A r : RowsOf(r)' = RowsOf(r)
          /\ WithStatus("PENDING")' = WithStatus("PENDING") \cup ({k} \cap Ids)
          /\ \A other : other # "PENDING" => WithStatus(other)' = WithStatus(other) \ {k}
      BY <1>2, MarkKeepsPairs
    <2> QED
      BY <2>1, <2>2
  <1>4. k \in RowsOf(p) /\ \A r \in Pairs \ {p} : k \notin RowsOf(r)
    BY <1>1 DEF RowsOf
  <1>5. /\ CommittedOf(p)' = CommittedOf(p) \cup {k}
        /\ \A r \in Pairs \ {p} : CommittedOf(r)' = CommittedOf(r)
    <2>1. Committed' = Committed \cup {k}
      BY <1>3 DEF Committed, Pending
    <2>2. CommittedOf(p)' = CommittedOf(p) \cup {k}
      BY <1>3, <1>4, <2>1 DEF CommittedOf
    <2>3. ASSUME NEW r \in Pairs \ {p} PROVE CommittedOf(r)' = CommittedOf(r)
      BY <1>3, <1>4, <2>1 DEF CommittedOf
    <2> QED
      BY <2>2, <2>3
  <1>6. \A i \in Ids : outbox'[i].quantity = outbox[i].quantity
    BY <1>2, MarkKeepsRows
  <1>7. AcknowledgedView' = AcknowledgedView
    <2>1. \A r \in Pairs : SentOf(r)' = SentOf(r)
      BY <1>3 DEF SentOf
    <2> QED
      BY <2>1, AcknowledgedStays
  <1>8. \A i \in CommittedOf(p) : i < k
    <2>1. k \notin CommittedOf(p) /\ k \in Nat
      BY <1>2, StatusSets, RowsTyped DEF CommittedOf
    <2>2. \A i \in CommittedOf(p) : i <= k /\ i \in Nat
      BY <1>1, <1>2, StatusSets, RowsTyped DEF OpenRowIsYoungest
    <2> QED
      BY <2>1, <2>2
  <1>9. GivenView' = [GivenView EXCEPT ![p] =
           [i \in DOMAIN GivenView[p] \cup {k} |-> IF i = k THEN q ELSE GivenView[p][i]]]
    <2> DEFINE longer == [i \in CommittedOf(p) \cup {k} |-> IF i = k THEN q ELSE outbox[i].quantity]
    <2>1. [i \in CommittedOf(p)' |-> outbox'[i].quantity] = longer
      <3>1. \A i \in CommittedOf(p) \cup {k} :
               outbox'[i].quantity = IF i = k THEN q ELSE outbox[i].quantity
        BY <1>1, <1>6, StatusSets
      <3> QED
        BY <1>5, <3>1
    <2>2. ASSUME NEW r \in Pairs \ {p}
          PROVE  [i \in CommittedOf(r)' |-> outbox'[i].quantity]
                    = [i \in CommittedOf(r) |-> outbox[i].quantity]
      <3>1. \A i \in CommittedOf(r) : outbox'[i].quantity = outbox[i].quantity
        BY <1>6, StatusSets
      <3> QED
        BY <1>5, <3>1
    <2>3. [i \in DOMAIN GivenView[p] \cup {k} |-> IF i = k THEN q ELSE GivenView[p][i]] = longer
      BY DEF GivenView
    <2> HIDE DEF longer
    <2>4. GivenView' = [r \in Pairs |-> IF r = p THEN longer ELSE GivenView[r]]
      BY <2>1, <2>2 DEF GivenView
    <2>5. [GivenView EXCEPT ![p] = longer] = [r \in Pairs |-> IF r = p THEN longer ELSE GivenView[r]]
      BY DEF GivenView
    <2> QED
      BY <2>3, <2>4, <2>5
  <1>10. \A i \in DOMAIN GivenView[p] : i < k
    BY <1>8 DEF GivenView
  <1>11. k \in 1 .. MaxRows
    BY RowsTyped
  <1>12. Order!Store(p, k, q)
    BY <1>2, <1>7, <1>9, <1>10, Zenon DEF Order!Store, GivenView, AcknowledgedView
  <1> QED
    BY <1>11, <1>12 DEF Order!Next

\* What a send leaves in the topic is committed and not older than what was sent.
LEMMA SendReceives ==
    ASSUME OutboxInv, NEW c \in Calls, drain[c].pc = "publish", NEW pairs \in SUBSET Pairs,
           Delivered(drain[c].ids, pairs), UNCHANGED database
    PROVE  Order!Next
  <1> USE DEF OutboxInv
  <1>1. UNCHANGED <<outbox, published>>
    BY DEF database
  <1>2. GivenView' = GivenView /\ AcknowledgedView' = AcknowledgedView
    <2>1. \A p \in Pairs : CommittedOf(p)' = CommittedOf(p) /\ SentOf(p)' = SentOf(p)
      BY <1>1 DEF CommittedOf, SentOf, RowsOf, Committed, Pending, WithStatus, Ids
    <2> QED
      BY <1>1, <2>1, GivenStays, AcknowledgedStays
  <1>3. /\ topic' \in [Pairs -> 0 .. MaxRows]
        /\ \A p \in Pairs : /\ topic'[p] # 0 => topic'[p] \in CommittedOf(p)
                            /\ \A i \in RowsOf(p) \cap Sent : i <= topic'[p]
    BY DeliveredInOrder
  <1>4. topic' \in [Pairs -> 1 .. MaxRows \cup {0}]
    <2>1. 0 .. MaxRows = 1 .. MaxRows \cup {0}
      BY BoundsAssumption
    <2> QED
      BY <1>3, <2>1
  <1>5. ASSUME NEW p \in Pairs, topic'[p] # topic[p]
        PROVE  topic'[p] \in DOMAIN GivenView[p] /\ AcknowledgedView[p] <= topic'[p]
    <2>1. DOMAIN GivenView[p] = CommittedOf(p)
      BY DEF GivenView
    <2>2. topic'[p] # 0
      <3> DEFINE mine == drain[c].ids \cap RowsOf(p)
      <3>1. mine # {} /\ topic'[p] = Greatest(mine)
        BY <1>5 DEF Delivered
      <3>2. mine \subseteq 1 .. MaxRows
        BY RowsTyped DEF RowsOf
      <3> HIDE DEF mine
      <3>3. Greatest(mine) \in mine
        <4>1. mine \subseteq Nat /\ MaxRows \in Nat /\ \A i \in mine : i <= MaxRows
          BY <3>2, BoundsAssumption
        <4> QED
          BY <3>1, <4>1, GreatestOfBounded
      <3> QED
        BY <3>1, <3>2, <3>3
    <2>3. AcknowledgedView[p] <= topic'[p]
      <3>1. CASE AcknowledgedView[p] = 0
        BY <1>3, <3>1
      <3>2. CASE AcknowledgedView[p] \in SentOf(p)
        BY <1>3, <3>2 DEF SentOf, Sent
      <3> QED
        BY <3>1, <3>2, AcknowledgedIsLastSent DEF LastSent
    <2> QED
      BY <1>3, <2>1, <2>2, <2>3
  <1>6. Order!Receive
    BY <1>1, <1>2, <1>4, <1>5, Zenon DEF Order!Receive, GivenView, AcknowledgedView
  <1> QED
    BY <1>6 DEF Order!Next

\* Marking a batch moves what is acknowledged forward, never past the topic.
LEMMA MarkSentAcknowledges ==
    ASSUME OutboxInv, OutboxInv', NEW c \in Calls, MarkSent(c)
    PROVE  Order!Next
  <1>1. /\ drain[c].ids \subseteq Pending /\ Mark(drain[c].ids, "SENT") /\ "SENT" \in Statuses
        /\ UNCHANGED <<published, topic>>
    BY DEF OutboxInv, BatchWaits, MarkSent, Statuses
  <1>2. RowsGrow /\ \A r : RowsOf(r)' = RowsOf(r)
    BY <1>1, MarkGrows, MarkKeepsPairs DEF OutboxInv
  <1>3. \A p \in Pairs : SentOf(p) \subseteq SentOf(p)'
    BY <1>2 DEF RowsGrow, SentOf, Sent
  <1>4. GivenView' = GivenView
    <2>1. Committed' = Committed
      <3>1. /\ WithStatus("SENT")' = WithStatus("SENT") \cup (drain[c].ids \cap Ids)
            /\ \A other : other # "SENT" => WithStatus(other)' = WithStatus(other) \ drain[c].ids
        BY <1>1, MarkKeepsPairs DEF OutboxInv
      <3>2. Pending' = Pending \ drain[c].ids
        BY <3>1 DEF Pending
      <3> QED
        BY <1>1, <3>1, <3>2, StatusSets DEF OutboxInv, Committed
    <2>2. \A p \in Pairs : CommittedOf(p)' = CommittedOf(p)
      BY <1>2, <2>1 DEF CommittedOf
    <2>3. \A i \in Ids : outbox'[i].quantity = outbox[i].quantity
      BY <1>2 DEF RowsGrow
    <2> QED
      BY <2>2, <2>3, GivenStays DEF OutboxInv
  <1>5. ASSUME NEW p \in Pairs
        PROVE  /\ AcknowledgedView'[p] \in 1 .. MaxRows \cup {0}
               /\ AcknowledgedView[p] <= AcknowledgedView'[p]
               /\ AcknowledgedView'[p] <= topic[p]
    <2>1. /\ AcknowledgedView[p] \in 0 .. MaxRows
          /\ AcknowledgedView[p] = 0 \/ AcknowledgedView[p] \in SentOf(p)
      BY AcknowledgedIsLastSent DEF LastSent
    <2>2. /\ AcknowledgedView'[p] \in 0 .. MaxRows
          /\ AcknowledgedView'[p] <= topic'[p]
          /\ \A i \in SentOf(p)' : i <= AcknowledgedView'[p]
      <3>1. (OutboxInv => LastSent)'
        BY AcknowledgedIsLastSent, PTL
      <3> QED
        BY <3>1 DEF LastSent
    <2> QED
      BY <1>1, <1>3, <2>1, <2>2, BoundsAssumption
  <1>6. AcknowledgedView' \in [Pairs -> 1 .. MaxRows \cup {0}]
    <2>1. AcknowledgedView' = [p \in Pairs |-> AcknowledgedView'[p]]
      BY DEF AcknowledgedView
    <2> QED
      BY <1>5, <2>1
  <1>7. Order!Acknowledge
    BY <1>1, <1>4, <1>5, <1>6, Zenon DEF Order!Acknowledge, GivenView, AcknowledgedView
  <1> QED
    BY <1>7 DEF Order!Next

\* Rows that are queued or given up, and calls that begin or return, are not seen.
LEMMA RestIsUnseen ==
    ASSUME OutboxInv, UNCHANGED <<published, topic>>,
           \A i \in Ids : outbox'[i].quantity = outbox[i].quantity,
           \A p \in Pairs : CommittedOf(p)' = CommittedOf(p) /\ SentOf(p)' = SentOf(p)
    PROVE  UNCHANGED <<GivenView, published, topic, AcknowledgedView>>
  BY GivenStays, AcknowledgedStays DEF OutboxInv

\* Commits store, sends deliver, marks acknowledge, and no other step is seen.
LEMMA OutboxStepsPublish ==
    ASSUME OutboxInv, OutboxInv', [Next]_vars
    PROVE  Order!Next \/ UNCHANGED <<GivenView, published, topic, AcknowledgedView>>
  <1>1. ASSUME NEW p \in Pairs, NEW q \in Quantities, EnqueuePublication(p, q)
        PROVE  UNCHANGED <<GivenView, published, topic, AcknowledgedView>>
    <2> DEFINE n == Len(outbox) + 1
    <2>1. /\ n \in Nat /\ Ids' = Ids \cup {n}
          /\ \A i \in Ids : i < n /\ outbox'[i] = outbox[i]
          /\ outbox'[n] = [pair |-> p, quantity |-> q, status |-> "UNCOMMITTED"]
      BY <1>1, AppendKeepsRows DEF OutboxInv
    <2> HIDE DEF n
    <2>2. ASSUME NEW r \in Pairs, NEW status, status # "UNCOMMITTED"
          PROVE  (RowsOf(r) \cap WithStatus(status))' = RowsOf(r) \cap WithStatus(status)
      <3>1. n \notin WithStatus(status)'
        BY <2>1, <2>2 DEF WithStatus
      <3>2. \A i \in Ids : /\ i \in RowsOf(r)' <=> i \in RowsOf(r)
                           /\ i \in WithStatus(status)' <=> i \in WithStatus(status)
        BY <2>1 DEF RowsOf, WithStatus
      <3>3. RowsOf(r) \subseteq Ids /\ RowsOf(r)' \subseteq Ids \cup {n}
        BY <2>1 DEF RowsOf
      <3> QED
        BY <3>1, <3>2, <3>3
    <2>3. ASSUME NEW r \in Pairs PROVE SentOf(r)' = SentOf(r) /\ CommittedOf(r)' = CommittedOf(r)
      <3>1. /\ (RowsOf(r) \cap WithStatus("SENT"))' = RowsOf(r) \cap WithStatus("SENT")
            /\ (RowsOf(r) \cap WithStatus("PENDING"))' = RowsOf(r) \cap WithStatus("PENDING")
        BY <2>2
      <3> QED
        BY <3>1 DEF SentOf, CommittedOf, Committed, Pending
    <2>4. UNCHANGED <<published, topic>>
      BY <1>1 DEF EnqueuePublication
    <2> QED
      BY <2>1, <2>3, <2>4, RestIsUnseen
  <1>2. ASSUME NEW k \in Ids, CommitCalculation(k) PROVE Order!Next
    BY <1>2, CommitStores
  <1>3. ASSUME NEW ids \in SUBSET WithStatus("UNCOMMITTED"), Mark(ids, "ROLLED BACK"),
               UNCHANGED <<published, topic>>
        PROVE  UNCHANGED <<GivenView, published, topic, AcknowledgedView>>
    <2>1. "ROLLED BACK" \in Statuses
      BY DEF Statuses
    <2>2. /\ \A r : RowsOf(r)' = RowsOf(r)
          /\ \A other : other # "ROLLED BACK" => WithStatus(other)' = WithStatus(other) \ ids
      BY <1>3, <2>1, MarkKeepsPairs DEF OutboxInv
    <2>3. ids \cap WithStatus("PENDING") = {} /\ ids \cap WithStatus("SENT") = {}
      BY DEF WithStatus
    <2>4. WithStatus("PENDING")' = WithStatus("PENDING") /\ WithStatus("SENT")' = WithStatus("SENT")
      BY <2>2, <2>3
    <2>5. \A p \in Pairs : CommittedOf(p)' = CommittedOf(p) /\ SentOf(p)' = SentOf(p)
      BY <2>2, <2>4 DEF CommittedOf, SentOf, Committed, Pending
    <2>6. \A i \in Ids : outbox'[i].quantity = outbox[i].quantity
      BY <1>3, <2>1, MarkKeepsRows DEF OutboxInv
    <2> QED
      BY <1>3, <2>5, <2>6, RestIsUnseen
  <1>4. (\E i \in Ids : RollBack(i)) \/ Crash
        => UNCHANGED <<GivenView, published, topic, AcknowledgedView>>
    <2>1. ASSUME NEW i \in Ids, RollBack(i)
          PROVE  /\ {i} \in SUBSET WithStatus("UNCOMMITTED") /\ Mark({i}, "ROLLED BACK")
                 /\ UNCHANGED <<published, topic>>
      BY <2>1 DEF RollBack, WithStatus
    <2>2. ASSUME Crash
          PROVE  /\ Mark(WithStatus("UNCOMMITTED"), "ROLLED BACK")
                 /\ UNCHANGED <<published, topic>>
      BY <2>2 DEF Crash
    <2> QED
      BY <1>3, <2>1, <2>2
  <1>5. ASSUME NEW c \in Calls, Publish(c) \/ PublishFails(c) PROVE Order!Next
    <2>1. PICK pairs \in SUBSET Pairs :
             drain[c].pc = "publish" /\ Delivered(drain[c].ids, pairs) /\ UNCHANGED database
      BY <1>5 DEF Publish, PublishFails
    <2> QED
      BY <2>1, SendReceives
  <1>6. ASSUME NEW c \in Calls, MarkSent(c) PROVE Order!Next
    BY <1>6, MarkSentAcknowledges
  <1>7. CASE UNCHANGED <<outbox, published, topic>>
    <2>1. \A p \in Pairs : CommittedOf(p)' = CommittedOf(p) /\ SentOf(p)' = SentOf(p)
      BY <1>7 DEF CommittedOf, SentOf, RowsOf, Committed, Pending, WithStatus, Ids
    <2> QED
      BY <1>7, <2>1, RestIsUnseen
  <1>8. ASSUME NEW c \in Calls,
               \/ PublishPending(c) \/ FindPending(c) \/ NothingPending(c)
               \/ MarkPublished(c) \/ StatementFails(c)
        PROVE  UNCHANGED <<outbox, published, topic>>
    BY <1>8 DEF PublishPending, FindPending, NothingPending, MarkPublished, StatementFails, database
  <1>9. CASE UNCHANGED vars
    BY <1>7, <1>9 DEF vars, database
  <1> QED
    BY <1>1, <1>2, <1>4, <1>5, <1>6, <1>7, <1>8, <1>9 DEF Next, Step

-----------------------------------------------------------------------------
(* Theorems *)

(***************************************************************************)
(* The inductive invariant of the outbox: one drain at a time, rows of a   *)
(* pair committed and sent in the order of their places, and a batch that  *)
(* leaves no older row of its pairs behind.                                *)
(***************************************************************************)
THEOREM OutboxInductive == Spec => []OutboxInv
  <1>1. Init => OutboxInv
    BY OutboxStartsInInv
  <1>2. OutboxInv /\ [Next]_vars => OutboxInv'
    BY OutboxKeepsInv
  <1> QED
    BY <1>1, <1>2, PTL DEF Spec

\* The same invariant, with the tables read all the while.
THEOREM TraceInductive == TraceSpec => []TraceInv
  <1>1. TraceInit => TraceInv
    BY TraceStartsInInv
  <1>2. TraceInv /\ [TraceNext]_traceVars => TraceInv'
    BY TraceKeepsInv
  <1> QED
    BY <1>1, <1>2, PTL DEF TraceSpec

\* Inbox, outbox, publisher and trace are always well-formed.
THEOREM TraceTypeCorrect == TraceSpec => []TraceTypeOK
  <1>1. TraceInv => TraceTypeOK
    BY DEF TraceInv
  <1> QED
    BY <1>1, TraceInductive, PTL

(***************************************************************************)
(* publishPending: once a row is SENT no older row of its pair ends up     *)
(* behind it in the topic, whatever calls overlap, fail or are cut off.    *)
(***************************************************************************)
THEOREM SentInOrder == TraceSpec => []OrderPreserved
  <1>1. TraceInv => OrderPreserved
    BY DEF TraceInv, OutboxInv
  <1> QED
    BY <1>1, TraceInductive, PTL

\* The youngest committed row of a pair with nothing waiting is where its topic ends.
LEMMA NothingWaitingEndsAtPublished ==
    ASSUME OutboxInv
    PROVE  TopicEndsAtPublished
  <1> USE DEF OutboxInv
  <1> SUFFICES ASSUME NEW p \in Pairs, published[p] # None, Outstanding(p) = {}
               PROVE  topic[p] \in RowsOf(p) /\ outbox[topic[p]].quantity = published[p]
    BY DEF TopicEndsAtPublished
  <1>1. PICK i \in CommittedOf(p) :
           (\A j \in CommittedOf(p) : j <= i) /\ published[p] = outbox[i].quantity
    BY DEF PublishedIsYoungest
  <1>2. i \in RowsOf(p) /\ i \in Sent /\ i \in 1 .. MaxRows
    BY <1>1, StatusSets, RowsTyped DEF CommittedOf, Outstanding
  <1>3. i <= topic[p]
    BY <1>2 DEF OrderPreserved, Sent
  <1>4. topic[p] \in Nat /\ topic[p] # 0
    BY <1>2, <1>3 DEF TypeOK
  <1>5. topic[p] \in CommittedOf(p)
    BY <1>4 DEF TopicIsCommitted
  <1>6. topic[p] = i
    BY <1>1, <1>2, <1>3, <1>4, <1>5
  <1> QED
    BY <1>1, <1>2, <1>6

(***************************************************************************)
(* When nothing of a pair waits, the number e-com reads last is the number *)
(* the layer stored for it.                                                *)
(***************************************************************************)
THEOREM EcomHoldsPublished == TraceSpec => []TopicEndsAtPublished
  <1>1. TraceInv => TopicEndsAtPublished
    BY NothingWaitingEndsAtPublished DEF TraceInv
  <1> QED
    BY <1>1, TraceInductive, PTL

(***************************************************************************)
(* GET /pipeline/trace: unless newer rows fill the list, the number and    *)
(* the delivery time it shows for a pair have their rows in the same       *)
(* answer, and a queue shown as through has handed that number over.       *)
(***************************************************************************)
THEOREM TraceExplainsCalculation == TraceSpec => []CalculationHasItsRow
  <1>1. ASSUME TraceInv PROVE CalculationHasItsRow
    <2> SUFFICES ASSUME trace.status = "answered", ~Full(trace.outbox), NEW p \in Traced
                 PROVE  LET calculation == trace.calculations[p]
                            shown == trace.outbox.rows \cap RowsOf(p)
                        IN
                        /\ calculation.publishedQuantity # None => \E i \in shown :
                              /\ outbox[i].quantity = calculation.publishedQuantity
                              /\ QueueTone(trace.outbox) = "flow" => topic[p] >= i
                        /\ calculation.delivered => trace.outbox.finished \cap shown # {}
      BY DEF CalculationHasItsRow
    <2>1. /\ trace.outbox.finished \subseteq Sent
          /\ trace.calculations[p].publishedQuantity # None =>
                \E i \in trace.outbox.rows \cap RowsOf(p) :
                   outbox[i].quantity = trace.calculations[p].publishedQuantity
          /\ trace.calculations[p].delivered =>
                trace.outbox.finished \cap trace.outbox.rows \cap RowsOf(p) # {}
      BY <1>1 DEF TraceInv, ListsHaveRows, HasList
    <2>2. QueueTone(trace.outbox) = "flow" => trace.outbox.rows \subseteq trace.outbox.finished
      BY DEF QueueTone
    <2>3. \A i \in RowsOf(p) \cap Sent : topic[p] >= i
      BY <1>1, TraceAssumption, StatusSets, RowsTyped
      DEF TraceInv, OutboxInv, TypeOK, OrderPreserved, Sent
    <2> QED
      BY <2>1, <2>2, <2>3
  <1>2. TraceInv => CalculationHasItsRow
    BY <1>1
  <1> QED
    BY <1>2, TraceInductive, PTL

(***************************************************************************)
(* The same answer shows the message behind every shop line as processed,  *)
(* unless newer ones fill the list.                                        *)
(***************************************************************************)
THEOREM TraceExplainsStock == TraceSpec => []StockHasItsEvent
  <1>1. TraceInv => StockHasItsEvent
    BY DEF TraceInv, ListsHaveRows, HasList, StockHasItsEvent
  <1> QED
    BY <1>1, TraceInductive, PTL
(***************************************************************************)
(* The outbox publishes in order: whatever drains, failed sends, crashes   *)
(* and overlapping transactions do, each step is a step of Publication or  *)
(* is not seen by e-com.                                                   *)
(***************************************************************************)
THEOREM OutboxPublishesInOrder == Spec => PublishedInOrder
  <1>1. Init => Order!Init
    <2> SUFFICES ASSUME Init PROVE Order!Init
      OBVIOUS
    <2>1. outbox = <<>> /\ Ids = {} /\ topic = [p \in Pairs |-> 0] /\ published = [p \in Pairs |-> None]
      BY DEF Init, Ids
    <2>2. \A p \in Pairs : CommittedOf(p) = {} /\ SentOf(p) = {}
      BY <2>1 DEF CommittedOf, SentOf, RowsOf
    <2>3. AcknowledgedView = [p \in Pairs |-> 0]
      BY <2>2 DEF AcknowledgedView
    <2>4. GivenView = [p \in Pairs |-> <<>>]
      <3>1. ASSUME NEW p \in Pairs PROVE [i \in CommittedOf(p) |-> outbox[i].quantity] = <<>>
        BY <2>2
      <3> QED
        BY <3>1 DEF GivenView
    <2> QED
      BY <2>1, <2>3, <2>4, Zenon DEF Order!Init, GivenView, AcknowledgedView
  <1>2. OutboxInv /\ OutboxInv' /\ [Next]_vars
        => Order!Next \/ UNCHANGED <<GivenView, published, topic, AcknowledgedView>>
    BY OutboxStepsPublish
  <1> QED
    BY <1>1, <1>2, OutboxInductive, PTL DEF Spec, PublishedInOrder, Order!Spec, GivenView, AcknowledgedView
=============================================================================
