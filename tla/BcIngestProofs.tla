--------------------------- MODULE BcIngestProofs ---------------------------
(***************************************************************************)
(* Theorems about BcIngest for any number of messages, consumers and       *)
(* faults.                                                                 *)
(***************************************************************************)
EXTENDS BcIngest, TLAPS

\* A call is about a message.
Busy == \A c \in Consumers : job[c].pc = "idle" <=> Msg(c) = NoMessage

\* Nobody works on a message that was not sent.
Sent == \A c \in Consumers : job[c].pc # "idle" => Msg(c) <= written

\* The message's row was written by this call and is not decided.
Holds(c) == job[c].pc \in {"apply", "park"}

OneHolder ==
    \A c, d \in Consumers : Holds(c) /\ Holds(d) /\ Msg(c) = Msg(d) => c = d

\* What the call that holds a message knows of its row.
RowOfHolder(c) ==
    /\ At(c, "apply") => inbox[Msg(c)] = "PENDING"
    /\ At(c, "park") => \/ inbox[Msg(c)] = "PENDING"
                        \/ inbox[Msg(c)] = "PROCESSED" /\ Msg(c) \in replyLost

RowsOfHolders == \A c \in Consumers : RowOfHolder(c)

\* A message nobody has decided has had no effect.
UndecidedHasNoEffect ==
    \A m \in Messages : inbox[m] \in {"ABSENT", "PENDING"} => applied[m] = 0

\* What became of a message the offsets have passed.
Known(m) == inbox[m] # "ABSENT" \/ m \in interrupted \/ m \in missed

\* A call past its insert has a row, and so has every message behind the owner.
PassedIsKnown ==
    /\ \A c \in Consumers : job[c].pc \notin {"idle", "record"} => inbox[Msg(c)] # "ABSENT"
    /\ \A m \in Messages : m <= position \/ m <= committed => Known(m)

\* Who holds which message and what has become of it, wherever the offsets are.
Held ==
    /\ Busy
    /\ OneHolder
    /\ RowsOfHolders
    /\ UndecidedHasNoEffect
    /\ AppliedAtMostOnce
    /\ InboxTellsTheTruth
    /\ PendingIsHeld

IInv == TypeOK /\ Sent /\ Held /\ PassedIsKnown

\* A call in progress is about a message of the partition.
LEMMA BusyWithAMessage ==
    ASSUME TypeOK, Busy, NEW c \in Consumers, job[c].pc # "idle"
    PROVE  Msg(c) \in Messages
  BY DEF TypeOK, Busy, Msg, Jobs

\* Every step keeps the types.
LEMMA TypeStep ==
    ASSUME TypeOK, Busy, Sent, [Next]_vars
    PROVE  TypeOK'
  <1> USE BoundsAssumption, MessagesAssumption, BusyWithAMessage
  <1> USE DEF TypeOK, Jobs, PCs, Messages
  <1>1. CASE UNCHANGED vars
    BY <1>1 DEF vars, store, kafka, observation
  <1>2. ASSUME NEW c \in Consumers, Fetch(c) PROVE TypeOK'
    BY <1>2 DEF Fetch, store, kafka, observation
  <1>3. ASSUME NEW c \in Consumers, RecordNew(c) PROVE TypeOK'
    BY <1>3 DEF RecordNew, At, Goto, kafka, observation, Msg
  <1>4. ASSUME NEW c \in Consumers, RecordDuplicate(c) PROVE TypeOK'
    BY <1>4 DEF RecordDuplicate, At, Goto, store, kafka, observation
  <1>5. ASSUME NEW c \in Consumers, Apply(c) PROVE TypeOK'
    <2>1. Msg(c) \in Messages
      BY <1>5 DEF Apply, At
    <2> QED
      BY <1>5, <2>1 DEF Apply, Committed, At, Goto, Msg, kafka, observation
  <1>6. ASSUME NEW c \in Consumers, ApplyFails(c) PROVE TypeOK'
    BY <1>6 DEF ApplyFails, At, Goto, store, kafka, observation
  <1>7. ASSUME NEW c \in Consumers, Park(c) PROVE TypeOK'
    BY <1>7 DEF Park, At, Goto, kafka, observation
  <1>8. ASSUME NEW c \in Consumers, Recalculate(c) PROVE TypeOK'
    BY <1>8 DEF Recalculate, At, Goto, store, kafka, observation
  <1>9. ASSUME NEW c \in Consumers, Return(c) PROVE TypeOK'
    <2>1. Msg(c) \in Messages /\ Msg(c) <= written
      BY <1>9 DEF Return, At, Sent
    <2>2. Advanced(c) \in 0 .. written
      BY <2>1 DEF Advanced
    <2> QED
      BY <1>9, <2>2 DEF Return, Idle, At, store, observation
  <1>10. ASSUME NEW c \in Consumers, ApplyReplyLost(c) PROVE TypeOK'
    <2>1. Msg(c) \in Messages
      BY <1>10 DEF ApplyReplyLost, At
    <2> QED
      BY <1>10, <2>1 DEF ApplyReplyLost, Committed, Fault, At, Goto, Msg, kafka
  <1>11. ASSUME NEW c \in Consumers, Throw(c) PROVE TypeOK'
    <2>1. Msg(c) \in Messages /\ Msg(c) <= written
      BY <1>11 DEF Throw, At, Sent
    <2>2. Advanced(c) \in 0 .. written
      BY <2>1 DEF Advanced
    <2>3. interrupted' \subseteq Messages
      BY <1>11, <2>1 DEF Throw
    <2>4. job' \in [Consumers -> Jobs]
      BY <1>11 DEF Throw, Idle
    <2> QED
      BY <1>11, <2>2, <2>3, <2>4 DEF Throw, Fault, store
  <1>12. ASSUME NEW c \in Consumers, Crash(c) PROVE TypeOK'
    <2>1. interrupted' \subseteq Messages
      BY <1>12 DEF Crash
    <2>2. job' \in [Consumers -> Jobs]
      BY <1>12 DEF Crash, Idle
    <2> QED
      BY <1>12, <2>1, <2>2 DEF Crash, Fault, store
  <1>13. CASE Revoke
    BY <1>13 DEF Revoke, Fault, store, observation
  <1>14. CASE CommitOffsets
    BY <1>14 DEF CommitOffsets, store, observation
  <1>15. CASE Produce
    BY <1>15 DEF Produce, store, observation
  <1>16. ASSUME NEW c \in Consumers, Assign(c) PROVE TypeOK'
    <2>1. Start \in 0 .. written
      BY DEF Start
    <2>3. handled' \in BOOLEAN
      BY <1>16 DEF Assign
    <2>2. missed' \subseteq Messages
      BY <1>16 DEF Assign
    <2> QED
      BY <1>16, <2>1, <2>2, <2>3 DEF Assign, store
  <1> QED
    BY <1>1, <1>2, <1>3, <1>4, <1>5, <1>6, <1>7, <1>8, <1>9, <1>10, <1>11, <1>12,
       <1>13, <1>14, <1>15, <1>16 DEF Next, Ingest

\* Every step keeps each message in at most one hand, and its row true.
LEMMA HeldStep ==
    ASSUME TypeOK, Held, [Next]_vars
    PROVE  Held'
  <1> USE MessagesAssumption, BusyWithAMessage
  <1> USE DEF TypeOK, Held, Jobs, PCs, Busy, OneHolder, Holds, RowsOfHolders,
      RowOfHolder, UndecidedHasNoEffect, AppliedAtMostOnce, InboxTellsTheTruth,
      PendingIsHeld, Msg, At
  <1>1. CASE UNCHANGED vars
    BY <1>1 DEF vars, store, kafka, observation
  <1>2. ASSUME NEW c \in Consumers, Fetch(c) PROVE Held'
    <2>1. position + 1 \in Messages /\ position + 1 <= written
      BY <1>2, BoundsAssumption DEF Fetch, Messages
    <2> QED
      BY <1>2, <2>1 DEF Fetch, Idle, store, kafka, observation
  <1>3. ASSUME NEW c \in Consumers, RecordNew(c) PROVE Held'
    \* A call that holds the message would have found its row.
    <2>1. \A d \in Consumers : Holds(d) => Msg(d) # Msg(c)
      BY <1>3 DEF RecordNew
    <2> QED
      BY <1>3, <2>1 DEF RecordNew, Goto, kafka, observation
  <1>4. ASSUME NEW c \in Consumers, RecordDuplicate(c) PROVE Held'
    BY <1>4 DEF RecordDuplicate, Goto, store, kafka, observation
  <1>5. ASSUME NEW c \in Consumers, Apply(c) PROVE Held'
    \* The message is this call's alone, and has had no effect yet.
    <2>1. \A d \in Consumers \ {c} : Holds(d) => Msg(d) # Msg(c)
      BY <1>5 DEF Apply
    <2>2. Msg(c) \in Messages /\ applied[Msg(c)] = 0
      BY <1>5 DEF Apply
    <2> QED
      BY <1>5, <2>1, <2>2 DEF Apply, Committed, Goto, kafka, observation
  <1>6. ASSUME NEW c \in Consumers, ApplyFails(c) PROVE Held'
    BY <1>6 DEF ApplyFails, Goto, store, kafka, observation
  <1>7. ASSUME NEW c \in Consumers, Park(c) PROVE Held'
    \* Only a commit that was not confirmed leaves an effect behind FAILED.
    <2>1. \A d \in Consumers \ {c} : Holds(d) => Msg(d) # Msg(c)
      BY <1>7 DEF Park
    <2>2. Msg(c) \in Messages /\ (applied[Msg(c)] = 0 \/ Msg(c) \in replyLost)
      BY <1>7 DEF Park
    <2> QED
      BY <1>7, <2>1, <2>2 DEF Park, Goto, kafka, observation
  <1>8. ASSUME NEW c \in Consumers, Recalculate(c) PROVE Held'
    BY <1>8 DEF Recalculate, Goto, store, kafka, observation
  <1>9. ASSUME NEW c \in Consumers, Return(c) PROVE Held'
    BY <1>9 DEF Return, Idle, store, observation
  <1>10. ASSUME NEW c \in Consumers, ApplyReplyLost(c) PROVE Held'
    <2>1. \A d \in Consumers \ {c} : Holds(d) => Msg(d) # Msg(c)
      BY <1>10 DEF ApplyReplyLost
    <2>2. Msg(c) \in Messages /\ applied[Msg(c)] = 0
      BY <1>10 DEF ApplyReplyLost
    <2> QED
      BY <1>10, <2>1, <2>2 DEF ApplyReplyLost, Committed, Fault, Goto, kafka
  <1>11. ASSUME NEW c \in Consumers, Throw(c) PROVE Held'
    BY <1>11 DEF Throw, Idle, store
  <1>12. ASSUME NEW c \in Consumers, Crash(c) PROVE Held'
    BY <1>12 DEF Crash, Idle, store
  <1>13. CASE Revoke
    BY <1>13 DEF Revoke, store, observation
  <1>14. CASE CommitOffsets
    BY <1>14 DEF CommitOffsets, store, observation
  <1>15. CASE Produce
    BY <1>15 DEF Produce, store, observation
  <1>16. ASSUME NEW c \in Consumers, Assign(c) PROVE Held'
    BY <1>16 DEF Assign, store
  <1> QED
    BY <1>1, <1>2, <1>3, <1>4, <1>5, <1>6, <1>7, <1>8, <1>9, <1>10, <1>11, <1>12,
       <1>13, <1>14, <1>15, <1>16 DEF Next, Ingest

\* Only a fetch takes a message up, and only one that was sent.
LEMMA SentStep ==
    ASSUME TypeOK, Busy, Sent, [Next]_vars
    PROVE  Sent'
  <1> USE MessagesAssumption
  <1> USE DEF TypeOK, Jobs, Sent, Msg, At, Goto, Idle, store, kafka, observation
  <1>1. CASE UNCHANGED vars
    BY <1>1 DEF vars
  <1>2. ASSUME NEW c \in Consumers, Fetch(c) PROVE Sent'
    BY <1>2 DEF Fetch
  <1>3. ASSUME NEW c \in Consumers, RecordNew(c) \/ RecordDuplicate(c) PROVE Sent'
    BY <1>3 DEF RecordNew, RecordDuplicate
  <1>4. ASSUME NEW c \in Consumers, Apply(c) \/ ApplyFails(c) \/ ApplyReplyLost(c) PROVE Sent'
    BY <1>4 DEF Apply, ApplyFails, ApplyReplyLost
  <1>5. ASSUME NEW c \in Consumers, Park(c) \/ Recalculate(c) PROVE Sent'
    BY <1>5 DEF Park, Recalculate
  <1>6. ASSUME NEW c \in Consumers, Return(c) \/ Throw(c) \/ Crash(c) PROVE Sent'
    BY <1>6 DEF Return, Throw, Crash
  <1>7. CASE Revoke \/ CommitOffsets
    BY <1>7 DEF Revoke, CommitOffsets
  <1>8. CASE Produce
    <2>1. written' = written + 1 /\ written \in Int /\ job' = job
      BY <1>8 DEF Produce
    <2>2. \A c \in Consumers : job[c].pc # "idle" => Msg(c) \in Messages
      BY BusyWithAMessage
    <2> QED
      BY <2>1, <2>2 DEF Messages
  <1>9. ASSUME NEW c \in Consumers, Assign(c) PROVE Sent'
    BY <1>9 DEF Assign
  <1> QED
    BY <1>1, <1>2, <1>3, <1>4, <1>5, <1>6, <1>7, <1>8, <1>9 DEF Next, Ingest

\* No step passes a message without a row and without a reason.
LEMMA PassedStep ==
    ASSUME TypeOK, Busy, Sent, PassedIsKnown, [Next]_vars
    PROVE  PassedIsKnown'
  <1> USE MessagesAssumption, BusyWithAMessage
  <1> USE DEF TypeOK, Jobs, PCs, PassedIsKnown, Known, Msg, At, Goto, Idle, store, kafka,
      observation
  <1>1. CASE UNCHANGED vars
    BY <1>1 DEF vars
  <1>2. ASSUME NEW c \in Consumers, Fetch(c) PROVE PassedIsKnown'
    BY <1>2 DEF Fetch
  <1>3. ASSUME NEW c \in Consumers, RecordNew(c) PROVE PassedIsKnown'
    BY <1>3 DEF RecordNew
  <1>4. ASSUME NEW c \in Consumers, RecordDuplicate(c) PROVE PassedIsKnown'
    BY <1>4 DEF RecordDuplicate
  <1>5. ASSUME NEW c \in Consumers, Apply(c) PROVE PassedIsKnown'
    BY <1>5 DEF Apply, Committed
  <1>6. ASSUME NEW c \in Consumers, ApplyFails(c) \/ Recalculate(c) PROVE PassedIsKnown'
    BY <1>6 DEF ApplyFails, Recalculate
  <1>7. ASSUME NEW c \in Consumers, ApplyReplyLost(c) PROVE PassedIsKnown'
    BY <1>7 DEF ApplyReplyLost, Committed
  <1>8. ASSUME NEW c \in Consumers, Park(c) PROVE PassedIsKnown'
    BY <1>8 DEF Park
  <1>9. ASSUME NEW c \in Consumers, Return(c) PROVE PassedIsKnown'
    \* The one message passed is the call's own, and it has its row.
    <2>1. \A m \in Messages : m <= position' => m <= position \/ m = Msg(c)
      BY <1>9 DEF Return, Advanced, Messages
    <2>2. inbox[Msg(c)] # "ABSENT"
      BY <1>9 DEF Return
    <2> QED
      BY <1>9, <2>1, <2>2 DEF Return
  <1>10. ASSUME NEW c \in Consumers, Throw(c) PROVE PassedIsKnown'
    <2>1. \A m \in Messages : m <= position' =>
             m <= position \/ (m = Msg(c) /\ position' # position)
      BY <1>10 DEF Throw, Advanced, Messages
    <2>2. position' # position => interrupted' = interrupted \cup {Msg(c)}
      BY <1>10 DEF Throw
    <2>3. interrupted \subseteq interrupted' /\ missed' = missed
      BY <1>10 DEF Throw
    <2>4. inbox' = inbox /\ committed' = committed
      BY <1>10 DEF Throw
    <2>5. \A d \in Consumers : job'[d] = job[d] \/ job'[d].pc = "idle"
      BY <1>10 DEF Throw
    <2> QED
      BY <2>1, <2>2, <2>3, <2>4, <2>5
  <1>11. ASSUME NEW c \in Consumers, Crash(c) PROVE PassedIsKnown'
    BY <1>11 DEF Crash
  <1>12. CASE Revoke \/ CommitOffsets
    BY <1>12 DEF Revoke, CommitOffsets
  <1>13. CASE Produce
    BY <1>13 DEF Produce
  <1>14. ASSUME NEW c \in Consumers, Assign(c) PROVE PassedIsKnown'
    \* What the group starts behind is missed, unless it has a row.
    BY <1>14 DEF Assign
  <1> QED
    BY <1>1, <1>2, <1>3, <1>4, <1>5, <1>6, <1>7, <1>8, <1>9, <1>10, <1>11, <1>12,
       <1>13, <1>14 DEF Next, Ingest

\* Nobody holds anything to begin with.
LEMMA InitHolds ==
    ASSUME Init
    PROVE  IInv
  <1>1. TypeOK
    <2>1. written \in 0 .. LastOffset /\ position \in 0 .. written /\ committed \in 0 .. written
          /\ faults \in 0 .. MaxFaults
      BY BoundsAssumption DEF Init
    <2>2. inbox \in [Messages -> {"ABSENT", "PENDING", "PROCESSED", "FAILED"}]
          /\ applied \in [Messages -> Nat]
      BY DEF Init
    <2>3. job \in [Consumers -> Jobs]
      BY DEF Init, Idle, Jobs, PCs
    <2>4. owner \in Consumers \cup {NoConsumer} /\ handled \in BOOLEAN
          /\ interrupted \subseteq Messages /\ replyLost \subseteq Messages /\ missed \subseteq Messages
      BY DEF Init
    <2> QED
      BY <2>1, <2>2, <2>3, <2>4 DEF TypeOK
  <1>2. Held
    BY DEF Init, Held, Busy, OneHolder, Holds, RowsOfHolders, RowOfHolder, At, Msg, Idle,
           UndecidedHasNoEffect, AppliedAtMostOnce, InboxTellsTheTruth, PendingIsHeld
  <1>3. Sent /\ PassedIsKnown
    BY DEF Init, Sent, PassedIsKnown, Msg, Idle, Messages
  <1> QED
    BY <1>1, <1>2, <1>3 DEF IInv

(***************************************************************************)
(* The inductive invariant of the inbox: a message whose row is PENDING is *)
(* held by one call, which is the only one that may still apply it.        *)
(***************************************************************************)
THEOREM IngestInductive == Spec => []IInv
  <1>1. Init => IInv
    BY InitHolds
  <1>2. IInv /\ [Next]_vars => IInv'
    BY TypeStep, HeldStep, SentStep, PassedStep DEF IInv, Held
  <1> QED
    BY <1>1, <1>2, PTL DEF Spec

\* The inbox, the calls and the offsets are always well-formed.
THEOREM IngestTypeCorrect == Spec => []TypeOK
  <1>1. IInv => TypeOK
    BY DEF IInv
  <1> QED
    BY <1>1, IngestInductive, PTL

(***************************************************************************)
(* ingest applies a message at most once, however often it is delivered,   *)
(* by however many consumers and with whatever faults.                     *)
(***************************************************************************)
THEOREM NeverAppliedTwice == Spec => []AppliedAtMostOnce
  <1>1. IInv => AppliedAtMostOnce
    BY DEF IInv, Held
  <1> QED
    BY <1>1, IngestInductive, PTL

(***************************************************************************)
(* markProcessed and markFailed leave a row that tells what happened to    *)
(* the stock, unless the reply to a commit was lost.                       *)
(***************************************************************************)
THEOREM InboxTrue == Spec => []InboxTellsTheTruth
  <1>1. IInv => InboxTellsTheTruth
    BY DEF IInv, Held
  <1> QED
    BY <1>1, IngestInductive, PTL

(***************************************************************************)
(* A PENDING row belongs to a call of ingest that is still going on,       *)
(* unless that call was cut off.                                           *)
(***************************************************************************)
THEOREM PendingHeld == Spec => []PendingIsHeld
  <1>1. IInv => PendingIsHeld
    BY DEF IInv, Held
  <1> QED
    BY <1>1, IngestInductive, PTL

(***************************************************************************)
(* The group never commits past a message that is not in the inbox, unless *)
(* its call was cut off or the group started behind it.                    *)
(***************************************************************************)
THEOREM NothingSkipped == Spec => []CommittedIsRecorded
  <1>1. IInv => CommittedIsRecorded
    BY DEF IInv, PassedIsKnown, Known, CommittedIsRecorded
  <1> QED
    BY <1>1, IngestInductive, PTL
=============================================================================
