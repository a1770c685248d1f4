------------------------------ MODULE BcIngest ------------------------------
(***************************************************************************)
(* The inbox: one partition of a Business Central topic, the consumers     *)
(* that read it and BcEventsIngestService.ingest, which records a message  *)
(* and, in a second transaction, applies it.                               *)
(*                                                                         *)
(* Every statement is an action, so a consumer may die, lose the partition *)
(* or lose a reply between any two of them, and Kafka may deliver again    *)
(* what it has delivered.  Kafka and the framework's consumer loop are     *)
(* modelled from what the handlers rely on.                                *)
(***************************************************************************)
EXTENDS Integers

CONSTANTS
    LastOffset, \* number of messages in the partition
    Malformed,  \* offsets whose payload does not validate
    Consumers,  \* service processes of the consumer group
    NoMessage,
    NoConsumer,
    MaxFaults   \* bound on crashes, rebalances, lost replies and thrown errors

ASSUME BoundsAssumption == LastOffset \in Nat /\ MaxFaults \in Nat

Messages == 1 .. LastOffset

ASSUME MessagesAssumption ==
    /\ Malformed \subseteq Messages
    /\ NoMessage \notin Messages
    /\ NoConsumer \notin Consumers

VARIABLES
    inbox,       \* BcEvent.status of each message, "ABSENT" without a row
    applied,     \* how often the message's effect was committed to stock
    job,         \* the ingest call each consumer is in
    written,     \* messages in the partition so far
    owner,       \* the consumer the partition is assigned to
    position,    \* offset the owner has got to
    handled,     \* the owner has handled a message since the assignment
    committed,   \* offset the group has committed, 0 for none
    faults,
    (***********************************************************************)
    (* Observation only: messages whose ingest call did not get to an end  *)
    (* after the inbox row was written, or ended in a thrown error the     *)
    (* consumer passed over; messages whose commit was not confirmed; and  *)
    (* messages a group without a committed offset started behind.         *)
    (***********************************************************************)
    interrupted,
    replyLost,
    missed

store == <<inbox, applied>>
kafka == <<written, owner, position, handled, committed>>
observation == <<interrupted, replyLost, missed>>
vars == <<store, job, kafka, faults, observation>>

Idle == [pc |-> "idle", msg |-> NoMessage]
PCs == {"idle", "record", "apply", "park", "recalculate", "done"}
Jobs == [pc : PCs, msg : Messages \cup {NoMessage}]

TypeOK ==
    /\ inbox \in [Messages -> {"ABSENT", "PENDING", "PROCESSED", "FAILED"}]
    /\ applied \in [Messages -> Nat]
    /\ job \in [Consumers -> Jobs]
    /\ written \in 0 .. LastOffset
    /\ owner \in Consumers \cup {NoConsumer}
    /\ position \in 0 .. written
    /\ handled \in BOOLEAN
    /\ committed \in 0 .. written
    /\ faults \in 0 .. MaxFaults
    /\ interrupted \subseteq Messages
    /\ replyLost \subseteq Messages
    /\ missed \subseteq Messages

Init ==
    /\ inbox = [m \in Messages |-> "ABSENT"]
    /\ applied = [m \in Messages |-> 0]
    /\ job = [c \in Consumers |-> Idle]
    /\ written = 0
    /\ owner = NoConsumer
    /\ position = 0
    /\ handled = FALSE
    /\ committed = 0
    /\ faults = 0
    /\ interrupted = {}
    /\ replyLost = {}
    /\ missed = {}

At(c, pc) == job[c].pc = pc
Msg(c) == job[c].msg
Goto(c, pc) == job' = [job EXCEPT ![c].pc = pc]
Fault == faults < MaxFaults /\ faults' = faults + 1

-----------------------------------------------------------------------------
(* Kafka *)

\* Business Central sends the next message.
Produce ==
    /\ written < LastOffset
    /\ written' = written + 1
    /\ UNCHANGED <<store, job, owner, position, handled, committed, faults, observation>>

(***************************************************************************)
(* A group resumes behind what it committed.  One that has committed       *)
(* nothing starts at the end: the subscription does not ask for the        *)
(* beginning.                                                              *)
(***************************************************************************)
Start == IF committed = 0 THEN written ELSE committed

Assign(c) ==
    /\ owner = NoConsumer
    /\ owner' = c
    /\ position' = Start
    /\ handled' = FALSE
    /\ missed' = missed \cup {m \in Messages : m <= Start /\ inbox[m] = "ABSENT"}
    /\ UNCHANGED <<store, job, written, committed, faults, interrupted, replyLost>>

\* The owner is handed the next message once it is through with the last one.
Fetch(c) ==
    /\ c = owner
    /\ job[c] = Idle
    /\ position < written
    /\ job' = [job EXCEPT ![c] = [pc |-> "record", msg |-> position + 1]]
    /\ UNCHANGED <<store, kafka, faults, observation>>

\* Defect: any consumer that ends a call moves the owner's position.
AdvancedAlways(c) == position + 1

\* A consumer that has lost the partition moves nobody's position.
Advanced(c) == IF c = owner /\ Msg(c) = position + 1 THEN position + 1 ELSE position

Return(c) ==
    /\ At(c, "done")
    /\ job' = [job EXCEPT ![c] = Idle]
    /\ position' = Advanced(c)
    /\ handled' = (handled \/ position' # position)
    /\ UNCHANGED <<store, written, owner, committed, faults, observation>>

\* Offsets are committed behind the messages, not with them.
CommitOffsets ==
    /\ owner # NoConsumer
    /\ handled
    /\ committed' = position
    /\ handled' = FALSE
    /\ UNCHANGED <<store, job, written, owner, position, faults, observation>>

\* The partition is taken from its owner, whose call in progress goes on.
Revoke ==
    /\ Fault
    /\ owner # NoConsumer
    /\ owner' = NoConsumer
    /\ UNCHANGED <<store, job, written, position, handled, committed, observation>>

-----------------------------------------------------------------------------
(* BcEventsIngestService.ingest *)

\* Defect: the unique key not used, every delivery taken for a new one.
RecordNewAlways(c) ==
    LET m == Msg(c) IN
    /\ At(c, "record")
    /\ inbox' = [inbox EXCEPT ![m] = "PENDING"]
    /\ Goto(c, IF m \in Malformed THEN "park" ELSE "apply")
    /\ UNCHANGED <<applied, kafka, faults, observation>>

(***************************************************************************)
(* record: an insert that does nothing when the (topic, partition, offset) *)
(* is known.  Validation follows without a pause.                          *)
(***************************************************************************)
RecordNew(c) ==
    LET m == Msg(c) IN
    /\ At(c, "record")
    /\ inbox[m] = "ABSENT"
    /\ inbox' = [inbox EXCEPT ![m] = "PENDING"]
    /\ Goto(c, IF m \in Malformed THEN "park" ELSE "apply")
    /\ UNCHANGED <<applied, kafka, faults, observation>>

RecordDuplicate(c) ==
    /\ At(c, "record")
    /\ inbox[Msg(c)] # "ABSENT"
    /\ Goto(c, "done")
    /\ UNCHANGED <<store, kafka, faults, observation>>

Committed(c) ==
    /\ inbox' = [inbox EXCEPT ![Msg(c)] = "PROCESSED"]
    /\ applied' = [applied EXCEPT ![Msg(c)] = @ + 1]

\* Defect: the inbox row marked outside the transaction, and not reached.
ApplyUnmarked(c) ==
    /\ At(c, "apply")
    /\ applied' = [applied EXCEPT ![Msg(c)] = @ + 1]
    /\ Goto(c, "recalculate")
    /\ UNCHANGED <<inbox, kafka, faults, observation>>

\* The transaction: the effect on stock and the PROCESSED mark together.
Apply(c) ==
    /\ At(c, "apply")
    /\ Committed(c)
    /\ Goto(c, "recalculate")
    /\ UNCHANGED <<kafka, faults, observation>>

\* Defect: a rolled-back message neither parked nor reported.
ApplyFailsSilently(c) ==
    /\ At(c, "apply")
    /\ Goto(c, "done")
    /\ UNCHANGED <<store, kafka, faults, observation>>

\* The transaction rolls back: the message is to be parked.
ApplyFails(c) ==
    /\ At(c, "apply")
    /\ Goto(c, "park")
    /\ UNCHANGED <<store, kafka, faults, observation>>

\* The transaction commits but the connection breaks before the answer.
ApplyReplyLost(c) ==
    /\ At(c, "apply")
    /\ Fault
    /\ Committed(c)
    /\ Goto(c, "park")
    /\ replyLost' = replyLost \cup {Msg(c)}
    /\ UNCHANGED <<kafka, interrupted, missed>>

\* markFailed, for a malformed message and for one that could not be applied.
Park(c) ==
    /\ At(c, "park")
    /\ inbox' = [inbox EXCEPT ![Msg(c)] = "FAILED"]
    /\ Goto(c, "done")
    /\ UNCHANGED <<applied, kafka, faults, observation>>

\* tryRecalculate never throws; what it does is the recalculation's business.
Recalculate(c) ==
    /\ At(c, "recalculate")
    /\ Goto(c, "done")
    /\ UNCHANGED <<store, kafka, faults, observation>>

(***************************************************************************)
(* The inbox is unavailable: record or markFailed throws and ingest with   *)
(* it.  The error is an HttpException, which the consumer loop may pass    *)
(* over or answer by delivering the message again.                         *)
(***************************************************************************)
Throw(c) ==
    /\ job[c].pc \in {"record", "park"}
    /\ Fault
    /\ job' = [job EXCEPT ![c] = Idle]
    /\ position' \in {position, Advanced(c)}
    /\ handled' = (handled \/ position' # position)
    /\ interrupted' = IF At(c, "park") \/ position' # position
                      THEN interrupted \cup {Msg(c)} ELSE interrupted
    /\ UNCHANGED <<store, written, owner, committed, replyLost, missed>>

\* The process dies, and gives up the partition if it owned it.
Crash(c) ==
    /\ Fault
    /\ job' = [job EXCEPT ![c] = Idle]
    /\ owner' = IF c = owner THEN NoConsumer ELSE owner
    /\ interrupted' = IF job[c].pc \in {"apply", "park"}
                      THEN interrupted \cup {Msg(c)} ELSE interrupted
    /\ UNCHANGED <<store, written, position, handled, committed, replyLost, missed>>

-----------------------------------------------------------------------------
Ingest(c) ==
    \/ RecordNew(c)
    \/ RecordDuplicate(c)
    \/ Apply(c)
    \/ ApplyFails(c)
    \/ Park(c)
    \/ Recalculate(c)
    \/ Return(c)

Next ==
    \/ Produce
    \/ \E c \in Consumers : Assign(c)
    \/ \E c \in Consumers : Fetch(c)
    \/ \E c \in Consumers : Ingest(c)
    \/ \E c \in Consumers : ApplyReplyLost(c)
    \/ \E c \in Consumers : Throw(c)
    \/ \E c \in Consumers : Crash(c)
    \/ Revoke
    \/ CommitOffsets

\* The partition gets an owner, which keeps fetching, and a call goes on.
Fairness ==
    /\ WF_vars(\E c \in Consumers : Assign(c))
    /\ \A c \in Consumers : WF_vars(Fetch(c)) /\ WF_vars(Ingest(c))

Spec == Init /\ [][Next]_vars
FairSpec == Spec /\ Fairness

-----------------------------------------------------------------------------
(* Safety *)

(***************************************************************************)
(* No delivery, redelivery, rebalance or crash applies a message twice: a  *)
(* delta is never counted double.                                          *)
(***************************************************************************)
AppliedAtMostOnce == \A m \in Messages : applied[m] <= 1

(***************************************************************************)
(* The inbox row tells what happened to the stock, except for a commit     *)
(* whose confirmation was lost: PROCESSED if and only if applied, so a     *)
(* FAILED message may be replayed.                                         *)
(***************************************************************************)
InboxTellsTheTruth ==
    \A m \in Messages \ replyLost : inbox[m] = "PROCESSED" <=> applied[m] = 1

(***************************************************************************)
(* A PENDING row is in somebody's hands, unless the call that wrote it was *)
(* cut off: nobody else ever takes it up again.                            *)
(***************************************************************************)
PendingIsHeld ==
    \A m \in Messages \ interrupted : inbox[m] = "PENDING" =>
        \E c \in Consumers : Msg(c) = m /\ job[c].pc \in {"apply", "park"}

(***************************************************************************)
(* No message is skipped: what the group has committed past is in the      *)
(* inbox, unless its call was cut off or the group started behind it.      *)
(***************************************************************************)
CommittedIsRecorded ==
    \A m \in Messages : m <= committed =>
        inbox[m] # "ABSENT" \/ m \in interrupted \/ m \in missed

-----------------------------------------------------------------------------
(* Liveness *)

Decided(m) == inbox[m] \in {"PROCESSED", "FAILED"}

(***************************************************************************)
(* Every message sent ends PROCESSED or FAILED, unless its ingest call was *)
(* cut off or the group started behind it.                                 *)
(***************************************************************************)
EveryMessageDecided ==
    \A m \in Messages :
        m <= written ~> Decided(m) \/ m \in interrupted \/ m \in missed

\* The documented promise: a recorded message is applied or parked.
RecordedIsDecided == \A m \in Messages : inbox[m] = "PENDING" ~> Decided(m)
=============================================================================
