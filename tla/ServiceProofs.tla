---------------------------- MODULE ServiceProofs ---------------------------
(***************************************************************************)
(* Theorems about Service: what BcIngest promises of the consumer loop     *)
(* holds of instances that start, race for the topics, die and start       *)
(* again, for any number of them.                                          *)
(***************************************************************************)
EXTENDS Service, BcIngestProofs

\* Every step of the service is a step of the inbox or leaves it alone.
LEMMA StepIsIngestStep ==
    ASSUME [ServiceNext]_serviceVars
    PROVE  [Next]_vars
  <1>1. CASE UNCHANGED serviceVars
    BY <1>1 DEF serviceVars
  <1>2. CASE SendMessage
    BY <1>2 DEF SendMessage, Next
  <1>3. ASSUME NEW c \in Consumers, Join(c) PROVE [Next]_vars
    BY <1>3 DEF Join, Next
  <1>4. CASE Consume
    BY <1>4 DEF Consume, Next
  <1>5. ASSUME NEW c \in Consumers, Die(c) PROVE [Next]_vars
    BY <1>5 DEF Die, Next
  <1>6. CASE LeaderElected \/ \E c \in Consumers : BootProceeds(c)
    BY <1>6 DEF LeaderElected, BootProceeds
  <1> QED
    BY <1>1, <1>2, <1>3, <1>4, <1>5, <1>6 DEF ServiceNext

(***************************************************************************)
(* The service implements the inbox specification: starting up, waiting    *)
(* for leaders and restarting are stuttering steps of it, so whatever is   *)
(* proved of ingest holds of the service.                                  *)
(***************************************************************************)
THEOREM ServiceImplementsIngest == ServiceSpec => Spec
  <1>1. ServiceInit => Init
    BY DEF ServiceInit
  <1>2. [ServiceNext]_serviceVars => [Next]_vars
    BY StepIsIngestStep
  <1> QED
    BY <1>1, <1>2, PTL DEF ServiceSpec, Spec

-----------------------------------------------------------------------------
(* The start of an instance *)

\* The attempts are used up only by an instance that goes on to subscribe.
AttemptsLeft ==
    \A i \in Instances : boot[i].pc \in {"list", "create", "leaders"} =>
        boot[i].attempt <= LeaderAttempts

BootInv == BootTypeOK /\ AttemptsLeft /\ SubscribesToReadyTopics

LEMMA BootInitHolds ==
    ASSUME BootInit
    PROVE  BootInv
  BY LeaderAttemptsAssumption
  DEF BootInit, BootInv, BootTypeOK, AttemptsLeft, SubscribesToReadyTopics, Starting, BootPCs

\* One step of one instance; the broker's leaders never become fewer.
LEMMA BootStepKeeps ==
    ASSUME BootInv, NEW i \in Instances, BootStep(i)
    PROVE  BootInv'
  <1> USE LeaderAttemptsAssumption
  <1> USE DEF BootInv, BootTypeOK, AttemptsLeft, SubscribesToReadyTopics, BootPCs, broker, Enter
  <1>1. CASE ListTopics(i)
    BY <1>1 DEF ListTopics
  <1>2. CASE CreateTopics(i)
    BY <1>2 DEF CreateTopics
  <1>3. CASE LeadersFound(i)
    BY <1>3 DEF LeadersFound, AwaitedTopics
  <1>4. CASE LeadersMissing(i)
    <2>1. boot[i].attempt \in 1 .. LeaderAttempts
      BY <1>4 DEF LeadersMissing, AwaitedTopics
    <2> DEFINE next == [boot[i] EXCEPT !.attempt = @ + 1,
                                       !.pc = IF boot[i].attempt = LeaderAttempts
                                              THEN "subscribe" ELSE "leaders"]
    <2>2. boot' = [boot EXCEPT ![i] = next] /\ UNCHANGED <<topics, led>>
      BY <1>4 DEF LeadersMissing
    <2>3. next \in [pc : BootPCs, missing : SUBSET Topics, attempt : 1 .. LeaderAttempts + 1]
      <3>1. boot[i].attempt + 1 \in 1 .. LeaderAttempts + 1
        BY <2>1
      <3>2. boot[i] \in [pc : BootPCs, missing : SUBSET Topics, attempt : 1 .. LeaderAttempts + 1]
        OBVIOUS
      <3> HIDE <2>1
      <3> QED
        BY <3>1, <3>2
    <2>4. next.pc = "subscribe" => next.attempt > LeaderAttempts
      BY <2>1
    <2>5. next.pc \in {"list", "create", "leaders"} => next.attempt <= LeaderAttempts
      BY <2>1
    <2> QED
      BY <2>2, <2>3, <2>4, <2>5
  <1>5. CASE Subscribe(i)
    BY <1>5 DEF Subscribe
  <1>6. CASE SubscribeFails(i)
    BY <1>6 DEF SubscribeFails, Starting
  <1> QED
    BY <1>1, <1>2, <1>3, <1>4, <1>5, <1>6 DEF BootStep

LEMMA BootInvStep ==
    ASSUME BootInv, [ServiceNext]_serviceVars
    PROVE  BootInv'
  <1>1. CASE UNCHANGED bootVars
    BY <1>1 DEF bootVars, broker, BootInv, BootTypeOK, AttemptsLeft, SubscribesToReadyTopics
  <1>2. ASSUME NEW c \in Consumers, BootProceeds(c) PROVE BootInv'
    BY <1>2, BootStepKeeps, ServiceAssumption DEF BootProceeds
  <1>3. ASSUME NEW c \in Consumers, Die(c) PROVE BootInv'
    BY <1>3, LeaderAttemptsAssumption, ServiceAssumption
    DEF Die, Restart, Starting, broker, BootInv, BootTypeOK, AttemptsLeft, SubscribesToReadyTopics, BootPCs
  <1>4. ASSUME NEW t \in Topics, ElectLeaders(t) PROVE BootInv'
    BY <1>4 DEF ElectLeaders, BootInv, BootTypeOK, AttemptsLeft, SubscribesToReadyTopics
  <1> QED
    BY <1>1, <1>2, <1>3, <1>4
    DEF ServiceNext, SendMessage, Join, Consume, LeaderElected, serviceVars

(***************************************************************************)
(* ensureTopics keeps every instance from subscribing before all topics    *)
(* have leaders, unless it has waited through all its attempts, however    *)
(* many instances create the topics at once.                               *)
(***************************************************************************)
THEOREM ReadyTopics == ServiceSpec => []SubscribesToReadyTopics
  <1>1. ServiceInit => BootInv
    BY BootInitHolds DEF ServiceInit
  <1>2. BootInv /\ [ServiceNext]_serviceVars => BootInv'
    BY BootInvStep
  <1>3. BootInv => SubscribesToReadyTopics
    BY DEF BootInv
  <1> QED
    BY <1>1, <1>2, <1>3, PTL DEF ServiceSpec

-----------------------------------------------------------------------------
(* Starting and consuming together *)

LEMMA WorkersAreUpStep ==
    ASSUME TypeOK, BootInv, WorkersAreUp, [ServiceNext]_serviceVars
    PROVE  WorkersAreUp'
  <1> USE ServiceAssumption, MessagesAssumption
  <1> USE DEF TypeOK, Jobs, PCs, WorkersAreUp, Up, At, Goto, Idle, kafka, store, observation
  <1>1. CASE UNCHANGED serviceVars
    BY <1>1 DEF serviceVars, vars, bootVars
  <1>2. CASE SendMessage
    BY <1>2 DEF SendMessage, Produce, bootVars
  <1>3. ASSUME NEW c \in Consumers, Join(c) PROVE WorkersAreUp'
    BY <1>3 DEF Join, Assign, bootVars
  <1>4. CASE Consume
    <2>1. boot' = boot
      BY <1>4 DEF Consume, bootVars
    <2>2. ASSUME NEW c \in Consumers, Fetch(c) PROVE WorkersAreUp'
      BY <2>1, <2>2 DEF Fetch
    <2>3. ASSUME NEW c \in Consumers, Ingest(c) \/ ApplyReplyLost(c) \/ Throw(c)
          PROVE  WorkersAreUp'
      \* Only a call in progress goes on, and nobody gains the partition.
      <3>1. owner' = owner
        BY <2>3 DEF Ingest, RecordNew, RecordDuplicate, Apply, ApplyFails, Park, Recalculate,
                    Return, ApplyReplyLost, Throw
      <3>2. job[c].pc # "idle"
        BY <2>3 DEF Ingest, RecordNew, RecordDuplicate, Apply, ApplyFails, Park, Recalculate,
                    Return, ApplyReplyLost, Throw
      <3>3. \A d \in Consumers : d # c => job'[d] = job[d]
        BY <2>3 DEF Ingest, RecordNew, RecordDuplicate, Apply, ApplyFails, Park, Recalculate,
                    Return, ApplyReplyLost, Throw
      <3> QED
        BY <2>1, <3>1, <3>2, <3>3
    <2>4. CASE CommitOffsets \/ Revoke
      BY <2>1, <2>4 DEF CommitOffsets, Revoke
    <2> QED
      BY <1>4, <2>2, <2>3, <2>4 DEF Consume
  <1>5. ASSUME NEW c \in Consumers, Die(c) PROVE WorkersAreUp'
    BY <1>5 DEF Die, Crash, Restart
  <1>6. ASSUME NEW c \in Consumers, BootProceeds(c) PROVE WorkersAreUp'
    \* An instance that still starts is not up, so nothing is lost by its step.
    <2>1. ~Up(c) /\ \A d \in Consumers : d # c => boot'[d] = boot[d]
      BY <1>6 DEF BootProceeds, BootStep, ListTopics, CreateTopics, LeadersFound,
                  LeadersMissing, Subscribe, SubscribeFails, Enter, BootInv, BootTypeOK
    <2>2. job' = job /\ owner' = owner
      BY <1>6 DEF BootProceeds, vars
    <2> QED
      BY <2>1, <2>2
  <1>7. CASE LeaderElected
    BY <1>7 DEF LeaderElected, ElectLeaders, vars
  <1> QED
    BY <1>1, <1>2, <1>3, <1>4, <1>5, <1>6, <1>7 DEF ServiceNext

(***************************************************************************)
(* The types of both parts, and the order of bootstrap(): nobody works on  *)
(* a message, or owns the partition, before its instance has ensured the   *)
(* topics and subscribed.                                                  *)
(***************************************************************************)
THEOREM ServiceTypeCorrect == ServiceSpec => []ServiceTypeOK
  <1>1. ServiceInit => BootInv /\ WorkersAreUp
    <2>1. ServiceInit => BootInv
      BY BootInitHolds DEF ServiceInit
    <2>2. ServiceInit => WorkersAreUp
      BY MessagesAssumption DEF ServiceInit, Init, WorkersAreUp, Idle
    <2> QED
      BY <2>1, <2>2
  <1>2. TypeOK /\ BootInv /\ WorkersAreUp /\ [ServiceNext]_serviceVars => BootInv' /\ WorkersAreUp'
    BY BootInvStep, WorkersAreUpStep
  <1>3. ServiceSpec => []TypeOK
    BY ServiceImplementsIngest, IngestTypeCorrect, PTL
  <1>4. TypeOK /\ BootInv /\ WorkersAreUp => ServiceTypeOK
    BY DEF BootInv, ServiceTypeOK
  <1> QED
    BY <1>1, <1>2, <1>3, <1>4, PTL DEF ServiceSpec

(***************************************************************************)
(* Whatever instances do, a message is applied at most once and none is    *)
(* committed past without a row or a reason.                               *)
(***************************************************************************)
THEOREM ServiceSafe == ServiceSpec => [](AppliedAtMostOnce /\ CommittedIsRecorded)
  BY ServiceImplementsIngest, NeverAppliedTwice, NothingSkipped, PTL
=============================================================================
