------------------------------ MODULE KafkaBoot -----------------------------
(***************************************************************************)
(* The start of a service process: bootstrap() creates the topics it       *)
(* needs (KafkaAdminService.ensureTopics) and waits for their leaders      *)
(* before it subscribes, because a subscription to a topic that is missing *)
(* or has no leader ends the process.  Several instances start at once.    *)
(* The broker is modelled from what the code expects of it.                *)
(***************************************************************************)
EXTENDS Integers

CONSTANTS
    Instances,     \* service processes
    Topics,        \* KAFKA_TOPICS
    LeaderAttempts \* LEADER_ATTEMPTS

ASSUME LeaderAttemptsAssumption == LeaderAttempts \in Nat \ {0}

VARIABLES
    topics, \* topics that exist
    led,    \* topics whose every partition has a leader
    boot    \* where each instance is, the topics it found missing, its attempts

broker == <<topics, led>>
bootVars == <<broker, boot>>

Starting == [pc |-> "list", missing |-> {}, attempt |-> 1]
BootPCs == {"list", "create", "leaders", "subscribe", "up"}

BootTypeOK ==
    /\ led \subseteq topics
    /\ topics \subseteq Topics
    /\ boot \in [Instances -> [pc : BootPCs, missing : SUBSET Topics,
                               attempt : 1 .. LeaderAttempts + 1]]

BootInit ==
    /\ topics = {}
    /\ led = {}
    /\ boot = [i \in Instances |-> Starting]

Up(i) == boot[i].pc = "up"
Enter(i, pc) == boot' = [boot EXCEPT ![i].pc = pc]

\* The controller elects leaders some time after a topic was created.
ElectLeaders(t) ==
    /\ t \in topics \ led
    /\ led' = led \cup {t}
    /\ UNCHANGED <<topics, boot>>

ListTopics(i) ==
    LET missing == Topics \ topics IN
    /\ boot[i].pc = "list"
    /\ boot' = [boot EXCEPT ![i].pc = IF missing = {} THEN "leaders" ELSE "create",
                            ![i].missing = missing]
    /\ UNCHANGED broker

\* Losing the race with another instance is an error the caller takes for success.
CreateTopics(i) ==
    /\ boot[i].pc = "create"
    /\ topics' = topics \cup boot[i].missing
    /\ Enter(i, "leaders")
    /\ UNCHANGED led

\* Defect: an instance waits for the leaders of the topics it created itself.
AwaitedOwn(i) == boot[i].missing

\* The topics whose leaders are waited for: all of them, whoever created them.
AwaitedTopics(i) == Topics

LeadersFound(i) ==
    /\ boot[i].pc = "leaders"
    /\ AwaitedTopics(i) \subseteq led
    /\ Enter(i, "subscribe")
    /\ UNCHANGED broker

\* After the last attempt the instance goes on with a warning.
LeadersMissing(i) ==
    /\ boot[i].pc = "leaders"
    /\ ~(AwaitedTopics(i) \subseteq led)
    /\ boot' = [boot EXCEPT ![i].attempt = @ + 1,
                            ![i].pc = IF boot[i].attempt = LeaderAttempts
                                      THEN "subscribe" ELSE "leaders"]
    /\ UNCHANGED broker

Subscribe(i) ==
    /\ boot[i].pc = "subscribe"
    /\ Topics \subseteq led
    /\ Enter(i, "up")
    /\ UNCHANGED broker

\* Fatal to kafkajs: the process ends and is started again.
SubscribeFails(i) ==
    /\ boot[i].pc = "subscribe"
    /\ ~(Topics \subseteq led)
    /\ boot' = [boot EXCEPT ![i] = Starting]
    /\ UNCHANGED broker

\* Any other error of the broker rejects bootstrap, which ends the process too.
Restart(i) ==
    /\ boot' = [boot EXCEPT ![i] = Starting]
    /\ UNCHANGED broker

BootStep(i) ==
    \/ ListTopics(i)
    \/ CreateTopics(i)
    \/ LeadersFound(i)
    \/ LeadersMissing(i)
    \/ Subscribe(i)
    \/ SubscribeFails(i)

(***************************************************************************)
(* No race of instances makes one subscribe too early: whoever subscribes  *)
(* either finds every topic with its leaders or has used up its attempts   *)
(* of waiting for them.                                                    *)
(***************************************************************************)
SubscribesToReadyTopics ==
    \A i \in Instances : boot[i].pc = "subscribe" =>
        \/ Topics \subseteq led
        \/ boot[i].attempt > LeaderAttempts
=============================================================================
