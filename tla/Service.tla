------------------------------- MODULE Service ------------------------------
(***************************************************************************)
(* Instances of the service from their start on: KafkaBoot brings one up,  *)
(* an instance that is up may be assigned the partition, and BcIngest is   *)
(* what it then does.  A crash sends it back to the start.                 *)
(***************************************************************************)
EXTENDS BcIngest, KafkaBoot

CONSTANT BcTopic \* the topic whose partition is consumed

ASSUME ServiceAssumption == Instances = Consumers /\ BcTopic \in Topics

serviceVars == <<vars, bootVars>>

ServiceInit == Init /\ BootInit

\* Business Central can only send to a topic that is there.
SendMessage == Produce /\ BcTopic \in led /\ UNCHANGED bootVars

\* Defect: the consumer connected before the topics are ensured.
JoinEarly(c) == Assign(c) /\ UNCHANGED bootVars

\* Only an instance that has subscribed is a member of the group.
Join(c) == Assign(c) /\ Up(c) /\ UNCHANGED bootVars

Consume ==
    /\ \/ \E c \in Consumers : Fetch(c) \/ Ingest(c) \/ ApplyReplyLost(c) \/ Throw(c)
       \/ CommitOffsets
       \/ Revoke
    /\ UNCHANGED bootVars

\* The process dies, in a handler or while it starts.
Die(c) == Crash(c) /\ Restart(c)

BootProceeds(c) == BootStep(c) /\ UNCHANGED vars

LeaderElected == \E t \in Topics : ElectLeaders(t) /\ UNCHANGED vars

ServiceNext ==
    \/ SendMessage
    \/ \E c \in Consumers : Join(c)
    \/ Consume
    \/ \E c \in Consumers : Die(c)
    \/ \E c \in Consumers : BootProceeds(c)
    \/ LeaderElected

(***************************************************************************)
(* Instances keep starting, the broker elects leaders in the end, and the  *)
(* fairness of the consumer loop is that of BcIngest.                      *)
(***************************************************************************)
ServiceFairness ==
    /\ WF_serviceVars(LeaderElected)
    /\ WF_serviceVars(\E c \in Consumers : Join(c))
    /\ \A c \in Consumers :
          /\ WF_serviceVars(BootProceeds(c))
          /\ WF_serviceVars(Fetch(c) /\ UNCHANGED bootVars)
          /\ WF_serviceVars(Ingest(c) /\ UNCHANGED bootVars)

ServiceSpec == ServiceInit /\ [][ServiceNext]_serviceVars
FairServiceSpec == ServiceSpec /\ ServiceFairness

\* A call in progress and the partition belong to an instance that is up.
WorkersAreUp == \A c \in Consumers : job[c].pc # "idle" \/ owner = c => Up(c)

ServiceTypeOK == TypeOK /\ BootTypeOK /\ WorkersAreUp
=============================================================================
