------------------------- MODULE StockRecalculation -------------------------
(***************************************************************************)
(* Recalculation of the stock e-com may sell, one calculation per          *)
(* variant/region pair.                                                    *)
(*                                                                         *)
(* A stock message commits "the stock changed and owes a recalculation"    *)
(* (StockService.applyStock); the calculation then runs outside any        *)
(* transaction because it asks e-com over HTTP how much is reserved        *)
(* (StockRecalculateService.run).  Three kinds of caller start a run: the  *)
(* ingest handlers, the timer-driven retry sweep and the manual HTTP       *)
(* request.  Nothing but the database orders their steps: the sweep's      *)
(* `running` flag only keeps one sweep from overlapping another.           *)
(*                                                                         *)
(* Every database statement or transaction and every HTTP answer is one    *)
(* action, so runs interleave exactly where the code awaits.               *)
(***************************************************************************)
EXTENDS StockFormula, FiniteSets

CONSTANTS
    Pairs,          \* variant/region pairs (StockTarget)
    Handlers,       \* concurrent callers of BcEventsIngestService.ingest
    Sweep,          \* the retry worker, one per process
    Requests,       \* concurrent POST recalculate requests
    Quantities,     \* sums over the region's selected shops
    Reservations,   \* answers e-com may give
    SafetyBuffer,   \* Region.safetyBuffer of the pair's region
    MaxAttempts,    \* RECALCULATION.MAX_ATTEMPTS
    RetryBatchSize, \* RECALCULATION.RETRY_BATCH_SIZE
    MaxCrashes,     \* bound on process crashes
    Observed        \* pairs whose history is kept (see outdated and tainted)

Runners == Handlers \cup {Sweep} \cup Requests

PCs == {"idle", "read", "record", "abandon", "commit", "failed", "giveUp"}
Statuses == {"NONE", "PENDING", "DONE", "ABANDONED"}
Reads == {"stock", "current"}
\* What a run, and after it the pair's row or task, may owe to something replaced.
Inputs == Reads \cup {"reserved", "budget"}

\* EcomStock rows, the part of one a run works from, and the run's own record.
Rows == [total : Nat, reserved : Nat, quantity : Nat, stale : BOOLEAN,
         published : Nat \cup {None}]
Snapshots == [reserved : Nat, published : Nat \cup {None}]
Tasks == [status : Statuses, attempts : 0 .. MaxAttempts]
Runs == [pc : PCs, pair : Pairs \cup {None}, unread : SUBSET Reads, total : Nat,
         current : Snapshots \cup {None}, reserved : Nat, stale : BOOLEAN]

ASSUME RunnersAssumption ==
    /\ IsFiniteSet(Pairs)
    /\ Sweep \notin Handlers \cup Requests
    /\ Handlers \cap Requests = {}

ASSUME QuantitiesAssumption ==
    /\ Quantities \subseteq Nat
    /\ Reservations \subseteq Nat
    /\ SafetyBuffer \in [Pairs -> Nat]

ASSUME LimitsAssumption ==
    /\ MaxAttempts \in Nat \ {0}
    /\ RetryBatchSize \in Nat \ {0}
    /\ MaxCrashes \in Nat

ASSUME ObservedAssumption == Observed \subseteq Pairs

ASSUME NoneAssumption == None \notin Pairs \cup Nat \cup Rows \cup Snapshots

VARIABLES
    stock,   \* what sumForRegion would return for the pair now
    ecom,    \* the pair's EcomStock row, None before the first calculation
    task,    \* the pair's StockRecalculationTask; "NONE" before the first enqueue
    newer,   \* the PENDING pairs whose task was updated after the pair's own
    todo,    \* pairs the caller has still to run: targets, tasks or regions
    run,     \* the caller's run in progress
    ecomUp,  \* e-com answers reservation queries
    crashes, \* process crashes so far
    (***********************************************************************)
    (* History, read by no guard and kept of the Observed pairs.           *)
    (* outdated: what the caller's run works from that another caller has  *)
    (* replaced since the run read it.                                     *)
    (* tainted: what of that went into the pair's row, or into giving its  *)
    (* task up; "reserved" are reservations carried over from such a row,  *)
    (* until e-com answers a run again.                                    *)
    (***********************************************************************)
    outdated,
    tainted

database == <<stock, ecom, task, newer>>
environment == <<ecomUp, crashes>>
history == <<outdated, tainted>>
vars == <<database, todo, run, environment, history>>

NoRun == [pc |-> "idle", pair |-> None, unread |-> {}, total |-> 0,
          current |-> None, reserved |-> 0, stale |-> FALSE]

Init ==
    /\ stock = [p \in Pairs |-> 0]
    /\ ecom = [p \in Pairs |-> None]
    /\ task = [p \in Pairs |-> [status |-> "NONE", attempts |-> 0]]
    /\ todo = [r \in Runners |-> {}]
    /\ run = [r \in Runners |-> NoRun]
    /\ ecomUp = TRUE
    /\ crashes = 0
    /\ newer = [p \in Pairs |-> {}]
    /\ outdated = [r \in Runners |-> {}]
    /\ tainted = [p \in Pairs |-> {}]

RunsOf(p) == {r \in Runners : run[r].pair = p}
Free(r) == run[r].pair = None /\ todo[r] = {}

Working(r) == run[r].pc \in {"read", "record", "abandon", "commit"}
HasRead(r, what) == Working(r) /\ what \notin run[r].unread

ReadersOf(p, what) == {r \in RunsOf(p) : p \in Observed /\ HasRead(r, what)}

\* What the runs in rs work from has been replaced under them.
Outdate(rs, what) ==
    outdated' = [r \in Runners |->
                    IF r \in rs THEN outdated[r] \cup {what} ELSE outdated[r]]

\* A caller starts, or ends, a run with nothing out of date.
Renew(r) == outdated' = [outdated EXCEPT ![r] = {}]

\* The number the run in progress arrived at, and the baseline it compares it to.
Result(r) ==
    Quantity(run[r].total, SafetyBuffer[run[r].pair], run[r].reserved)
Baseline(r) ==
    IF run[r].current = None THEN None ELSE run[r].current.published

-----------------------------------------------------------------------------
(* StockRecalculationTaskRepository *)

\* Defects: a closed task not opened again, and a budget restored by BC traffic.
EnqueuedOnce(t, manual) ==
    IF t.status = "NONE" THEN [t EXCEPT !.status = "PENDING"] ELSE t
EnqueuedAfresh(t, manual) == [status |-> "PENDING", attempts |-> 0]

\* Ordinary traffic leaves the attempt count alone; a manual request clears it.
Enqueued(t, manual) ==
    [status |-> "PENDING", attempts |-> IF manual THEN 0 ELSE t.attempts]

(***************************************************************************)
(* The first statement of recordUnavailableReservations.  The counter      *)
(* saturates at MaxAttempts: the code only asks whether it is below it.    *)
(***************************************************************************)
Counted(t) ==
    [status |-> "PENDING",
     attempts |-> IF t.attempts < MaxAttempts THEN t.attempts + 1
                                              ELSE MaxAttempts]

\* Defect: one attempt too few.
ExhaustedEarly(t) == t.attempts >= MaxAttempts - 1

Exhausted(t) == t.attempts >= MaxAttempts

\* An updateMany: a pair without a task row stays without one.
Closed(t) == IF t.status = "NONE" THEN t ELSE [t EXCEPT !.status = "DONE"]

PendingPairs == {p \in Pairs : task[p].status = "PENDING"}

(***************************************************************************)
(* The order of the backlog.  Every update of a task row sets its          *)
(* updatedAt: the pairs ps are now the newest of those PENDING.  Rows of   *)
(* one transaction are not told apart, and of a closed task the time is    *)
(* not kept, it gets a new one when it is opened again.                    *)
(***************************************************************************)
Updated(ps) ==
    newer' = [p \in Pairs |->
                 IF p \in ps \/ p \notin PendingPairs' THEN {}
                 ELSE (newer[p] \cup ps) \cap PendingPairs']

-----------------------------------------------------------------------------
(* Starting work *)

(***************************************************************************)
(* The transaction of an ingest: the stock of the message's pairs changes  *)
(* and each of them is enqueued.  The handler goes on to run them.         *)
(***************************************************************************)
ApplyStock(h, targets, totals) ==
    /\ Free(h)
    /\ stock' = [p \in Pairs |-> IF p \in targets THEN totals[p] ELSE stock[p]]
    /\ task' = [p \in Pairs |-> IF p \in targets THEN Enqueued(task[p], FALSE)
                                                 ELSE task[p]]
    /\ todo' = [todo EXCEPT ![h] = targets]
    /\ Updated(targets)
    /\ Outdate(UNION {ReadersOf(p, "stock") : p \in targets}, "stock")
    /\ UNCHANGED <<ecom, run, environment, tainted>>

\* A manual request walks the regions the variant holds stock in.
RequestRecalculation(m, regions) ==
    /\ Free(m)
    /\ todo' = [todo EXCEPT ![m] = regions]
    /\ UNCHANGED <<database, run, environment, history>>

\* Defect: a batch taken in any order.
OldestIgnored(batch) == TRUE

\* findPending orders by updatedAt.
Oldest(batch) == \A p \in batch, q \in PendingPairs \ batch : p \notin newer[q]

(***************************************************************************)
(* A tick of the retry timer that finds the previous sweep finished: it    *)
(* takes one batch of PENDING pairs, the least recently updated first.     *)
(***************************************************************************)
SweepTick ==
    /\ Free(Sweep)
    /\ PendingPairs # {}
    /\ \E batch \in SUBSET PendingPairs :
          /\ Cardinality(batch) <= RetryBatchSize
          /\ batch # PendingPairs => Cardinality(batch) = RetryBatchSize
          /\ Oldest(batch)
          /\ todo' = [todo EXCEPT ![Sweep] = batch]
    /\ UNCHANGED <<database, run, environment, history>>

(***************************************************************************)
(* The caller turns to its next pair.  Only the manual request enqueues    *)
(* first, in a statement of its own; nobody looks whether the pair is      *)
(* still PENDING or whether another run of it is in progress.              *)
(***************************************************************************)
BeginRun(r, p) ==
    /\ run[r].pair = None
    /\ p \in todo[r]
    /\ run' = [run EXCEPT ![r] =
                  [NoRun EXCEPT !.pc = "read", !.pair = p, !.unread = Reads]]
    /\ todo' = [todo EXCEPT ![r] = @ \ {p}]
    /\ task' = IF r \in Requests
               THEN [task EXCEPT ![p] = Enqueued(@, TRUE)] ELSE task
    /\ IF r \in Requests THEN Updated({p}) ELSE UNCHANGED newer
    /\ IF r \in Requests
       THEN Outdate({s \in RunsOf(p) : /\ p \in Observed
                                       /\ run[s].pc \in {"abandon", "giveUp"}},
                    "budget")
       ELSE UNCHANGED outdated
    /\ UNCHANGED <<stock, ecom, environment, tainted>>

-----------------------------------------------------------------------------
(* One run *)

\* The reads of calculateAndStore are issued together and answered in any order.
ReadShopsTotal(r) ==
    /\ "stock" \in run[r].unread
    /\ run' = [run EXCEPT ![r].unread = @ \ {"stock"},
                          ![r].total = stock[run[r].pair]]
    /\ UNCHANGED <<database, todo, environment, history>>

Snapshot(row) ==
    IF row = None THEN None
    ELSE [reserved |-> row.reserved, published |-> row.published]

ReadCurrent(r) ==
    /\ "current" \in run[r].unread
    /\ run' = [run EXCEPT ![r].unread = @ \ {"current"},
                          ![r].current = Snapshot(ecom[run[r].pair])]
    /\ UNCHANGED <<database, todo, environment, history>>

Asking(r) == run[r].pc = "read" /\ run[r].unread = {}

AskAnswered(r, reserved) ==
    /\ Asking(r)
    /\ ecomUp
    /\ run' = [run EXCEPT ![r].pc = "commit", ![r].reserved = reserved]
    /\ UNCHANGED <<database, todo, environment, history>>

LastKnown(current) == IF current = None THEN 0 ELSE current.reserved

\* Defect: no answer read as no reservations.
AskUnavailableZero(r) ==
    /\ Asking(r)
    /\ ~ecomUp
    /\ run' = [run EXCEPT ![r].pc = "record", ![r].reserved = 0, ![r].stale = TRUE]
    /\ UNCHANGED <<database, todo, environment, history>>

\* e-com cannot answer: the last known reservations are carried over.
AskUnavailable(r) ==
    /\ Asking(r)
    /\ ~ecomUp
    /\ run' = [run EXCEPT
                 ![r].pc = "record",
                 ![r].reserved = LastKnown(run[r].current),
                 ![r].stale = TRUE]
    /\ UNCHANGED <<database, todo, environment, history>>

RecordUnavailable(r) ==
    LET p == run[r].pair IN
    /\ run[r].pc = "record"
    /\ task' = [task EXCEPT ![p] = Counted(@)]
    /\ run' = [run EXCEPT ![r].pc =
                  IF Exhausted(Counted(task[p])) THEN "abandon" ELSE "commit"]
    /\ Updated({p})
    /\ UNCHANGED <<stock, ecom, todo, environment, history>>

\* The sweep's catch block counts the attempt of a run that threw.
RecordFailure(r) ==
    LET p == run[r].pair IN
    /\ run[r].pc = "failed"
    /\ task' = [task EXCEPT ![p] = Counted(@)]
    /\ run' = [run EXCEPT ![r] =
                  IF Exhausted(Counted(task[p])) THEN [@ EXCEPT !.pc = "giveUp"]
                                                 ELSE NoRun]
    /\ Updated({p})
    /\ UNCHANGED <<stock, ecom, todo, environment, history>>

(***************************************************************************)
(* The second statement of recordUnavailableReservations, decided on the   *)
(* attempts the first one returned.                                        *)
(***************************************************************************)
Abandon(r) ==
    LET p == run[r].pair
        late == outdated[r] \cap {"budget"}
    IN
    /\ run[r].pc \in {"abandon", "giveUp"}
    /\ task' = [task EXCEPT ![p].status = "ABANDONED"]
    /\ run' = [run EXCEPT ![r] =
                  IF @.pc = "abandon" THEN [@ EXCEPT !.pc = "commit"] ELSE NoRun]
    /\ Updated({p})
    /\ outdated' = [outdated EXCEPT ![r] = @ \ late]
    /\ tainted' = [tainted EXCEPT ![p] = (@ \ {"budget"}) \cup late]
    /\ UNCHANGED <<stock, ecom, todo, environment>>

\* A withheld number leaves the baseline of later comparisons untouched.
PublishedAfter(r) ==
    LET row == ecom[run[r].pair] IN
    IF ShouldPublish(Result(r), run[r].stale, Baseline(r)) THEN Result(r)
    ELSE IF row = None THEN None
    ELSE row.published

\* The other runs of the pair that have read the row are left with an old one.
CommitHistory(r) ==
    LET p == run[r].pair IN
    /\ outdated' = [s \in Runners |->
                       IF s = r THEN {}
                       ELSE IF s \in ReadersOf(p, "current")
                       THEN outdated[s] \cup {"current"}
                       ELSE outdated[s]]
    /\ tainted' = [tainted EXCEPT ![p] =
           IF ~run[r].stale
           THEN (@ \cap {"budget"}) \cup (outdated[r] \cap {"stock"})
           ELSE IF "current" \in outdated[r] THEN @ \cup {"current", "reserved"}
           ELSE @ \ {"current"}]

\* Defect: the task closed whether or not the reservations are confirmed.
CommitClosing(r) ==
    LET p == run[r].pair IN
    /\ run[r].pc = "commit"
    /\ ecom' = [ecom EXCEPT ![p] =
                  [total |-> run[r].total, reserved |-> run[r].reserved,
                   quantity |-> Result(r), stale |-> run[r].stale,
                   published |-> PublishedAfter(r)]]
    /\ task' = [task EXCEPT ![p] = Closed(@)]
    /\ Updated({p})
    /\ run' = [run EXCEPT ![r] = NoRun]
    /\ CommitHistory(r)
    /\ UNCHANGED <<stock, todo, environment>>

(***************************************************************************)
(* The transaction that stores the result, queues its publication and, on  *)
(* confirmed reservations, closes the task.                                *)
(***************************************************************************)
Commit(r) ==
    LET p == run[r].pair IN
    /\ run[r].pc = "commit"
    /\ ecom' = [ecom EXCEPT ![p] =
                  [total |-> run[r].total, reserved |-> run[r].reserved,
                   quantity |-> Result(r), stale |-> run[r].stale,
                   published |-> PublishedAfter(r)]]
    /\ task' = IF run[r].stale THEN task ELSE [task EXCEPT ![p] = Closed(@)]
    /\ IF run[r].stale THEN UNCHANGED newer ELSE Updated({p})
    /\ run' = [run EXCEPT ![r] = NoRun]
    /\ CommitHistory(r)
    /\ UNCHANGED <<stock, todo, environment>>

-----------------------------------------------------------------------------
(* Failures *)

(***************************************************************************)
(* A statement of the run fails and run throws.  An ingest handler goes on *)
(* with its next target, a manual request drops the regions it has left,   *)
(* the sweep counts the attempt.                                           *)
(***************************************************************************)
FailRun(r) ==
    /\ run[r].pc \in {"read", "record", "abandon", "commit"}
    /\ run' = [run EXCEPT ![r] =
                  IF r = Sweep
                  THEN [NoRun EXCEPT !.pc = "failed", !.pair = run[r].pair]
                  ELSE NoRun]
    /\ todo' = IF r \in Requests THEN [todo EXCEPT ![r] = {}] ELSE todo
    /\ Renew(r)
    /\ UNCHANGED <<database, environment, tainted>>

\* The enqueue of a manual request fails: the request ends with an error.
FailEnqueue(m) ==
    /\ run[m].pair = None
    /\ todo[m] # {}
    /\ todo' = [todo EXCEPT ![m] = {}]
    /\ UNCHANGED <<database, run, environment, history>>

(***************************************************************************)
(* The process dies and restarts; only the database survives.  A statement *)
(* of the sweep that fails outside its inner try also ends here: nothing   *)
(* catches the rejection of retryPending.                                  *)
(***************************************************************************)
Crash ==
    /\ crashes < MaxCrashes
    /\ crashes' = crashes + 1
    /\ run' = [r \in Runners |-> NoRun]
    /\ todo' = [r \in Runners |-> {}]
    /\ outdated' = [r \in Runners |-> {}]
    /\ UNCHANGED <<database, ecomUp, tainted>>

EcomOutage ==
    /\ ecomUp
    /\ ecomUp' = FALSE
    /\ UNCHANGED <<database, todo, run, crashes, history>>

EcomRecovery ==
    /\ ~ecomUp
    /\ ecomUp' = TRUE
    /\ UNCHANGED <<database, todo, run, crashes, history>>

-----------------------------------------------------------------------------
Proceed(r) ==
    \/ \E p \in Pairs : BeginRun(r, p)
    \/ ReadShopsTotal(r)
    \/ ReadCurrent(r)
    \/ \E v \in Reservations : AskAnswered(r, v)
    \/ AskUnavailable(r)
    \/ RecordUnavailable(r)
    \/ RecordFailure(r)
    \/ Abandon(r)
    \/ Commit(r)

Next ==
    \/ \E h \in Handlers, targets \in SUBSET Pairs \ {{}} :
          \E totals \in [targets -> Quantities] : ApplyStock(h, targets, totals)
    \/ \E m \in Requests, regions \in SUBSET Pairs \ {{}} :
          RequestRecalculation(m, regions)
    \/ SweepTick
    \/ \E r \in Runners : Proceed(r)
    \/ \E r \in Runners : FailRun(r)
    \/ \E m \in Requests : FailEnqueue(m)
    \/ Crash
    \/ EcomOutage
    \/ EcomRecovery

(***************************************************************************)
(* Started work goes on (the event loop) and the retry timer keeps firing. *)
(* Nothing is assumed of new messages, requests, failures or e-com.        *)
(***************************************************************************)
Fairness ==
    /\ WF_vars(SweepTick)
    /\ \A r \in Runners : WF_vars(Proceed(r))

Spec == Init /\ [][Next]_vars
FairSpec == Spec /\ Fairness

-----------------------------------------------------------------------------
(* Safety *)

\* Every variable keeps its type; in particular no stored number is negative.
TypeOK ==
    /\ stock \in [Pairs -> Quantities \cup {0}]
    /\ ecom \in [Pairs -> Rows \cup {None}]
    /\ task \in [Pairs -> Tasks]
    /\ todo \in [Runners -> SUBSET Pairs]
    /\ run \in [Runners -> Runs]
    /\ ecomUp \in BOOLEAN
    /\ crashes \in 0 .. MaxCrashes
    /\ newer \in [Pairs -> SUBSET Pairs]
    /\ outdated \in [Runners -> SUBSET Inputs]
    /\ tainted \in [Pairs -> SUBSET Inputs]

Calculated(p) == ecom[p] # None
Published(p) == Calculated(p) /\ ecom[p].published # None

(***************************************************************************)
(* A row that is not flagged stale rests on an answer of e-com, and is     *)
(* exactly what e-com was given, however the runs of the pair overlapped:  *)
(* with no stale row every published number is a confirmed one.            *)
(***************************************************************************)
UnflaggedIsConfirmed ==
    \A p \in Pairs : Calculated(p) /\ ~ecom[p].stale =>
        /\ ecom[p].reserved \in Reservations
        /\ ecom[p].published =
              Quantity(ecom[p].total, SafetyBuffer[p], ecom[p].reserved)

\* The row is what a run with today's stock and e-com's answer would store.
UpToDate(p) ==
    /\ Calculated(p)
    /\ ~ecom[p].stale
    /\ ecom[p].total = stock[p]
    /\ ecom[p].published =
          Quantity(stock[p], SafetyBuffer[p], ecom[p].reserved)

(***************************************************************************)
(* A closed task owes nothing: e-com was given the number of the current   *)
(* stock, through crashes, failed statements, outages and overlapping      *)
(* runs.  Excepted is the pair whose last run stored what another caller   *)
(* had replaced between its read and its commit: the shops' sum, or on     *)
(* unconfirmed reservations the row.                                       *)
(***************************************************************************)
DoneIsUpToDate ==
    \A p \in Observed :
        /\ task[p].status = "DONE"
        /\ tainted[p] \cap Reads = {}
        => UpToDate(p)

(***************************************************************************)
(* A row resting on unconfirmed reservations has a task that says so,      *)
(* unless another run of the pair committed between the read of the row    *)
(* and the commit of the run that stored it.                               *)
(***************************************************************************)
StaleIsOwned ==
    \A p \in Observed : Calculated(p) /\ ecom[p].stale =>
        \/ task[p].status \in {"PENDING", "ABANDONED"}
        \/ "current" \in tainted[p]

(***************************************************************************)
(* e-com never holds more than the last calculation allows: a result is    *)
(* withheld only when it would raise the number, so a drop in the shops    *)
(* reaches e-com even while it cannot confirm reservations.  Excepted is   *)
(* the result of a run on unconfirmed reservations that another run of the *)
(* pair overtook between its read of the row and its commit.               *)
(***************************************************************************)
PublishedWithinResult ==
    \A p \in Observed : Published(p) =>
        ecom[p].published <= ecom[p].quantity \/ "current" \in tainted[p]

\* The trace marks a calculation whose number is not what e-com was given.
Withheld(p) == Calculated(p) /\ ecom[p].published # ecom[p].quantity

(***************************************************************************)
(* The tape of the trace adds up: the shops' sum less the buffer less the  *)
(* reservations is the number e-com was given, or it is marked as held     *)
(* back.  It is held back only for unconfirmed reservations, and then, as  *)
(* the mark explains, because nothing smaller was ever given, unless the   *)
(* run that stored it was overtaken after it had read the row.             *)
(***************************************************************************)
TapeAddsUp ==
    \A p \in Pairs : Calculated(p) =>
        LET sum == Quantity(ecom[p].total, SafetyBuffer[p], ecom[p].reserved) IN
        /\ ~Withheld(p) => ecom[p].published = sum
        /\ Withheld(p) => ecom[p].stale
        /\ Withheld(p) /\ p \in Observed /\ "current" \notin tainted[p] =>
              ecom[p].published = None \/ ecom[p].published < sum

(***************************************************************************)
(* Reservations behind a pair e-com was ever given a number for are an     *)
(* answer of e-com, carried over through any number of failed attempts,    *)
(* never a guess, unless one of these carried over what it had read before *)
(* another run of the pair committed.                                      *)
(***************************************************************************)
PublishedRestsOnConfirmed ==
    \A p \in Observed : Published(p) =>
        ecom[p].reserved \in Reservations \/ "reserved" \in tainted[p]

(***************************************************************************)
(* What the ingest relies on when it swallows a failed run: a pair nobody  *)
(* has in hand and whose task is closed has had its stock calculated.      *)
(***************************************************************************)
NothingLost ==
    \A p \in Pairs :
        /\ RunsOf(p) = {}
        /\ \A r \in Runners : p \notin todo[r]
        /\ task[p].status = "DONE"
        => Calculated(p) /\ ecom[p].total = stock[p]

(***************************************************************************)
(* The worker gives a pair up only after the whole budget of attempts,     *)
(* unless a manual request restored the budget between the statement that  *)
(* counted the last attempt and the one that gave the pair up.             *)
(***************************************************************************)
AbandonedIsExhausted ==
    \A p \in Observed : task[p].status = "ABANDONED" =>
        task[p].attempts = MaxAttempts \/ "budget" \in tainted[p]

-----------------------------------------------------------------------------
(* Action property *)

Raised(before, after) ==
    /\ after # None
    /\ after.stale
    /\ after.published # None
    /\ \/ before = None
       \/ before.published = None
       \/ before.published < after.published

(***************************************************************************)
(* A result on unconfirmed reservations never raises what e-com may sell,  *)
(* unless another run of the pair committed after this one had read the    *)
(* number e-com holds.                                                     *)
(***************************************************************************)
StaleNeverRaises ==
    [][\A p \in Observed :
          Raised(ecom[p], ecom'[p]) => "current" \in tainted'[p]]_vars

\* The same with nothing said of overlapping runs, as the documents state it.
StaleNeverRaisesAtAll ==
    [][\A p \in Pairs : ecom'[p] # ecom[p] => ~Raised(ecom[p], ecom'[p])]_vars

-----------------------------------------------------------------------------
(* Liveness *)

\* More pairs are waiting than a sweep takes at once.
Overflowing == Cardinality(PendingPairs) > RetryBatchSize

\* No ingest has the pair in hand.
LeftAlone(p) == \A h \in Handlers : run[h].pair # p /\ p \notin todo[h]

(***************************************************************************)
(* Without manual requests no recalculation stays outstanding for ever: it *)
(* is completed, or given up where /health shows it, however often runs    *)
(* fail and whatever e-com does.  With a backlog that outgrows the batch   *)
(* for ever this is promised to the pairs BC leaves alone, whatever it     *)
(* does to the others: their turn comes.                                   *)
(***************************************************************************)
EveryPendingEnds ==
    \A p \in Pairs :
        <>[]~Overflowing \/ <>[]LeftAlone(p) =>
            []<>(task[p].status # "PENDING")

(***************************************************************************)
(* Through an outage that does not end, a pair BC keeps touching is still  *)
(* given up and shows as degraded, unless the backlog outgrows the batch   *)
(* for ever.                                                               *)
(***************************************************************************)
BusyPairsAbandon ==
    \A p \in Pairs :
        <>[]~ecomUp /\ <>[]~Overflowing /\ []<>(task[p].status = "PENDING")
            => []<>(task[p].status = "ABANDONED")

(***************************************************************************)
(* Once e-com is back for good, every row is confirmed again without a     *)
(* replayed event, unless its pair was given up.                           *)
(***************************************************************************)
EventuallyConfirmed ==
    \A p \in Pairs :
        <>[]ecomUp =>
            []<>(\/ Calculated(p) => ~ecom[p].stale
                 \/ task[p].status = "ABANDONED")
=============================================================================
