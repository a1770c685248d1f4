---------------------- MODULE StockRecalculationProofs ----------------------
(***************************************************************************)
(* Theorems about StockRecalculation for every value of its constants.     *)
(***************************************************************************)
EXTENDS StockRecalculation, TLAPS

\* The inputs of a calculation are counts.
LEMMA InputsAreNat ==
    /\ \A q \in Quantities : q \in Nat
    /\ \A v \in Reservations : v \in Nat
    /\ \A p \in Pairs : SafetyBuffer[p] \in Nat
  BY QuantitiesAssumption

\* The formula never yields a negative number.
LEMMA QuantityIsNat ==
    ASSUME NEW total \in Nat, NEW buffer \in Nat, NEW reserved \in Nat
    PROVE  Quantity(total, buffer, reserved) \in Nat
  BY DEF Quantity

\* A run that has its inputs arrives at a count.
LEMMA ResultIsNat ==
    ASSUME TypeOK, NEW r \in Runners, run[r].pair \in Pairs
    PROVE  Result(r) \in Nat
  <1>1. run[r].total \in Nat /\ run[r].reserved \in Nat
    BY DEF TypeOK, Runs
  <1>2. SafetyBuffer[run[r].pair] \in Nat
    BY InputsAreNat
  <1> QED
    BY <1>1, <1>2, QuantityIsNat DEF Result

(***************************************************************************)
(* Which fields of a run mean something at which step of it.               *)
(***************************************************************************)
Coherent(x) ==
    /\ x.pc = "idle" <=> x.pair = None
    /\ x.pc # "read" => x.unread = {}
    /\ x.pc \in {"read", "failed", "giveUp"} => ~x.stale
    /\ x.pc \in {"record", "abandon"} => x.stale
    /\ x.pc = "commit" /\ ~x.stale => x.reserved \in Reservations

Control == \A r \in Runners : Coherent(run[r])

\* What a run has read and nobody has replaced since.
InForce(r, what) == HasRead(r, what) /\ what \notin outdated[r]

(***************************************************************************)
(* What a run holds and nobody has replaced is what the database holds.    *)
(* Its own count of an attempt leaves the task open until another run of   *)
(* the pair commits, and the budget used up until a request restores it.   *)
(***************************************************************************)
InStep(r) ==
    LET p == run[r].pair IN
    /\ run[r].stale => run[r].reserved = LastKnown(run[r].current)
    /\ p \in Observed =>
        /\ InForce(r, "stock") => run[r].total = stock[p]
        /\ InForce(r, "current") => run[r].current = Snapshot(ecom[p])
        /\ /\ run[r].pc \in {"abandon", "commit"}
           /\ run[r].stale
           /\ "current" \notin outdated[r]
           => task[p].status \in {"PENDING", "ABANDONED"}
        /\ run[r].pc \in {"abandon", "giveUp"} /\ "budget" \notin outdated[r] =>
              task[p].attempts = MaxAttempts

RunsInStep == \A r \in Runners : InStep(r)

Guarantees ==
    /\ DoneIsUpToDate
    /\ StaleIsOwned
    /\ PublishedWithinResult
    /\ PublishedRestsOnConfirmed
    /\ AbandonedIsExhausted

IInv ==
    /\ TypeOK
    /\ Control
    /\ UnflaggedIsConfirmed
    /\ RunsInStep
    /\ Guarantees

-----------------------------------------------------------------------------
(* Type correctness *)

\* The record of a caller without a run has the type of a run.
LEMMA NoRunTyped == NoRun \in Runs
  BY DEF NoRun, Runs, PCs, Reads

\* The initial state is typed.
LEMMA InitTypeOK == Init => TypeOK
  <1> SUFFICES ASSUME Init PROVE TypeOK
    OBVIOUS
  <1>1. run \in [Runners -> Runs]
    BY NoRunTyped DEF Init
  <1>2. task \in [Pairs -> Tasks]
    BY LimitsAssumption DEF Init, Tasks, Statuses
  <1>3. crashes \in 0 .. MaxCrashes
    BY LimitsAssumption DEF Init
  <1> QED
    BY <1>1, <1>2, <1>3 DEF Init, TypeOK

\* What each helper on task rows returns.
LEMMA TaskRowsTyped ==
    ASSUME NEW t \in Tasks
    PROVE  /\ \A m \in BOOLEAN : Enqueued(t, m) \in Tasks
           /\ Counted(t) \in Tasks
           /\ Closed(t) \in Tasks
           /\ [t EXCEPT !.status = "ABANDONED"] \in Tasks
  BY LimitsAssumption DEF Tasks, Statuses, Enqueued, Counted, Closed

(***************************************************************************)
(* The steps of a run that only advance its own record.                    *)
(***************************************************************************)
LEMMA RunStepTyped ==
    ASSUME TypeOK, NEW r \in Runners,
           \/ ReadShopsTotal(r) \/ ReadCurrent(r) \/ AskUnavailable(r)
           \/ \E v \in Reservations : AskAnswered(r, v),
           Control
    PROVE  run' \in [Runners -> Runs] /\ run[r].pair \in Pairs
  <1>1. run[r] \in Runs /\ run[r].pc = "read" /\ run[r].pair \in Pairs
    BY DEF TypeOK, Runs, Control, Asking, ReadShopsTotal, ReadCurrent,
           AskUnavailable, AskAnswered, Reads, Coherent
  <1>2. /\ stock[run[r].pair] \in Quantities \cup {0}
        /\ ecom[run[r].pair] \in Rows \cup {None}
    BY <1>1 DEF TypeOK
  <1>8. stock[run[r].pair] \in Nat
    BY <1>2, InputsAreNat
  <1>3. run[r].current # None => run[r].current.reserved \in Nat
    BY <1>1 DEF Runs, Snapshots
  <1>9. LastKnown(run[r].current) \in Nat
    BY <1>3 DEF LastKnown
  <1>4. CASE ReadShopsTotal(r)
    BY <1>1, <1>8, <1>4 DEF ReadShopsTotal, TypeOK, Runs
  <1>5. CASE ReadCurrent(r)
    <2>1. Snapshot(ecom[run[r].pair]) \in Snapshots \cup {None}
      BY <1>2 DEF Snapshot, Rows, Snapshots
    <2> QED
      BY <1>1, <1>5, <2>1 DEF ReadCurrent, TypeOK, Runs
  <1>6. CASE AskUnavailable(r)
    BY <1>1, <1>9, <1>6 DEF AskUnavailable, TypeOK, Runs, PCs
  <1>7. CASE \E v \in Reservations : AskAnswered(r, v)
    <2>1. PICK v \in Reservations : AskAnswered(r, v)
      BY <1>7
    <2>2. v \in Nat
      BY InputsAreNat
    <2>3. [run[r] EXCEPT !.pc = "commit", !.reserved = v] \in Runs
      BY <1>1, <2>2 DEF Runs, PCs
    <2> QED
      BY <1>1, <2>1, <2>3 DEF AskAnswered, TypeOK
  <1> QED
    BY <1>1, <1>4, <1>5, <1>6, <1>7

\* The baseline a commit stores is a count or still missing.
LEMMA PublishedAfterTyped ==
    ASSUME TypeOK, NEW r \in Runners, run[r].pair \in Pairs
    PROVE  PublishedAfter(r) \in Nat \cup {None}
  <1>1. ecom[run[r].pair] \in Rows \cup {None}
    BY DEF TypeOK
  <1> QED
    BY <1>1, ResultIsNat DEF PublishedAfter, Rows

\* The order of the backlog and the history keep their types under every update.
LEMMA UpdatedTyped ==
    ASSUME NEW ps, ps \subseteq Pairs, TypeOK, Updated(ps)
    PROVE  newer' \in [Pairs -> SUBSET Pairs]
  BY DEF Updated, PendingPairs, TypeOK

LEMMA OutdateTyped ==
    ASSUME NEW rs, NEW what \in Inputs, TypeOK, Outdate(rs, what)
    PROVE  outdated' \in [Runners -> SUBSET Inputs]
  BY DEF Outdate, TypeOK

LEMMA CommitHistoryTyped ==
    ASSUME TypeOK, NEW r \in Runners, CommitHistory(r)
    PROVE  /\ outdated' \in [Runners -> SUBSET Inputs]
           /\ tainted' \in [Pairs -> SUBSET Inputs]
  <1>1. "current" \in Inputs /\ "reserved" \in Inputs
    BY DEF Inputs, Reads
  <1>2. \A s \in Runners : outdated[s] \subseteq Inputs
    BY DEF TypeOK
  <1>3. outdated' \in [Runners -> SUBSET Inputs]
    BY <1>1, <1>2 DEF CommitHistory
  <1>4. tainted' \in [Pairs -> SUBSET Inputs]
    BY <1>1, <1>2 DEF CommitHistory, TypeOK
  <1> QED
    BY <1>3, <1>4

\* The transaction that ends a run keeps every type.
LEMMA CommitTyped ==
    ASSUME TypeOK, NEW r \in Runners, run[r].pair \in Pairs, Commit(r)
    PROVE  TypeOK'
  <1> DEFINE p == run[r].pair
             row == [total |-> run[r].total, reserved |-> run[r].reserved,
                     quantity |-> Result(r), stale |-> run[r].stale,
                     published |-> PublishedAfter(r)]
  <1>1. row \in Rows
    BY ResultIsNat, PublishedAfterTyped DEF TypeOK, Runs, Rows
  <1>2. ecom' \in [Pairs -> Rows \cup {None}]
    BY <1>1 DEF Commit, TypeOK
  <1>3. task' \in [Pairs -> Tasks]
    BY TaskRowsTyped DEF Commit, TypeOK
  <1>4. run' \in [Runners -> Runs]
    BY NoRunTyped DEF Commit, TypeOK
  <1>5. newer' \in [Pairs -> SUBSET Pairs]
    BY UpdatedTyped DEF Commit, TypeOK
  <1>6. outdated' \in [Runners -> SUBSET Inputs] /\ tainted' \in [Pairs -> SUBSET Inputs]
    BY CommitHistoryTyped DEF Commit
  <1> QED
    BY <1>2, <1>3, <1>4, <1>5, <1>6 DEF Commit, TypeOK, environment

\* No step of the specification leaves the types.
LEMMA NextTypeOK == TypeOK /\ Control /\ [Next]_vars => TypeOK'
  <1> SUFFICES ASSUME TypeOK, Control, [Next]_vars PROVE TypeOK'
    OBVIOUS
  <1> USE DEF database, environment, history
  <1>1. ASSUME NEW h \in Handlers, NEW targets \in SUBSET Pairs,
               NEW totals \in [targets -> Quantities],
               ApplyStock(h, targets, totals)
        PROVE  TypeOK'
    <2>1. h \in Runners
      BY DEF Runners
    <2>2. stock' \in [Pairs -> Quantities \cup {0}]
      BY <1>1 DEF ApplyStock, TypeOK
    <2>3. task' \in [Pairs -> Tasks]
      BY <1>1, TaskRowsTyped DEF ApplyStock, TypeOK
    <2>4. todo' \in [Runners -> SUBSET Pairs]
      BY <1>1, <2>1 DEF ApplyStock, TypeOK
    <2>5. newer' \in [Pairs -> SUBSET Pairs]
      BY <1>1, UpdatedTyped DEF ApplyStock
    <2>6. outdated' \in [Runners -> SUBSET Inputs]
      BY <1>1, OutdateTyped DEF ApplyStock, Inputs, Reads
    <2> QED
      BY <1>1, <2>2, <2>3, <2>4, <2>5, <2>6 DEF ApplyStock, TypeOK
  <1>2. ASSUME NEW m \in Requests, NEW regions \in SUBSET Pairs,
               RequestRecalculation(m, regions)
        PROVE  TypeOK'
    BY <1>2 DEF RequestRecalculation, TypeOK, Runners
  <1>3. CASE SweepTick
    <2>1. Sweep \in Runners /\ PendingPairs \subseteq Pairs
      BY DEF Runners, PendingPairs
    <2>2. todo' \in [Runners -> SUBSET Pairs]
      BY <1>3, <2>1 DEF SweepTick, TypeOK
    <2> QED
      BY <1>3, <2>2 DEF SweepTick, TypeOK
  <1>4. ASSUME NEW r \in Runners, NEW p \in Pairs, BeginRun(r, p)
        PROVE  TypeOK'
    <2>1. [NoRun EXCEPT !.pc = "read", !.pair = p, !.unread = Reads] \in Runs
      BY DEF NoRun, Runs, PCs
    <2>2. run' \in [Runners -> Runs]
      BY <1>4, <2>1 DEF BeginRun, TypeOK
    <2>3. task' \in [Pairs -> Tasks]
      BY <1>4, TaskRowsTyped DEF BeginRun, TypeOK
    <2>4. todo' \in [Runners -> SUBSET Pairs]
      BY <1>4 DEF BeginRun, TypeOK
    <2>5. newer' \in [Pairs -> SUBSET Pairs]
      BY <1>4, UpdatedTyped DEF BeginRun, TypeOK
    <2>6. outdated' \in [Runners -> SUBSET Inputs]
      BY <1>4, OutdateTyped DEF BeginRun, Inputs, TypeOK
    <2> QED
      BY <1>4, <2>2, <2>3, <2>4, <2>5, <2>6 DEF BeginRun, TypeOK
  <1>5. ASSUME NEW r \in Runners,
               \/ ReadShopsTotal(r) \/ ReadCurrent(r) \/ AskUnavailable(r)
               \/ \E v \in Reservations : AskAnswered(r, v)
        PROVE  TypeOK'
    <2>1. run' \in [Runners -> Runs]
      BY <1>5, RunStepTyped
    <2>2. UNCHANGED <<database, todo, environment, history>>
      BY <1>5 DEF ReadShopsTotal, ReadCurrent, AskUnavailable, AskAnswered
    <2> QED
      BY <2>1, <2>2 DEF TypeOK
  <1>6. ASSUME NEW r \in Runners, RecordUnavailable(r)
        PROVE  TypeOK'
    <2>1. task' \in [Pairs -> Tasks]
      BY <1>6, TaskRowsTyped DEF RecordUnavailable, TypeOK
    <2>2. run' \in [Runners -> Runs]
      <3>1. run[r] \in Runs /\ run \in [Runners -> Runs]
        BY DEF TypeOK
      <3>2. \A pc \in PCs : [run[r] EXCEPT !.pc = pc] \in Runs
        BY <3>1 DEF Runs
      <3>3. \E pc \in PCs : run' = [run EXCEPT ![r] = [run[r] EXCEPT !.pc = pc]]
        BY <1>6, <3>1 DEF RecordUnavailable, PCs
      <3> QED
        BY <3>1, <3>2, <3>3
    <2>3. run[r].pair \in Pairs
      BY <1>6 DEF RecordUnavailable, Control, Coherent, TypeOK, Runs
    <2>4. newer' \in [Pairs -> SUBSET Pairs]
      BY <1>6, <2>3, UpdatedTyped DEF RecordUnavailable
    <2> QED
      BY <1>6, <2>1, <2>2, <2>4 DEF RecordUnavailable, TypeOK
  <1>7. ASSUME NEW r \in Runners, RecordFailure(r)
        PROVE  TypeOK'
    <2>1. task' \in [Pairs -> Tasks]
      BY <1>7, TaskRowsTyped DEF RecordFailure, TypeOK
    <2>2. run' \in [Runners -> Runs]
      BY <1>7, NoRunTyped DEF RecordFailure, TypeOK, Runs, PCs
    <2>3. run[r].pair \in Pairs
      BY <1>7 DEF RecordFailure, Control, Coherent, TypeOK, Runs
    <2>4. newer' \in [Pairs -> SUBSET Pairs]
      BY <1>7, <2>3, UpdatedTyped DEF RecordFailure
    <2> QED
      BY <1>7, <2>1, <2>2, <2>4 DEF RecordFailure, TypeOK
  <1>8. ASSUME NEW r \in Runners, Abandon(r)
        PROVE  TypeOK'
    <2>1. task' \in [Pairs -> Tasks]
      BY <1>8, TaskRowsTyped DEF Abandon, TypeOK
    <2>2. run' \in [Runners -> Runs]
      BY <1>8, NoRunTyped DEF Abandon, TypeOK, Runs, PCs
    <2>3. run[r].pair \in Pairs
      BY <1>8 DEF Abandon, Control, Coherent, TypeOK, Runs
    <2>4. newer' \in [Pairs -> SUBSET Pairs]
      BY <1>8, <2>3, UpdatedTyped DEF Abandon
    <2>5. outdated' \in [Runners -> SUBSET Inputs] /\ tainted' \in [Pairs -> SUBSET Inputs]
      BY <1>8 DEF Abandon, TypeOK
    <2> QED
      BY <1>8, <2>1, <2>2, <2>4, <2>5 DEF Abandon, TypeOK
  <1>9. ASSUME NEW r \in Runners, Commit(r)
        PROVE  TypeOK'
    <2>1. run[r].pair \in Pairs
      BY <1>9 DEF Commit, Control, Coherent, TypeOK, Runs
    <2> QED
      BY <1>9, <2>1, CommitTyped
  <1>10. ASSUME NEW r \in Runners, FailRun(r)
         PROVE  TypeOK'
    <2>1. [NoRun EXCEPT !.pc = "failed", !.pair = run[r].pair] \in Runs
      BY DEF NoRun, Runs, PCs, TypeOK
    <2>2. run' \in [Runners -> Runs]
      BY <1>10, <2>1, NoRunTyped DEF FailRun, TypeOK
    <2>3. todo' \in [Runners -> SUBSET Pairs]
      BY <1>10 DEF FailRun, TypeOK
    <2>4. outdated' \in [Runners -> SUBSET Inputs]
      BY <1>10 DEF FailRun, Renew, TypeOK
    <2> QED
      BY <1>10, <2>2, <2>3, <2>4 DEF FailRun, TypeOK
  <1>11. ASSUME NEW m \in Requests, FailEnqueue(m)
         PROVE  TypeOK'
    BY <1>11 DEF FailEnqueue, TypeOK, Runners
  <1>12. CASE Crash
    BY <1>12, NoRunTyped, LimitsAssumption DEF Crash, TypeOK
  <1>13. CASE EcomOutage \/ EcomRecovery
    BY <1>13 DEF EcomOutage, EcomRecovery, TypeOK
  <1>14. CASE UNCHANGED vars
    BY <1>14 DEF vars, TypeOK
  <1> QED
    BY <1>1, <1>2, <1>3, <1>4, <1>5, <1>6, <1>7, <1>8, <1>9, <1>10, <1>11,
       <1>12, <1>13, <1>14 DEF Next, Proceed

-----------------------------------------------------------------------------
(* The parts of the inductive invariant *)

\* A caller without a run is where it should be in its steps.
LEMMA NoRunCoherent == Coherent(NoRun)
  BY DEF NoRun, Coherent

\* No step breaks the link between where a run is and what it holds.
LEMMA NextControl == TypeOK /\ Control /\ [Next]_vars => Control'
  <1> SUFFICES ASSUME TypeOK, Control, [Next]_vars, NEW s \in Runners
               PROVE  Coherent(run'[s])
    BY DEF Control
  <1>0. Coherent(run[s]) /\ run \in [Runners -> Runs]
    BY DEF Control, TypeOK
  <1>1. CASE UNCHANGED run
    BY <1>0, <1>1
  <1>2. ASSUME NEW r \in Runners, NEW p \in Pairs, BeginRun(r, p)
        PROVE  Coherent(run'[s])
    <2>1. Coherent([NoRun EXCEPT !.pc = "read", !.pair = p, !.unread = Reads])
      BY NoneAssumption DEF NoRun, Coherent
    <2> QED
      BY <1>0, <1>2, <2>1 DEF BeginRun
  <1>3. ASSUME NEW r \in Runners, ReadShopsTotal(r) \/ ReadCurrent(r)
        PROVE  Coherent(run'[s])
    <2>1. run[r].pc = "read"
      BY <1>3 DEF ReadShopsTotal, ReadCurrent, Control, Coherent
    <2> QED
      BY <1>0, <1>3, <2>1 DEF ReadShopsTotal, ReadCurrent, Coherent, Runs
  <1>4. ASSUME NEW r \in Runners, NEW v \in Reservations, AskAnswered(r, v)
        PROVE  Coherent(run'[s])
    BY <1>0, <1>4 DEF AskAnswered, Asking, Coherent, Runs
  <1>5. ASSUME NEW r \in Runners, AskUnavailable(r)
        PROVE  Coherent(run'[s])
    BY <1>0, <1>5 DEF AskUnavailable, Asking, Coherent, Runs
  <1>6. ASSUME NEW r \in Runners, RecordUnavailable(r)
        PROVE  Coherent(run'[s])
    BY <1>0, <1>6 DEF RecordUnavailable, Coherent, Runs
  <1>7. ASSUME NEW r \in Runners, RecordFailure(r)
        PROVE  Coherent(run'[s])
    BY <1>0, <1>7, NoRunCoherent DEF RecordFailure, Coherent, Runs
  <1>8. ASSUME NEW r \in Runners, Abandon(r)
        PROVE  Coherent(run'[s])
    BY <1>0, <1>8, NoRunCoherent DEF Abandon, Coherent, Runs
  <1>9. ASSUME NEW r \in Runners, Commit(r)
        PROVE  Coherent(run'[s])
    BY <1>0, <1>9, NoRunCoherent DEF Commit
  <1>10. ASSUME NEW r \in Runners, FailRun(r)
         PROVE  Coherent(run'[s])
    <2>1. run[r].pair # None
      BY <1>10 DEF FailRun, Control, Coherent
    <2>2. Coherent([NoRun EXCEPT !.pc = "failed", !.pair = run[r].pair])
      BY <2>1 DEF NoRun, Coherent
    <2> QED
      BY <1>0, <1>10, <2>2, NoRunCoherent DEF FailRun
  <1>11. CASE Crash
    BY <1>11, NoRunCoherent DEF Crash
  <1> QED
    BY <1>1, <1>2, <1>3, <1>4, <1>5, <1>6, <1>7, <1>8, <1>9, <1>10, <1>11
    DEF Next, Proceed, ApplyStock, RequestRecalculation, SweepTick, FailEnqueue,
        EcomOutage, EcomRecovery, vars

\* Only the transaction that ends a run writes e-com rows, and only its pair's.
LEMMA OnlyCommitWrites ==
    ASSUME [Next]_vars, TypeOK
    PROVE  \/ UNCHANGED ecom
           \/ \E r \in Runners :
                /\ Commit(r)
                /\ \A p \in Pairs : p # run[r].pair => ecom'[p] = ecom[p]
  <1>1. CASE \E r \in Runners : Commit(r)
    BY <1>1 DEF Commit, TypeOK
  <1>2. CASE ~ \E r \in Runners : Commit(r)
    BY <1>2 DEF Next, Proceed, ApplyStock, RequestRecalculation, SweepTick,
        BeginRun, ReadShopsTotal, ReadCurrent, AskAnswered, AskUnavailable,
        RecordUnavailable, RecordFailure, Abandon, FailRun, FailEnqueue, Crash,
        EcomOutage, EcomRecovery, vars, database
  <1> QED
    BY <1>1, <1>2

\* What a commit stores.
LEMMA CommitStores ==
    ASSUME TypeOK, Control, NEW r \in Runners, Commit(r)
    PROVE  LET p == run[r].pair IN
           /\ p \in Pairs
           /\ Result(r) \in Nat
           /\ ecom'[p] = [total |-> run[r].total, reserved |-> run[r].reserved,
                          quantity |-> Result(r), stale |-> run[r].stale,
                          published |-> PublishedAfter(r)]
           /\ ~run[r].stale => PublishedAfter(r) = Result(r)
  <1>1. run[r].pair \in Pairs
    BY DEF Commit, Control, Coherent, TypeOK, Runs
  <1>2. ~run[r].stale => PublishedAfter(r) = Result(r)
    BY DEF PublishedAfter, ShouldPublish
  <1> QED
    BY <1>1, <1>2, ResultIsNat DEF Commit, TypeOK

\* No step leaves an unflagged row that rests on anything but an answer.
LEMMA NextUnflagged ==
    TypeOK /\ Control /\ UnflaggedIsConfirmed /\ [Next]_vars => UnflaggedIsConfirmed'
  <1> SUFFICES ASSUME TypeOK, Control, UnflaggedIsConfirmed, [Next]_vars,
                      NEW p \in Pairs, ecom'[p] # None, ~ecom'[p].stale
               PROVE  /\ ecom'[p].reserved \in Reservations
                      /\ ecom'[p].published =
                            Quantity(ecom'[p].total, SafetyBuffer[p], ecom'[p].reserved)
    BY DEF UnflaggedIsConfirmed, Calculated
  <1>1. CASE ecom'[p] = ecom[p]
    BY <1>1 DEF UnflaggedIsConfirmed, Calculated
  <1>2. ASSUME NEW r \in Runners, Commit(r), p = run[r].pair
        PROVE  /\ ecom'[p].reserved \in Reservations
               /\ ecom'[p].published =
                     Quantity(ecom'[p].total, SafetyBuffer[p], ecom'[p].reserved)
    <2>1. ecom'[p] = [total |-> run[r].total, reserved |-> run[r].reserved,
                      quantity |-> Result(r), stale |-> run[r].stale,
                      published |-> PublishedAfter(r)]
      BY <1>2, CommitStores
    <2>2. ~run[r].stale
      BY <2>1
    <2>3. PublishedAfter(r) = Result(r)
      BY <1>2, <2>2, CommitStores
    <2>4. run[r].reserved \in Reservations
      BY <1>2, <2>2 DEF Commit, Control, Coherent
    <2> QED
      BY <1>2, <2>1, <2>3, <2>4 DEF Result
  <1> QED
    BY <1>1, <1>2, OnlyCommitWrites

\* The steps of a run other than its start, each on its caller's record alone.
Advance(r) ==
    \/ ReadShopsTotal(r) \/ ReadCurrent(r) \/ AskUnavailable(r)
    \/ RecordUnavailable(r) \/ RecordFailure(r) \/ Abandon(r) \/ Commit(r)
    \/ FailRun(r) \/ \E v \in Reservations : AskAnswered(r, v)

\* A run stays with its pair from its first read to its end.
LEMMA AdvanceKeepsPairs ==
    ASSUME TypeOK, NEW r \in Runners, Advance(r)
    PROVE  /\ \A s \in Runners \ {r} : run'[s] = run[s]
           /\ run'[r].pair \in {run[r].pair, None}
  <1>0. run \in [Runners -> Runs] /\ NoRun.pair = None
    BY DEF TypeOK, NoRun
  <1>1. CASE ReadShopsTotal(r)
    BY <1>0, <1>1 DEF ReadShopsTotal, Runs
  <1>2. CASE ReadCurrent(r)
    BY <1>0, <1>2 DEF ReadCurrent, Runs
  <1>3. CASE AskUnavailable(r)
    BY <1>0, <1>3 DEF AskUnavailable, Runs
  <1>4. CASE RecordUnavailable(r)
    BY <1>0, <1>4 DEF RecordUnavailable, Runs
  <1>5. CASE RecordFailure(r)
    BY <1>0, <1>5 DEF RecordFailure, Runs
  <1>6. CASE Abandon(r)
    BY <1>0, <1>6 DEF Abandon, Runs
  <1>7. CASE Commit(r)
    BY <1>0, <1>7 DEF Commit
  <1>8. CASE FailRun(r)
    BY <1>0, <1>8 DEF FailRun, NoRun
  <1>9. CASE \E v \in Reservations : AskAnswered(r, v)
    BY <1>0, <1>9 DEF AskAnswered, Runs
  <1> QED
    BY <1>1, <1>2, <1>3, <1>4, <1>5, <1>6, <1>7, <1>8, <1>9 DEF Advance

(***************************************************************************)
(* What disturbs a run of which the step is not part: nothing but what the *)
(* history records.                                                        *)
(***************************************************************************)
LEMMA BystanderInStep ==
    ASSUME NEW s \in Runners, InStep(s), run'[s] = run[s],
           outdated[s] \subseteq outdated'[s],
           run[s].pair \in Observed =>
             /\ "stock" \in outdated'[s] \/ ~HasRead(s, "stock")
                  \/ stock'[run[s].pair] = stock[run[s].pair]
             /\ "current" \in outdated'[s] \/ ~HasRead(s, "current")
                  \/ ecom'[run[s].pair] = ecom[run[s].pair]
             /\ "current" \in outdated'[s] \/ run[s].pc \notin {"abandon", "commit"}
                  \/ task'[run[s].pair].status \in
                       {"PENDING", "ABANDONED", task[run[s].pair].status}
             /\ \/ "budget" \in outdated'[s]
                \/ run[s].pc \notin {"abandon", "giveUp"}
                \/ (task[run[s].pair].attempts = MaxAttempts =>
                       task'[run[s].pair].attempts = MaxAttempts)
    PROVE  InStep(s)'
  BY DEF InStep, InForce, HasRead, Working

\* A caller that holds no run, or starts one, has nothing to be in step with.
LEMMA NothingReadInStep ==
    ASSUME NEW s \in Runners, ~run'[s].stale,
           \/ run'[s].pc \in {"idle", "failed"}
           \/ run'[s].pc = "read" /\ run'[s].unread = Reads
    PROVE  InStep(s)'
  BY DEF InStep, InForce, HasRead, Working, Reads

\* A run that counts an attempt again stays at the end of its budget.
LEMMA CountedStaysExhausted ==
    ASSUME NEW t \in Tasks
    PROVE  /\ Counted(t).status = "PENDING"
           /\ t.attempts = MaxAttempts => Counted(t).attempts = MaxAttempts
           /\ Exhausted(Counted(t)) => Counted(t).attempts = MaxAttempts
  BY LimitsAssumption DEF Counted, Exhausted, Tasks

\* A step of another caller writes only its own pair, if any row at all.
LEMMA AdvanceWritesItsPair ==
    ASSUME TypeOK, NEW r \in Runners, Advance(r), NEW q \in Pairs, q # run[r].pair
    PROVE  /\ stock'[q] = stock[q] /\ ecom'[q] = ecom[q] /\ task'[q] = task[q]
           /\ tainted'[q] = tainted[q]
  <1> USE DEF database, history
  <1>1. CASE ReadShopsTotal(r)
    BY <1>1 DEF ReadShopsTotal
  <1>2. CASE ReadCurrent(r)
    BY <1>2 DEF ReadCurrent
  <1>3. CASE AskUnavailable(r)
    BY <1>3 DEF AskUnavailable
  <1>4. CASE RecordUnavailable(r)
    BY <1>4 DEF RecordUnavailable, TypeOK
  <1>5. CASE RecordFailure(r)
    BY <1>5 DEF RecordFailure, TypeOK
  <1>6. CASE Abandon(r)
    BY <1>6 DEF Abandon, TypeOK
  <1>7. CASE Commit(r)
    BY <1>7 DEF Commit, CommitHistory, TypeOK
  <1>8. CASE FailRun(r)
    BY <1>8 DEF FailRun
  <1>9. CASE \E v \in Reservations : AskAnswered(r, v)
    BY <1>9 DEF AskAnswered
  <1> QED
    BY <1>1, <1>2, <1>3, <1>4, <1>5, <1>6, <1>7, <1>8, <1>9 DEF Advance

\* The caller that takes the step itself.
LEMMA AdvanceInStep ==
    ASSUME TypeOK, Control, NEW r \in Runners, InStep(r), Advance(r)
    PROVE  InStep(r)'
  <1>0. /\ run \in [Runners -> Runs] /\ run[r] \in Runs /\ Coherent(run[r])
        /\ outdated \in [Runners -> SUBSET Inputs]
    BY DEF TypeOK, Control
  <1>1. run[r].pair # None /\ run[r].pair \in Pairs
    BY <1>0 DEF Advance, ReadShopsTotal, ReadCurrent, AskUnavailable, AskAnswered, Asking,
          RecordUnavailable, RecordFailure, Abandon, Commit, FailRun, Coherent, Runs
  <1> USE DEF database, history
  <1>2. CASE ReadShopsTotal(r)
    <2>1. run'[r] = [run[r] EXCEPT !.unread = @ \ {"stock"},
                                   !.total = stock[run[r].pair]]
      BY <1>0, <1>2 DEF ReadShopsTotal
    <2> QED
      BY <1>0, <1>1, <1>2, <2>1 DEF ReadShopsTotal, InStep, InForce, HasRead, Working,
         Coherent, Runs
  <1>3. CASE ReadCurrent(r)
    <2>1. run'[r] = [run[r] EXCEPT !.unread = @ \ {"current"},
                                   !.current = Snapshot(ecom[run[r].pair])]
      BY <1>0, <1>3 DEF ReadCurrent
    <2>2. ~run[r].stale /\ run[r].pc = "read"
      BY <1>0, <1>3 DEF ReadCurrent, Coherent
    <2> QED
      BY <1>0, <1>1, <1>3, <2>1, <2>2 DEF ReadCurrent, InStep, InForce, HasRead, Working,
         Runs
  <1>4. CASE AskUnavailable(r)
    <2>1. run'[r] = [run[r] EXCEPT !.pc = "record",
                                   !.reserved = LastKnown(run[r].current),
                                   !.stale = TRUE]
      BY <1>0, <1>4 DEF AskUnavailable
    <2> QED
      BY <1>0, <1>1, <1>4, <2>1 DEF AskUnavailable, Asking, InStep, InForce, HasRead,
         Working, Runs
  <1>5. CASE RecordUnavailable(r)
    <2> DEFINE t == Counted(task[run[r].pair])
    <2>1. run'[r] = [run[r] EXCEPT !.pc = IF Exhausted(t) THEN "abandon" ELSE "commit"]
      BY <1>0, <1>5 DEF RecordUnavailable
    <2>2. task'[run[r].pair] = t
      BY <1>1, <1>5 DEF RecordUnavailable, TypeOK
    <2>3. t.status = "PENDING" /\ (Exhausted(t) => t.attempts = MaxAttempts)
      BY <1>1, CountedStaysExhausted DEF TypeOK
    <2>4. run[r].pc = "record"
      BY <1>5 DEF RecordUnavailable
    <2> HIDE DEF t
    <2> QED
      BY <1>0, <1>1, <1>5, <2>1, <2>2, <2>3, <2>4 DEF RecordUnavailable, InStep, InForce,
         HasRead, Working, Runs
  <1>6. CASE RecordFailure(r)
    <2> DEFINE t == Counted(task[run[r].pair])
    <2>1. CASE Exhausted(t)
      <3>1. run'[r] = [run[r] EXCEPT !.pc = "giveUp"]
        BY <1>0, <1>6, <2>1 DEF RecordFailure
      <3>2. task'[run[r].pair] = t /\ t.attempts = MaxAttempts
        BY <1>1, <1>6, <2>1, CountedStaysExhausted DEF RecordFailure, TypeOK
      <3>3. ~run[r].stale
        BY <1>0, <1>6 DEF RecordFailure, Coherent
      <3> QED
        BY <1>0, <1>1, <3>1, <3>2, <3>3 DEF InStep, InForce, HasRead, Working, Runs
    <2>2. CASE ~Exhausted(t)
      <3>1. run'[r] = NoRun
        BY <1>0, <1>6, <2>2 DEF RecordFailure
      <3> QED
        BY <3>1, NothingReadInStep DEF NoRun
    <2> QED
      BY <2>1, <2>2
  <1>7. CASE Abandon(r)
    <2>1. CASE run[r].pc = "abandon"
      <3>1. run'[r] = [run[r] EXCEPT !.pc = "commit"]
        BY <1>0, <1>7, <2>1 DEF Abandon
      <3>2. task'[run[r].pair].status = "ABANDONED"
        BY <1>1, <1>7 DEF Abandon, TypeOK, Tasks
      <3>3. \A what \in Reads : what \in outdated[r] => what \in outdated'[r]
        BY <1>0, <1>7 DEF Abandon, Reads
      <3>4. run[r].unread = {}
        BY <1>0, <2>1 DEF Coherent
      <3> QED
        BY <1>0, <1>1, <1>7, <2>1, <3>1, <3>2, <3>3, <3>4 DEF Abandon, InStep, InForce,
           HasRead, Working, Runs, Reads
    <2>2. CASE run[r].pc # "abandon"
      <3>1. run'[r] = NoRun
        BY <1>0, <1>7, <2>2 DEF Abandon
      <3> QED
        BY <3>1, NothingReadInStep DEF NoRun
    <2> QED
      BY <2>1, <2>2
  <1>8. CASE Commit(r)
    <2>1. run'[r] = NoRun
      BY <1>0, <1>8 DEF Commit
    <2> QED
      BY <2>1, NothingReadInStep DEF NoRun
  <1>9. CASE FailRun(r)
    <2> DEFINE failed == [NoRun EXCEPT !.pc = "failed", !.pair = run[r].pair]
    <2>1. run'[r] \in {NoRun, failed}
      BY <1>0, <1>9 DEF FailRun
    <2>2. ~NoRun.stale /\ NoRun.pc = "idle" /\ ~failed.stale /\ failed.pc = "failed"
      BY DEF NoRun
    <2> HIDE DEF failed
    <2> QED
      BY <2>1, <2>2, NothingReadInStep
  <1>10. CASE \E v \in Reservations : AskAnswered(r, v)
    <2>1. PICK v \in Reservations : AskAnswered(r, v)
      BY <1>10
    <2>2. run'[r] = [run[r] EXCEPT !.pc = "commit", !.reserved = v]
      BY <1>0, <2>1 DEF AskAnswered
    <2>3. ~run[r].stale /\ run[r].pc = "read"
      BY <1>0, <2>1 DEF AskAnswered, Asking, Coherent
    <2> QED
      BY <1>0, <1>1, <2>1, <2>2, <2>3 DEF AskAnswered, InStep, InForce, HasRead, Working,
         Runs
  <1> QED
    BY <1>2, <1>3, <1>4, <1>5, <1>6, <1>7, <1>8, <1>9, <1>10 DEF Advance

\* The other callers, while one takes a step of its run.
LEMMA AdvanceLeavesOthersInStep ==
    ASSUME TypeOK, Control, NEW r \in Runners, Advance(r),
           NEW s \in Runners, s # r, InStep(s)
    PROVE  InStep(s)'
  <1>0. run'[s] = run[s] /\ Coherent(run[s]) /\ task \in [Pairs -> Tasks]
    BY AdvanceKeepsPairs DEF Control, TypeOK
  <1>1. CASE run[s].pair \notin Observed
    <2>1. outdated[s] \subseteq outdated'[s]
      BY <1>0 DEF Advance, ReadShopsTotal, ReadCurrent, AskUnavailable, AskAnswered,
         RecordUnavailable, RecordFailure, Abandon, Commit, CommitHistory, FailRun, Renew,
         history, TypeOK
    <2> QED
      BY <1>0, <1>1, <2>1, BystanderInStep
  <1>2. CASE run[s].pair \in Observed
    <2>0. run[s].pair \in Pairs
      BY <1>2, ObservedAssumption
    <2>1. CASE Commit(r)
      <3>1. /\ stock' = stock /\ task[run[s].pair] \in Tasks
            /\ outdated'[s] = IF s \in ReadersOf(run[r].pair, "current")
                              THEN outdated[s] \cup {"current"} ELSE outdated[s]
        BY <2>0, <2>1 DEF Commit, CommitHistory, TypeOK
      <3>2. CASE run[s].pair = run[r].pair
        <4>1. HasRead(s, "current") => "current" \in outdated'[s]
          BY <1>2, <3>1, <3>2 DEF ReadersOf, RunsOf
        <4>2. run[s].pc \in {"abandon", "commit"} => HasRead(s, "current")
          BY <1>0 DEF Coherent, HasRead, Working
        <4>3. task'[run[s].pair].attempts = task[run[s].pair].attempts
          BY <2>0, <2>1, <3>1 DEF Commit, Closed, TypeOK, Tasks
        <4> QED
          BY <1>0, <3>1, <4>1, <4>2, <4>3, BystanderInStep
      <3>3. CASE run[s].pair # run[r].pair
        <4>1. ecom'[run[s].pair] = ecom[run[s].pair] /\ task'[run[s].pair] = task[run[s].pair]
          BY <2>0, <3>3, AdvanceWritesItsPair
        <4> QED
          BY <1>0, <3>1, <4>1, BystanderInStep
      <3> QED
        BY <3>2, <3>3
    <2>2. CASE ~Commit(r)
      <3>1. stock' = stock /\ ecom' = ecom /\ outdated'[s] = outdated[s]
        BY <2>2 DEF Advance, ReadShopsTotal, ReadCurrent, AskUnavailable, AskAnswered,
           RecordUnavailable, RecordFailure, Abandon, FailRun, Renew, history, database,
           TypeOK
      <3>2. \/ task'[run[s].pair] = task[run[s].pair]
            \/ task'[run[s].pair] = Counted(task[run[s].pair])
            \/ task'[run[s].pair] = [task[run[s].pair] EXCEPT !.status = "ABANDONED"]
        BY <2>0, <2>2 DEF Advance, ReadShopsTotal, ReadCurrent, AskUnavailable, AskAnswered,
           RecordUnavailable, RecordFailure, Abandon, FailRun, database, TypeOK
      <3>3. /\ task'[run[s].pair].status \in {"PENDING", "ABANDONED", task[run[s].pair].status}
            /\ task[run[s].pair].attempts = MaxAttempts =>
                  task'[run[s].pair].attempts = MaxAttempts
        BY <1>0, <2>0, <3>2, CountedStaysExhausted DEF Tasks
      <3> QED
        BY <1>0, <3>1, <3>3, BystanderInStep
    <2> QED
      BY <2>1, <2>2
  <1> QED
    BY <1>1, <1>2

\* What a run has read stays true until a step the history records.
LEMMA NextInStep ==
    TypeOK /\ Control /\ RunsInStep /\ [Next]_vars => RunsInStep'
  <1> SUFFICES ASSUME TypeOK, Control, RunsInStep, [Next]_vars, NEW s \in Runners
               PROVE  InStep(s)'
    BY DEF RunsInStep
  <1>0. InStep(s) /\ outdated \in [Runners -> SUBSET Inputs]
    BY DEF RunsInStep, TypeOK
  <1> USE DEF database, history
  <1>1. ASSUME NEW h \in Handlers, NEW targets \in SUBSET Pairs,
               NEW totals \in [targets -> Quantities],
               ApplyStock(h, targets, totals)
        PROVE  InStep(s)'
    <2>1. run' = run /\ ecom' = ecom
      BY <1>1 DEF ApplyStock
    <2>2. outdated[s] \subseteq outdated'[s]
      BY <1>1 DEF ApplyStock, Outdate
    <2>3. ASSUME run[s].pair \in targets, run[s].pair \in Observed, HasRead(s, "stock")
          PROVE  "stock" \in outdated'[s]
      BY <1>1, <2>3 DEF ApplyStock, Outdate, ReadersOf, RunsOf
    <2>4. ASSUME run[s].pair \in Pairs
          PROVE  /\ run[s].pair \notin targets => stock'[run[s].pair] = stock[run[s].pair]
                 /\ task'[run[s].pair].status \in {"PENDING", task[run[s].pair].status}
                 /\ task'[run[s].pair].attempts = task[run[s].pair].attempts
      BY <1>1, <2>4 DEF ApplyStock, Enqueued
    <2> QED
      BY <1>0, <2>1, <2>2, <2>3, <2>4, ObservedAssumption, BystanderInStep
  <1>2. ASSUME NEW r \in Runners, NEW p \in Pairs, BeginRun(r, p)
        PROVE  InStep(s)'
    <2> DEFINE fresh == [NoRun EXCEPT !.pc = "read", !.pair = p, !.unread = Reads]
    <2>0. /\ run' = [run EXCEPT ![r] = fresh] /\ run \in [Runners -> Runs]
          /\ stock' = stock /\ ecom' = ecom /\ outdated[s] \subseteq outdated'[s]
          /\ \A q \in Pairs \ {p} : task'[q] = task[q]
      BY <1>2 DEF BeginRun, Outdate, TypeOK
    <2>1. CASE s = r
      <3>1. run'[s] = fresh
        BY <2>0, <2>1
      <3> QED
        BY <3>1, NothingReadInStep DEF NoRun
    <2>2. CASE s # r /\ (run[s].pair # p \/ run[s].pair \notin Observed)
      <3>1. run'[s] = run[s]
        BY <2>0, <2>2
      <3>2. run[s].pair \in Observed => task'[run[s].pair] = task[run[s].pair]
        BY <2>0, <2>2, ObservedAssumption
      <3> QED
        BY <1>0, <2>0, <3>1, <3>2, BystanderInStep
    <2>3. CASE s # r /\ run[s].pair = p /\ p \in Observed
      <3>1. run'[s] = run[s]
        BY <2>0, <2>3
      <3>2. task'[p].status \in {"PENDING", task[p].status}
        BY <1>2 DEF BeginRun, Enqueued, TypeOK
      <3>3. \/ task'[p].attempts = task[p].attempts
            \/ run[s].pc \notin {"abandon", "giveUp"}
            \/ "budget" \in outdated'[s]
        BY <1>2, <2>3 DEF BeginRun, Outdate, RunsOf
      <3> QED
        BY <1>0, <2>0, <2>3, <3>1, <3>2, <3>3, BystanderInStep
    <2> QED
      BY <2>1, <2>2, <2>3
  <1>3. ASSUME NEW r \in Runners, Advance(r)
        PROVE  InStep(s)'
    BY <1>0, <1>3, AdvanceInStep, AdvanceLeavesOthersInStep
  <1>4. CASE Crash
    BY <1>4, NothingReadInStep DEF Crash, NoRun
  <1>5. CASE UNCHANGED <<database, run, history>>
    BY <1>0, <1>5, BystanderInStep
  <1> QED
    BY <1>1, <1>2, <1>3, <1>4, <1>5
    DEF Next, Proceed, Advance, RequestRecalculation, SweepTick, FailEnqueue,
        EcomOutage, EcomRecovery, vars

-----------------------------------------------------------------------------
(* The guarantees of a pair whose history is kept *)

Good(p) ==
    /\ task[p].status = "DONE" /\ tainted[p] \cap Reads = {} => UpToDate(p)
    /\ Calculated(p) /\ ecom[p].stale =>
          task[p].status \in {"PENDING", "ABANDONED"} \/ "current" \in tainted[p]
    /\ Published(p) => ecom[p].published <= ecom[p].quantity \/ "current" \in tainted[p]
    /\ Published(p) => ecom[p].reserved \in Reservations \/ "reserved" \in tainted[p]
    /\ task[p].status = "ABANDONED" =>
          task[p].attempts = MaxAttempts \/ "budget" \in tainted[p]

\* The guarantees of all pairs, taken pair by pair.
LEMMA GuaranteesAreGood == Guarantees <=> \A p \in Observed : Good(p)
  BY DEF Guarantees, Good, DoneIsUpToDate, StaleIsOwned, PublishedWithinResult,
         PublishedRestsOnConfirmed, AbandonedIsExhausted

\* Reopening a task disturbs nothing, whatever the stock.
LEMMA GoodWhenReopened ==
    ASSUME NEW p, Good(p), ecom'[p] = ecom[p], tainted'[p] = tainted[p],
           task'[p].status = "PENDING"
    PROVE  Good(p)'
  BY DEF Good, Calculated, Published

\* A pair whose rows and stock stay as they are keeps its guarantees.
LEMMA GoodWhenUntouched ==
    ASSUME NEW p, Good(p), ecom'[p] = ecom[p], task'[p] = task[p],
           stock'[p] = stock[p], tainted'[p] = tainted[p]
    PROVE  Good(p)'
  BY DEF Good, Calculated, Published, UpToDate

\* A run on an answer of e-com leaves nothing owed but what it had read too early.
LEMMA ConfirmedCommitIsGood ==
    ASSUME TypeOK, Control, NEW r \in Runners, NEW p \in Observed, p = run[r].pair,
           Commit(r), ~run[r].stale, InStep(r)
    PROVE  Good(p)'
  <1>1. /\ ecom'[p] = [total |-> run[r].total, reserved |-> run[r].reserved,
                       quantity |-> Result(r), stale |-> run[r].stale,
                       published |-> Result(r)]
        /\ p \in Pairs /\ Result(r) \in Nat
    BY CommitStores
  <1>2. /\ run[r].reserved \in Reservations
        /\ "stock" \notin outdated[r] => run[r].total = stock[p]
    BY DEF Commit, Control, Coherent, InStep, InForce, HasRead, Working
  <1>3. stock' = stock /\ task'[p].status \in {"NONE", "DONE"}
    BY <1>1 DEF Commit, Closed, TypeOK, Tasks
  <1>4. ecom'[p] # None
    <2>1. ecom'[p] \in Rows
      BY <1>1, ResultIsNat DEF TypeOK, Runs, Rows
    <2> QED
      BY <2>1, NoneAssumption
  <1>5. tainted'[p] = (tainted[p] \cap {"budget"}) \cup (outdated[r] \cap {"stock"})
    BY <1>1 DEF Commit, CommitHistory, TypeOK
  <1>6. "stock" \notin outdated[r] => UpToDate(p)'
    BY <1>1, <1>2, <1>3, <1>4 DEF UpToDate, Calculated, Result
  <1>7. tainted'[p] \cap Reads = {} => "stock" \notin outdated[r]
    BY <1>5 DEF Reads
  <1> QED
    BY <1>1, <1>2, <1>3, <1>6, <1>7 DEF Good, Calculated, Published

(***************************************************************************)
(* A number on carried-over reservations: published if it does not raise   *)
(* what the run read, which is what e-com holds if no run overtook it.     *)
(***************************************************************************)
LEMMA StaleCommitStores ==
    ASSUME TypeOK, Control, NEW r \in Runners, Commit(r), run[r].stale, InStep(r),
           run[r].pair \in Observed, "current" \notin outdated[r]
    PROVE  LET p == run[r].pair IN
           /\ run[r].reserved = LastKnown(Snapshot(ecom[p]))
           /\ PublishedAfter(r) # None =>
                 /\ Published(p)
                 /\ PublishedAfter(r) \in Nat
                 /\ PublishedAfter(r) <= ecom[p].published
                 /\ PublishedAfter(r) <= Result(r)
  <1> DEFINE p == run[r].pair
  <1>1. run[r].current = Snapshot(ecom[p])
    BY DEF InStep, InForce, HasRead, Working, Commit, Control, Coherent
  <1>2. run[r].reserved = LastKnown(Snapshot(ecom[p]))
    BY <1>1 DEF InStep
  <1>3. p \in Pairs /\ Result(r) \in Nat /\ ecom[p] \in Rows \cup {None}
    BY CommitStores DEF TypeOK
  <1>4. Baseline(r) = IF ecom[p] = None THEN None ELSE ecom[p].published
    <2>1. CASE ecom[p] = None
      BY <1>1, <2>1 DEF Baseline, Snapshot
    <2>2. CASE ecom[p] # None
      <3>1. Snapshot(ecom[p]) \in Snapshots
        BY <1>3, <2>2 DEF Snapshot, Snapshots, Rows
      <3> QED
        BY <1>1, <2>2, <3>1, NoneAssumption DEF Baseline, Snapshot
    <2> QED
      BY <2>1, <2>2
  <1>5. ecom[p] # None => ecom[p].published \in Nat \cup {None}
    BY <1>3 DEF Rows
  <1>6. CASE Baseline(r) = None
    <2>1. PublishedAfter(r) = None
      BY <1>4, <1>6 DEF PublishedAfter, ShouldPublish
    <2> QED
      BY <1>2, <2>1
  <1>7. CASE Baseline(r) # None
    <2>1. ecom[p] # None /\ ecom[p].published \in Nat
          /\ Baseline(r) = ecom[p].published
      <3>1. ecom[p] # None
        BY <1>4, <1>7
      <3>2. Baseline(r) = ecom[p].published
        BY <1>4, <3>1
      <3> QED
        BY <1>5, <1>7, <3>1, <3>2
    <2>2. Published(p)
      BY <1>4, <1>7, <2>1 DEF Published, Calculated
    <2>3. PublishedAfter(r) = IF Result(r) <= ecom[p].published THEN Result(r)
                                                               ELSE ecom[p].published
      BY <1>7, <2>1 DEF PublishedAfter, ShouldPublish
    <2> QED
      BY <1>2, <1>3, <2>1, <2>2, <2>3
  <1> QED
    BY <1>2, <1>6, <1>7

\* A run on carried-over reservations keeps the guarantees, unless overtaken.
LEMMA StaleCommitIsGood ==
    ASSUME TypeOK, Control, NEW r \in Runners, NEW p \in Observed, p = run[r].pair,
           Commit(r), run[r].stale, InStep(r), Good(p)
    PROVE  Good(p)'
  <1>1. /\ ecom'[p] = [total |-> run[r].total, reserved |-> run[r].reserved,
                       quantity |-> Result(r), stale |-> run[r].stale,
                       published |-> PublishedAfter(r)]
        /\ p \in Pairs /\ Result(r) \in Nat
    BY CommitStores
  <1>2. task' = task
    BY DEF Commit
  <1>3. tainted'[p] = IF "current" \in outdated[r]
                      THEN tainted[p] \cup {"current", "reserved"}
                      ELSE tainted[p] \ {"current"}
    BY <1>1 DEF Commit, CommitHistory, TypeOK
  <1>4. CASE "current" \in outdated[r]
    <2>1. /\ "current" \in tainted'[p] /\ "reserved" \in tainted'[p]
          /\ "budget" \in tainted[p] => "budget" \in tainted'[p]
      BY <1>3, <1>4
    <2> QED
      BY <1>2, <2>1 DEF Good, Calculated, Published, Reads
  <1>5. CASE "current" \notin outdated[r]
    <2>1. task[p].status \in {"PENDING", "ABANDONED"}
      BY <1>5 DEF Commit, InStep
    <2>2. Published(p)' =>
            run[r].reserved \in Reservations \/ "reserved" \in tainted'[p]
      <3>1. Published(p)' => Published(p)
        BY <1>1, <1>5, StaleCommitStores DEF Published, Calculated
      <3>2. Published(p) => run[r].reserved = ecom[p].reserved
        <4>1. ASSUME Published(p)
              PROVE  Snapshot(ecom[p]) \in Snapshots
          BY <1>1, <4>1 DEF TypeOK, Published, Calculated, Snapshot, Snapshots, Rows
        <4> QED
          BY <1>5, <4>1, StaleCommitStores, NoneAssumption
          DEF LastKnown, Snapshot, Published, Calculated
      <3> QED
        BY <1>3, <1>5, <3>1, <3>2 DEF Good
    <2>3. Published(p)' => PublishedAfter(r) <= Result(r)
      BY <1>1, <1>5, StaleCommitStores DEF Published, Calculated
    <2>4. "budget" \in tainted[p] => "budget" \in tainted'[p]
      BY <1>3, <1>5
    <2> QED
      BY <1>1, <1>2, <2>1, <2>2, <2>3, <2>4 DEF Good, Published, Calculated
  <1> QED
    BY <1>4, <1>5

\* No step takes a guarantee from a pair.
LEMMA NextGuarantees ==
    TypeOK /\ Control /\ RunsInStep /\ Guarantees /\ [Next]_vars => Guarantees'
  <1> SUFFICES ASSUME TypeOK, Control, RunsInStep, Guarantees, [Next]_vars,
                      NEW p \in Observed
               PROVE  Good(p)'
    BY DEF Guarantees, Good, DoneIsUpToDate, StaleIsOwned, PublishedWithinResult,
           PublishedRestsOnConfirmed, AbandonedIsExhausted
  <1>0. Good(p) /\ p \in Pairs
    BY GuaranteesAreGood, ObservedAssumption
  <1> USE DEF database, history
  <1>1. ASSUME NEW h \in Handlers, NEW targets \in SUBSET Pairs,
               NEW totals \in [targets -> Quantities],
               ApplyStock(h, targets, totals)
        PROVE  Good(p)'
    <2>1. ecom'[p] = ecom[p] /\ tainted'[p] = tainted[p]
      BY <1>1 DEF ApplyStock
    <2>2. CASE p \in targets
      <3>1. task'[p].status = "PENDING"
        BY <1>0, <1>1, <2>2 DEF ApplyStock, Enqueued
      <3> QED
        BY <1>0, <2>1, <3>1, GoodWhenReopened
    <2>3. CASE p \notin targets
      <3>1. task'[p] = task[p] /\ stock'[p] = stock[p]
        BY <1>0, <1>1, <2>3 DEF ApplyStock
      <3> QED
        BY <1>0, <2>1, <3>1, GoodWhenUntouched
    <2> QED
      BY <2>2, <2>3
  <1>2. ASSUME NEW r \in Runners, NEW q \in Pairs, BeginRun(r, q)
        PROVE  Good(p)'
    <2>1. ecom' = ecom /\ stock' = stock /\ tainted' = tainted
      BY <1>2 DEF BeginRun
    <2>2. task'[p] = task[p] \/ task'[p].status = "PENDING"
      BY <1>0, <1>2 DEF BeginRun, Enqueued, TypeOK
    <2> QED
      BY <1>0, <2>1, <2>2, GoodWhenReopened, GoodWhenUntouched
  <1>3. ASSUME NEW r \in Runners, Advance(r), run[r].pair # p
        PROVE  Good(p)'
    BY <1>0, <1>3, AdvanceWritesItsPair, GoodWhenUntouched
  <1>4. ASSUME NEW r \in Runners, Commit(r), run[r].pair = p
        PROVE  Good(p)'
    <2>1. InStep(r)
      BY DEF RunsInStep
    <2> QED
      BY <1>0, <1>4, <2>1, ConfirmedCommitIsGood, StaleCommitIsGood
  <1>5. ASSUME NEW r \in Runners, RecordUnavailable(r) \/ RecordFailure(r),
               run[r].pair = p
        PROVE  Good(p)'
    <2>1. ecom' = ecom /\ tainted' = tainted
      BY <1>5 DEF RecordUnavailable, RecordFailure
    <2>2. task'[p].status = "PENDING"
      BY <1>0, <1>5 DEF RecordUnavailable, RecordFailure, Counted, TypeOK
    <2> QED
      BY <1>0, <2>1, <2>2, GoodWhenReopened
  <1>6. ASSUME NEW r \in Runners, Abandon(r), run[r].pair = p
        PROVE  Good(p)'
    <2>1. ecom' = ecom /\ stock' = stock
      BY <1>6 DEF Abandon
    <2>2. tainted'[p] = (tainted[p] \ {"budget"}) \cup (outdated[r] \cap {"budget"})
      BY <1>0, <1>6 DEF Abandon, TypeOK
    <2>3. task[p] \in Tasks /\ task'[p] = [task[p] EXCEPT !.status = "ABANDONED"]
      BY <1>0, <1>6 DEF Abandon, TypeOK
    <2>4. "budget" \notin outdated[r] => task[p].attempts = MaxAttempts
      BY <1>6 DEF Abandon, RunsInStep, InStep
    <2>5. task'[p].status = "ABANDONED" /\ task'[p].attempts = task[p].attempts
      BY <2>3 DEF Tasks
    <2>6. \A what \in {"current", "reserved"} : what \in tainted[p] => what \in tainted'[p]
      BY <2>2
    <2>7. "budget" \in outdated[r] => "budget" \in tainted'[p]
      BY <2>2
    <2> QED
      BY <1>0, <2>1, <2>4, <2>5, <2>6, <2>7 DEF Good, Calculated, Published
  <1>7. ASSUME NEW r \in Runners,
               \/ ReadShopsTotal(r) \/ ReadCurrent(r) \/ AskUnavailable(r)
               \/ FailRun(r) \/ \E v \in Reservations : AskAnswered(r, v)
        PROVE  Good(p)'
    <2>1. UNCHANGED <<database, tainted>>
      BY <1>7 DEF ReadShopsTotal, ReadCurrent, AskUnavailable, FailRun, AskAnswered
    <2> QED
      BY <1>0, <2>1, GoodWhenUntouched
  <1>8. CASE UNCHANGED <<database, tainted>>
    BY <1>0, <1>8, GoodWhenUntouched
  <1> QED
    BY <1>1, <1>2, <1>3, <1>4, <1>5, <1>6, <1>7, <1>8
    DEF Next, Proceed, Advance, RequestRecalculation, SweepTick, FailEnqueue,
        Crash, EcomOutage, EcomRecovery, vars

-----------------------------------------------------------------------------
(* Theorems *)

\* The initial state satisfies the inductive invariant.
LEMMA InitIInv == Init => IInv
  <1> SUFFICES ASSUME Init PROVE IInv
    OBVIOUS
  <1>1. Control
    BY NoRunCoherent DEF Init, Control
  <1>2. UnflaggedIsConfirmed /\ Guarantees
    BY ObservedAssumption DEF Init, UnflaggedIsConfirmed, Guarantees, DoneIsUpToDate,
           StaleIsOwned, PublishedWithinResult, PublishedRestsOnConfirmed,
           AbandonedIsExhausted, Calculated, Published
  <1>3. RunsInStep
    BY DEF Init, RunsInStep, InStep, InForce, HasRead, Working, NoRun
  <1> QED
    BY <1>1, <1>2, <1>3, InitTypeOK DEF IInv

\* Every step preserves the inductive invariant.
LEMMA NextIInv == IInv /\ [Next]_vars => IInv'
  BY NextTypeOK, NextControl, NextUnflagged, NextInStep, NextGuarantees
  DEF IInv

(***************************************************************************)
(* The strengthened invariant holds in every reachable state.              *)
(***************************************************************************)
THEOREM Inductive == Spec => []IInv
  BY InitIInv, NextIInv, PTL DEF Spec

(***************************************************************************)
(* Every variable keeps its type: no stored number is ever negative, no    *)
(* attempt counter runs past MaxAttempts.                                  *)
(***************************************************************************)
THEOREM TypeCorrect == Spec => []TypeOK
  <1>1. IInv => TypeOK
    BY DEF IInv
  <1> QED
    BY <1>1, Inductive, PTL

(***************************************************************************)
(* README: with no stale row, every published number rests on confirmed    *)
(* reservations, for any number of callers and any overlap of their runs.  *)
(***************************************************************************)
THEOREM ConfirmedUnlessFlagged == Spec => []UnflaggedIsConfirmed
  <1>1. IInv => UnflaggedIsConfirmed
    BY DEF IInv
  <1> QED
    BY <1>1, Inductive, PTL

(***************************************************************************)
(* A closed task owes nothing: the published number is that of the current *)
(* stock, unless the run that stored it had read the shops' sum, or        *)
(* without an answer of e-com the row, before another caller replaced it.  *)
(* Observed may be any set of pairs, so this and the theorems below speak  *)
(* of every pair.                                                          *)
(***************************************************************************)
THEOREM NothingOwed == Spec => []DoneIsUpToDate
  <1>1. IInv => DoneIsUpToDate
    BY DEF IInv, Guarantees
  <1> QED
    BY <1>1, Inductive, PTL

(***************************************************************************)
(* A stale row has an open or an abandoned task, unless another run of the *)
(* pair committed between the storing run's read of the row and its commit.*)
(***************************************************************************)
THEOREM StaleOwned == Spec => []StaleIsOwned
  <1>1. IInv => StaleIsOwned
    BY DEF IInv, Guarantees
  <1> QED
    BY <1>1, Inductive, PTL

(***************************************************************************)
(* A drop reaches e-com: what it holds exceeds the last result only where  *)
(* a run without an answer was overtaken after it had read the row.        *)
(***************************************************************************)
THEOREM WithinResult == Spec => []PublishedWithinResult
  <1>1. IInv => PublishedWithinResult
    BY DEF IInv, Guarantees
  <1> QED
    BY <1>1, Inductive, PTL

(***************************************************************************)
(* Reservations behind a published number are an answer of e-com, unless a *)
(* run carried them over from a row another run had replaced.              *)
(***************************************************************************)
THEOREM NeverGuessed == Spec => []PublishedRestsOnConfirmed
  <1>1. IInv => PublishedRestsOnConfirmed
    BY DEF IInv, Guarantees
  <1> QED
    BY <1>1, Inductive, PTL

(***************************************************************************)
(* A pair is given up only with its attempts used up, unless a manual      *)
(* request came between the count of the last one and the giving up.       *)
(***************************************************************************)
THEOREM FullBudget == Spec => []AbandonedIsExhausted
  <1>1. IInv => AbandonedIsExhausted
    BY DEF IInv, Guarantees
  <1> QED
    BY <1>1, Inductive, PTL

\* The action property, for one step from a state of the inductive invariant.
LEMMA StaleStepNeverRaises ==
    ASSUME IInv, [Next]_vars, NEW p \in Observed, "current" \notin tainted'[p]
    PROVE  ~Raised(ecom[p], ecom'[p])
  <1>0. TypeOK /\ Control /\ p \in Pairs
    BY ObservedAssumption DEF IInv
  <1>1. CASE ecom'[p] = ecom[p]
    <2>1. ecom[p] \in Rows \cup {None}
      BY <1>0 DEF TypeOK
    <2> QED
      BY <1>1, <2>1 DEF Raised, Rows
  <1>2. ASSUME NEW r \in Runners, Commit(r), run[r].pair = p, run[r].stale
        PROVE  ~Raised(ecom[p], ecom'[p])
    <2>1. InStep(r) /\ "current" \notin outdated[r]
      BY <1>0, <1>2 DEF Commit, CommitHistory, IInv, RunsInStep, TypeOK
    <2>8. ecom'[p] = [total |-> run[r].total, reserved |-> run[r].reserved,
                      quantity |-> Result(r), stale |-> run[r].stale,
                      published |-> PublishedAfter(r)]
      BY <1>0, <1>2, CommitStores
    <2>2. ecom'[p].published = PublishedAfter(r)
      BY <2>8
    <2>3. ecom[p] \in Rows \cup {None}
      BY <1>0 DEF TypeOK
    <2>4. PublishedAfter(r) # None =>
            /\ Published(p)
            /\ PublishedAfter(r) \in Nat
            /\ PublishedAfter(r) <= ecom[p].published
      BY <1>0, <1>2, <2>1, StaleCommitStores
    <2>5. Published(p) => ecom[p] # None /\ ecom[p].published \in Nat
      BY <2>3 DEF Published, Calculated, Rows
    <2>6. CASE PublishedAfter(r) = None
      BY <2>2, <2>6 DEF Raised
    <2>7. CASE PublishedAfter(r) # None
      <3>1. ~(ecom[p].published < PublishedAfter(r))
        BY <2>4, <2>5, <2>7
      <3>2. ecom[p] # None /\ ecom[p].published # None
        BY <2>4, <2>7 DEF Published, Calculated
      <3> QED
        BY <2>2, <3>1, <3>2 DEF Raised
    <2> QED
      BY <2>6, <2>7
  <1>3. ASSUME NEW r \in Runners, Commit(r), run[r].pair = p, ~run[r].stale
        PROVE  ~Raised(ecom[p], ecom'[p])
    <2>1. ecom'[p] = [total |-> run[r].total, reserved |-> run[r].reserved,
                      quantity |-> Result(r), stale |-> run[r].stale,
                      published |-> PublishedAfter(r)]
      BY <1>0, <1>3, CommitStores
    <2>2. ~ecom'[p].stale
      BY <1>3, <2>1
    <2> QED
      BY <2>2 DEF Raised
  <1> QED
    <2>1. CASE UNCHANGED ecom
      BY <1>1, <2>1
    <2>2. ASSUME NEW r \in Runners, Commit(r),
                 \A q \in Pairs : q # run[r].pair => ecom'[q] = ecom[q]
          PROVE  ~Raised(ecom[p], ecom'[p])
      BY <1>0, <1>1, <1>2, <1>3, <2>2
    <2> QED
      BY <1>0, <2>1, <2>2, OnlyCommitWrites

(***************************************************************************)
(* A result on unconfirmed reservations raises what e-com may sell only    *)
(* if another run of the pair committed after this one had read the row.   *)
(***************************************************************************)
THEOREM NeverRaises == Spec => StaleNeverRaises
  <1>1. IInv /\ [Next]_vars =>
          [\A p \in Observed :
              Raised(ecom[p], ecom'[p]) => "current" \in tainted'[p]]_vars
    BY StaleStepNeverRaises
  <1> QED
    BY <1>1, Inductive, PTL DEF Spec, StaleNeverRaises

-----------------------------------------------------------------------------
\* Every stored row holds the result of its own numbers.
RowsAddUp == \A p \in Pairs : Calculated(p) =>
    ecom[p].quantity = Quantity(ecom[p].total, SafetyBuffer[p], ecom[p].reserved)

LEMMA RowsAddUpStep == TypeOK /\ RowsAddUp /\ Control /\ [Next]_vars => RowsAddUp'
  <1> SUFFICES ASSUME TypeOK, RowsAddUp, Control, [Next]_vars PROVE RowsAddUp'
    OBVIOUS
  <1>1. CASE ecom' = ecom
    BY <1>1 DEF RowsAddUp, Calculated
  <1>2. ASSUME NEW r \in Runners, Commit(r) PROVE RowsAddUp'
    <2> DEFINE p == run[r].pair
               row == [total |-> run[r].total, reserved |-> run[r].reserved,
                       quantity |-> Result(r), stale |-> run[r].stale,
                       published |-> PublishedAfter(r)]
    <2>1. ecom' = [ecom EXCEPT ![p] = row]
      BY <1>2 DEF Commit
    <2>2. row.quantity = Quantity(row.total, SafetyBuffer[p], row.reserved)
      BY DEF Result
    <2> HIDE DEF row
    <2>3. ASSUME NEW q \in Pairs, Calculated(q)'
          PROVE  ecom'[q].quantity = Quantity(ecom'[q].total, SafetyBuffer[q], ecom'[q].reserved)
      <3>1. CASE q = p
        BY <2>1, <2>2, <3>1 DEF TypeOK
      <3>2. CASE q # p
        BY <2>1, <2>3, <3>2 DEF RowsAddUp, Calculated, TypeOK
      <3> QED
        BY <3>1, <3>2
    <2> QED
      BY <2>3 DEF RowsAddUp, Calculated
  <1> QED
    BY <1>1, <1>2, OnlyCommitWrites

(***************************************************************************)
(* The tape of any variant adds up, and its mark says what it means, for   *)
(* all stock, buffers and reservations and any overlap of runs.            *)
(***************************************************************************)
THEOREM TapeHonest == Spec => []TapeAddsUp
  <1>1. Init => RowsAddUp
    BY DEF Init, RowsAddUp, Calculated
  <1>2. IInv => TypeOK /\ Control
    BY DEF IInv
  <1>3. IInv /\ RowsAddUp => TapeAddsUp
    <2> SUFFICES ASSUME IInv, RowsAddUp, NEW p \in Pairs, Calculated(p)
                 PROVE  LET sum == Quantity(ecom[p].total, SafetyBuffer[p], ecom[p].reserved) IN
                        /\ ~Withheld(p) => ecom[p].published = sum
                        /\ Withheld(p) => ecom[p].stale
                        /\ Withheld(p) /\ p \in Observed /\ "current" \notin tainted[p] =>
                              ecom[p].published = None \/ ecom[p].published < sum
      BY DEF TapeAddsUp
    <2>1. ecom[p].quantity = Quantity(ecom[p].total, SafetyBuffer[p], ecom[p].reserved)
      BY DEF RowsAddUp
    <2>2. ~ecom[p].stale => ecom[p].published = ecom[p].quantity
      BY <2>1 DEF IInv, UnflaggedIsConfirmed
    <2>3. ecom[p].quantity \in Nat /\ ecom[p].published \in Nat \cup {None}
      BY DEF IInv, TypeOK, Rows, Calculated
    <2>4. p \in Observed /\ "current" \notin tainted[p] /\ ecom[p].published # None =>
              ecom[p].published <= ecom[p].quantity
      BY DEF IInv, Guarantees, PublishedWithinResult, Published
    <2>5. p \in Observed /\ "current" \notin tainted[p] /\ ecom[p].published # None /\ Withheld(p) =>
              ecom[p].published < ecom[p].quantity
      BY <2>3, <2>4 DEF Withheld
    <2> QED
      BY <2>1, <2>2, <2>5 DEF Withheld
  <1> QED
    BY <1>1, <1>2, <1>3, Inductive, RowsAddUpStep, PTL DEF Spec
=============================================================================
