----------------------------- MODULE StockApply -----------------------------
(***************************************************************************)
(* Applying stock messages: the transaction of StockService.applyStock,    *)
(* statement by statement, for several messages at once.                   *)
(*                                                                         *)
(* PostgreSQL runs it at READ COMMITTED: a statement sees what is          *)
(* committed when it starts and what its own transaction wrote; a row      *)
(* written by a transaction is locked until that transaction ends.  The    *)
(* upserts of product, variant and region rows that write nothing to an    *)
(* existing row are left out, and with them any lock they may take: the    *)
(* interleavings allowed here include those such locks would forbid.       *)
(*                                                                         *)
(* The calculation that follows is reduced to one step (StockRecalculation *)
(* has its interleavings); shops are mapped to regions by hand, outside    *)
(* the service.                                                            *)
(***************************************************************************)
EXTENDS BcStockMapping, StockFormula, FiniteSets

CONSTANTS
    Variants,
    Shops,        \* warehouse codes
    Regions,      \* real regions
    Unassigned,   \* UNASSIGNED_REGION_CODE
    InitialMap,   \* region of each shop known at the start, None for the others
    SafetyBuffer, \* Region.safetyBuffer, the default for Unassigned
    Dtos,         \* stock messages BC may send
    Workers,      \* ingest calls in progress
    MaxMessages,  \* bound on messages
    MaxMappings   \* bound on shops mapped by hand

AllRegions == Regions \cup {Unassigned}
StockRows == Variants \X Shops
Pairs == Variants \X AllRegions

ASSUME RegionsAssumption == Unassigned \notin Regions
ASSUME MapAssumption == InitialMap \in [Shops -> Regions \cup {None}]
ASSUME BufferAssumption == SafetyBuffer \in [AllRegions -> Nat]
ASSUME ShopsAssumption == IsFiniteSet(Shops)
ASSUME NoneAssumption == None \notin AllRegions \cup [total : Nat, quantity : Nat]
ASSUME BoundsAssumption == MaxMessages \in Nat /\ MaxMappings \in Nat

\* What has passed class validation.
Number == Int \cup {Absent}
Report == [shop : Shops, quantity : Number, delta : Number]
Entry == [variant : Variants, quantity : Number, delta : Number, nested : Seq(Report)]
StockDto == [warehouse : Shops \cup {Absent}, variants : Seq(Entry)]

ASSUME MessagesAssumption == Dtos \subseteq StockDto

VARIABLES
    region,   \* Shop.regionId, None without a Shop row
    included, \* Shop.includedInEcom
    quantity, \* ShopStock.quantity, None without a row
    owed,     \* pairs with a PENDING recalculation task
    given,    \* what a pair's last calculation summed and handed to e-com
    tx,       \* the transaction each ingest call is in
    messages, mappings,
    (***********************************************************************)
    (* Observation only: pairs whose shops or whose shops' stock changed   *)
    (* without a task being written for them, because a shop was mapped by *)
    (* hand, since they were last calculated.                              *)
    (***********************************************************************)
    moved

committed == <<region, included, quantity, owed, given>>
bounds == <<messages, mappings>>
vars == <<committed, tx, bounds, moved>>

NoTx == [pc |-> "idle", dto |-> None, lines |-> <<>>, region |-> None,
         written |-> <<>>, created |-> {}, targets |-> {}]

Init ==
    /\ region = InitialMap
    /\ included = [s \in Shops |-> InitialMap[s] # None]
    /\ quantity = [r \in StockRows |-> None]
    /\ owed = {}
    /\ given = [p \in Pairs |-> None]
    /\ tx = [w \in Workers |-> NoTx]
    /\ messages = 0
    /\ mappings = 0
    /\ moved = {}

-----------------------------------------------------------------------------
(* Rows as a transaction sees them *)

Line(w) == Head(tx[w].lines)
Row(w) == <<Line(w).variant, Line(w).shop>>
At(w, pc) == tx[w].pc = pc /\ tx[w].lines # <<>>

Locked(row, w) == \E o \in Workers \ {w} : row \in DOMAIN tx[o].written
Creating(shop, w) == \E o \in Workers \ {w} : shop \in tx[o].created

Visible(w, row) ==
    IF row \in DOMAIN tx[w].written THEN tx[w].written[row] ELSE quantity[row]

Put(written, row, n) ==
    [r \in DOMAIN written \cup {row} |-> IF r = row THEN n ELSE written[r]]

Clamped(n) == IF n < 0 THEN 0 ELSE n

\* The line is done; its variant and the region its shop was resolved to are a target.
LineDone(w, written) ==
    [tx[w] EXCEPT !.pc = "resolve",
                  !.lines = Tail(@),
                  !.written = written,
                  !.targets = @ \cup {<<Line(w).variant, tx[w].region>>}]

-----------------------------------------------------------------------------
(* One message *)

\* A message that is refused changes nothing and is parked: BcIngest has that.
BeginMessage(w, dto) ==
    /\ tx[w] = NoTx
    /\ messages < MaxMessages
    /\ Accepted(dto)
    /\ messages' = messages + 1
    /\ tx' = [tx EXCEPT ![w] =
                 [NoTx EXCEPT !.pc = "resolve", !.dto = dto, !.lines = ToStockCommand(dto)]]
    /\ UNCHANGED <<committed, mappings, moved>>

\* ShopRepository.findByCode, in the transaction.
FindShop(w) ==
    LET s == Line(w).shop
        found == IF s \in tx[w].created THEN Unassigned ELSE region[s]
    IN
    /\ At(w, "resolve")
    /\ tx' = [tx EXCEPT ![w].pc = IF found = None THEN "create" ELSE "write",
                        ![w].region = found]
    /\ UNCHANGED <<committed, bounds, moved>>

(***************************************************************************)
(* ensureUnmapped: an upsert, which waits for a message that is creating   *)
(* the same shop and takes the shop as it is if that one committed.        *)
(***************************************************************************)
EnsureUnmapped(w) ==
    LET s == Line(w).shop IN
    /\ At(w, "create")
    /\ ~Creating(s, w)
    /\ tx' = [tx EXCEPT
                 ![w].pc = "write",
                 ![w].region = IF region[s] = None THEN Unassigned ELSE region[s],
                 ![w].created = IF region[s] = None THEN @ \cup {s} ELSE @]
    /\ UNCHANGED <<committed, bounds, moved>>

\* Defect: a negative report stored as it is.
SetQuantityUnclamped(w) ==
    /\ At(w, "write")
    /\ Present(Line(w).quantity)
    /\ ~Locked(Row(w), w)
    /\ tx' = [tx EXCEPT ![w] =
                 LineDone(w, Put(tx[w].written, Row(w), Line(w).quantity))]
    /\ UNCHANGED <<committed, bounds, moved>>

SetQuantity(w) ==
    /\ At(w, "write")
    /\ Present(Line(w).quantity)
    /\ ~Locked(Row(w), w)
    /\ tx' = [tx EXCEPT ![w] =
                 LineDone(w, Put(tx[w].written, Row(w), Clamped(Line(w).quantity)))]
    /\ UNCHANGED <<committed, bounds, moved>>

\* Defect: read, add and write in application code, with no row lock in between.
AdjustQuantityUnlocked(w) ==
    LET old == Visible(w, Row(w)) IN
    /\ At(w, "write")
    /\ Present(Line(w).delta)
    /\ tx' = [tx EXCEPT
                 ![w].pc = "clamp",
                 ![w].written = Put(@, Row(w), IF old = None THEN Clamped(Line(w).delta)
                                               ELSE old + Line(w).delta)]
    /\ UNCHANGED <<committed, bounds, moved>>

\* The increment in one statement; a first report is stored clamped.
AdjustQuantity(w) ==
    LET old == Visible(w, Row(w)) IN
    /\ At(w, "write")
    /\ Present(Line(w).delta)
    /\ ~Locked(Row(w), w)
    /\ tx' = [tx EXCEPT
                 ![w].pc = "clamp",
                 ![w].written = Put(@, Row(w), IF old = None THEN Clamped(Line(w).delta)
                                               ELSE old + Line(w).delta)]
    /\ UNCHANGED <<committed, bounds, moved>>

\* The second statement of adjustQuantity.
ClampQuantity(w) ==
    /\ At(w, "clamp")
    /\ tx' = [tx EXCEPT ![w] =
                 LineDone(w, Put(tx[w].written, Row(w), Clamped(Visible(w, Row(w)))))]
    /\ UNCHANGED <<committed, bounds, moved>>

\* The pairs the stock written by the transaction counts for at this moment.
Affected(w) ==
    {<<row[1], IF region[row[2]] = None THEN Unassigned ELSE region[row[2]]>> :
        row \in DOMAIN tx[w].written}

\* A shop nobody has mapped is kept out of e-com.
CreateShops(shops) ==
    /\ region' = [s \in Shops |-> IF s \in shops THEN Unassigned ELSE region[s]]
    /\ included' = [s \in Shops |-> s \notin shops /\ included[s]]

\* Defect: an update instead of an upsert, which opens no task for a new pair.
EnqueueUpdated(targets) == owed' = owed \cup {t \in targets : given[t] # None}

Enqueue(targets) == owed' = owed \cup targets

\* Every target is enqueued, the message marked PROCESSED, and all of it commits.
Commit(w) ==
    /\ tx[w].pc = "resolve"
    /\ tx[w].lines = <<>>
    /\ quantity' = [r \in StockRows |-> Visible(w, r)]
    /\ CreateShops(tx[w].created)
    /\ Enqueue(tx[w].targets)
    /\ moved' = moved \cup (Affected(w) \ tx[w].targets)
    /\ tx' = [tx EXCEPT ![w] = NoTx]
    /\ UNCHANGED <<given, bounds>>

\* A statement fails, or the transaction is the victim of a deadlock.
Rollback(w) ==
    /\ tx[w] # NoTx
    /\ tx' = [tx EXCEPT ![w] = NoTx]
    /\ UNCHANGED <<committed, bounds, moved>>

-----------------------------------------------------------------------------
(* What follows a message *)

\* The shops of the region that feed e-com and have reported the variant.
Counted(p) == {s \in Shops : region[s] = p[2] /\ included[s] /\ quantity[<<p[1], s>>] # None}

\* Total they hold.
SumForRegion(p) == SumFunction([s \in Counted(p) |-> quantity[<<p[1], s>>]])

\* A run on confirmed reservations: its number always goes to e-com.
Recalculate(p, reserved) ==
    /\ p \in owed
    /\ given' = [given EXCEPT ![p] =
                    [total |-> SumForRegion(p),
                     quantity |-> Quantity(SumForRegion(p), SafetyBuffer[p[2]], reserved)]]
    /\ owed' = owed \ {p}
    /\ moved' = moved \ {p}
    /\ UNCHANGED <<region, included, quantity, tx, bounds>>

\* The pairs of the regions a variant holds stock in.
HeldIn(v) == {<<v, region[s]>> : s \in {t \in Shops : quantity[<<v, t>>] # None}}

\* A manual request, after a mapping changed.
RecalculateVariant(v) ==
    /\ HeldIn(v) # {}
    /\ owed' = owed \cup HeldIn(v)
    /\ UNCHANGED <<region, included, quantity, given, tx, bounds, moved>>

\* Somebody assigns a shop to a region and lets it feed e-com.
MapShop(s, r) ==
    /\ region[s] # None
    /\ mappings < MaxMappings
    /\ mappings' = mappings + 1
    /\ region' = [region EXCEPT ![s] = r]
    /\ included' = [included EXCEPT ![s] = TRUE]
    /\ moved' = moved \cup (Variants \X {region[s], r})
    /\ UNCHANGED <<quantity, owed, given, tx, messages>>

-----------------------------------------------------------------------------
Statement(w) ==
    \/ FindShop(w)
    \/ EnsureUnmapped(w)
    \/ SetQuantity(w)
    \/ AdjustQuantity(w)
    \/ ClampQuantity(w)
    \/ Commit(w)

Next ==
    \/ \E w \in Workers, dto \in Dtos : BeginMessage(w, dto)
    \/ \E w \in Workers : Statement(w)
    \/ \E w \in Workers : Rollback(w)
    \/ \E p \in Pairs : Recalculate(p, 0)
    \/ \E v \in Variants : RecalculateVariant(v)
    \/ \E s \in Shops, r \in Regions : MapShop(s, r)

Spec == Init /\ [][Next]_vars

-----------------------------------------------------------------------------
(* Safety *)

Quantities == Nat \cup {None}
TxPCs == {"idle", "resolve", "create", "write", "clamp"}

\* What is committed is never negative, and locked rows have one holder.
TypeOK ==
    /\ region \in [Shops -> AllRegions \cup {None}]
    /\ included \in [Shops -> BOOLEAN]
    /\ quantity \in [StockRows -> Quantities]
    /\ owed \subseteq Pairs
    /\ given \in [Pairs -> [total : Nat, quantity : Nat] \cup {None}]
    /\ moved \subseteq Pairs
    /\ \A w \in Workers :
          /\ tx[w].pc \in TxPCs
          /\ DOMAIN tx[w].written \subseteq StockRows
          /\ tx[w].created \subseteq Shops
          /\ tx[w].targets \subseteq Pairs
          /\ \A row \in DOMAIN tx[w].written :
                tx[w].written[row] \in Int /\ ~Locked(row, w)
    /\ messages \in 0 .. MaxMessages
    /\ mappings \in 0 .. MaxMappings

(***************************************************************************)
(* What commits is "the stock changed and owes a recalculation": a pair    *)
(* without a task was given to e-com from the stock as it is now, unless a *)
(* shop was mapped by hand.  Messages that resolve, create and lock the    *)
(* same shops and rows at once leave no pair out.                          *)
(***************************************************************************)
ChangedIsOwed ==
    \A p \in Pairs \ (owed \cup moved) :
        IF given[p] = None THEN SumForRegion(p) = 0
                           ELSE given[p].total = SumForRegion(p)

(***************************************************************************)
(* What the documents say of stock nobody has mapped: it is kept, and      *)
(* nothing goes to e-com for the placeholder region.                       *)
(***************************************************************************)
NoPhantomRegion == \A v \in Variants : given[<<v, Unassigned>>] = None

\* The numbers of one report, each with the variant and warehouse it is about.
NumbersOf(variant, shop, report) ==
    {<<variant, shop, field, report[field]>> :
        field \in {f \in {"quantity", "delta"} : Present(report[f])}}

Reported(dto) ==
    UNION {NumbersOf(e.variant, dto.warehouse, e)
             \cup UNION {NumbersOf(e.variant, n.shop, n) : n \in ToSet(e.nested)} :
                e \in ToSet(dto.variants)}

(***************************************************************************)
(* A message is applied with all its numbers and no other, each of them to *)
(* the variant and warehouse it was reported for, or not at all: none is   *)
(* dropped and no missing one becomes a zero.                              *)
(***************************************************************************)
EveryNumberHasItsLine ==
    \A w \in Workers : tx[w] # NoTx =>
        Reported(tx[w].dto) =
            UNION {NumbersOf(l.variant, l.shop, l) : l \in ToSet(ToStockCommand(tx[w].dto))}

-----------------------------------------------------------------------------
(* Refinement *)

LedgerLine(l) ==
    [row |-> <<l.variant, l.shop>>, set |-> Present(l.quantity),
     number |-> IF Present(l.quantity) THEN l.quantity ELSE l.delta]
LedgerCommands ==
    {[i \in DOMAIN ToStockCommand(d) |-> LedgerLine(ToStockCommand(d)[i])] :
        d \in {e \in Dtos : Accepted(e)}}

Ledger == INSTANCE StockLedger
            WITH Rows <- StockRows, Commands <- LedgerCommands, NoRow <- None

(***************************************************************************)
(* Concurrent messages on the same warehouses take effect one after the    *)
(* other and wholly: no delta is lost, none is counted on a quantity that  *)
(* is rolled back, and nobody sees a sum before it is clamped.             *)
(***************************************************************************)
AppliedAsInLedger == Ledger!Spec
=============================================================================
