----------------------------- MODULE Catalogue -----------------------------
(***************************************************************************)
(* Product messages and the placeholders of stock messages, applied at the *)
(* same time by several ingest calls, each in a transaction of its own:    *)
(* StockService.applyCatalogue, and applyStock as far as it touches the    *)
(* catalogue.  The two topics are not ordered with each other.             *)
(*                                                                         *)
(* As in StockApply, a row that a transaction wrote or created is locked   *)
(* until the transaction ends, and an upsert that meets such a row waits.  *)
(* An upsert with nothing to update takes no lock on a row that is there.  *)
(* The foreign keys need no more: they lock the key of a parent row, which *)
(* no update here changes.                                                 *)
(***************************************************************************)
EXTENDS CatalogueRows, Integers

CONSTANTS
    Skus, Codes, Seasons,
    Values,                 \* what a column may hold that is not NULL
    ProductDtos, StockDtos, \* messages BC may send
    Workers,                \* ingest calls in progress
    MaxMessages             \* bound on messages

Rows == {SeasonRow(n) : n \in Seasons} \cup {ProductRow(s) : s \in Skus}
            \cup {VariantRow(s, c) : s \in Skus, c \in Codes}

Contents(row) == [DOMAIN Blank(row) -> Values \cup {None}]

Optional == Values \cup {Undefined, Null}

\* What has passed class validation.
SeasonDto == [name : Seasons, startingDate : Optional, endingDate : Optional]
ProductDto == [sku : Skus, name : Values, brand : Optional, price : Optional,
               season : SeasonDto \cup {Undefined, Null},
               variants : Seq([variantCode : Codes, color : Optional])]
StockDto == [sku : Skus, variants : Seq(Codes)]

ASSUME ValuesAssumption ==
    /\ Skus \cup Seasons \cup {Epoch} \subseteq Values
    /\ {Undefined, Null, None} \cap Values = {}
    /\ None \notin {Undefined, Null}
    /\ \A row \in Rows : None \notin Contents(row)

ASSUME MessagesAssumption ==
    /\ ProductDtos \subseteq ProductDto
    /\ StockDtos \subseteq StockDto
    /\ MaxMessages \in Nat

VARIABLES
    rows,    \* committed content of each row, None without one
    tx,      \* the transaction each ingest call is in
    messages

vars == <<rows, tx, messages>>

NoTx == [kind |-> None, todo |-> <<>>, written |-> <<>>]

Init ==
    /\ rows = [r \in Rows |-> None]
    /\ tx = [w \in Workers |-> NoTx]
    /\ messages = 0

Statement(w) == Head(tx[w].todo)
Sending(w) == tx[w].todo # <<>>

Locked(row, w) == \E o \in Workers \ {w} : row \in DOMAIN tx[o].written

Visible(w, row) ==
    IF row \in DOMAIN tx[w].written THEN tx[w].written[row] ELSE rows[row]

Put(written, row, content) ==
    [r \in DOMAIN written \cup {row} |-> IF r = row THEN content ELSE written[r]]

\* A row that is there and needs no update is neither written nor locked.
LeavesAlone(w) == Statement(w).ensure /\ Visible(w, Statement(w).row) # None

-----------------------------------------------------------------------------
Begin(w, kind, statements) ==
    /\ tx[w] = NoTx
    /\ messages < MaxMessages
    /\ messages' = messages + 1
    /\ tx' = [tx EXCEPT ![w] = [kind |-> kind, todo |-> statements, written |-> <<>>]]
    /\ UNCHANGED rows

IngestProduct(w, dto) == Begin(w, "product", ApplyCatalogue(dto))
IngestStock(w, dto) == Begin(w, "stock", ApplyStock(dto))

\* The row is there already.
FindRow(w) ==
    /\ Sending(w)
    /\ LeavesAlone(w)
    /\ tx' = [tx EXCEPT ![w].todo = Tail(@)]
    /\ UNCHANGED <<rows, messages>>

\* Defect: find, then create or update, from what was read before the row was locked.
WriteRowUnlocked(w) ==
    /\ Sending(w)
    /\ ~LeavesAlone(w)
    /\ ~Throws(Statement(w))
    /\ LET row == Statement(w).row IN
       tx' = [tx EXCEPT ![w] =
                [kind |-> @.kind,
                 todo |-> Tail(@.todo),
                 written |-> Put(@.written, row, AfterStatement(Visible(w, row), Statement(w)))]]
    /\ UNCHANGED <<rows, messages>>

\* INSERT ... ON CONFLICT DO UPDATE, one statement.
WriteRow(w) ==
    /\ Sending(w)
    /\ ~LeavesAlone(w)
    /\ ~Throws(Statement(w))
    /\ ~Locked(Statement(w).row, w)
    /\ LET row == Statement(w).row IN
       tx' = [tx EXCEPT ![w] =
                [kind |-> @.kind,
                 todo |-> Tail(@.todo),
                 written |-> Put(@.written, row, AfterStatement(Visible(w, row), Statement(w)))]]
    /\ UNCHANGED <<rows, messages>>

\* The message is marked PROCESSED and all of it commits.
Commit(w) ==
    /\ tx[w] # NoTx
    /\ ~Sending(w)
    /\ rows' = [r \in Rows |-> Visible(w, r)]
    /\ tx' = [tx EXCEPT ![w] = NoTx]
    /\ UNCHANGED messages

\* The mapper or a statement throws, or PostgreSQL breaks a deadlock: parked.
Rollback(w) ==
    /\ tx[w] # NoTx
    /\ tx' = [tx EXCEPT ![w] = NoTx]
    /\ UNCHANGED <<rows, messages>>

Next ==
    \E w \in Workers :
        \/ \E dto \in ProductDtos : IngestProduct(w, dto)
        \/ \E dto \in StockDtos : IngestStock(w, dto)
        \/ FindRow(w)
        \/ WriteRow(w)
        \/ Commit(w)
        \/ Rollback(w)

Spec == Init /\ [][Next]_vars

-----------------------------------------------------------------------------
(* Safety *)

\* A row has the columns of its table and no undefined or null in them.  One
\* that is locked is locked by one call, with the content it will have.
TypeOK ==
    /\ DOMAIN rows = Rows
    /\ \A r \in Rows : rows[r] = None \/ rows[r] \in Contents(r)
    /\ \A w \in Workers :
          /\ tx[w].kind \in {None, "product", "stock"}
          /\ DOMAIN tx[w].written \subseteq Rows
          /\ \A r \in DOMAIN tx[w].written :
                tx[w].written[r] \in Contents(r) /\ ~Locked(r, w)
    /\ messages \in 0 .. MaxMessages

\* w waits for a row that o has locked.
WaitsFor(w, o) ==
    /\ Sending(w)
    /\ ~LeavesAlone(w)
    /\ w # o
    /\ Statement(w).row \in DOMAIN tx[o].written

\* A set of calls each of which waits for another of them.
Deadlock(calls) ==
    /\ calls # {}
    /\ \A a \in calls : \E b \in calls : WaitsFor(a, b)

(***************************************************************************)
(* Product messages never deadlock with one another, whatever products,    *)
(* seasons and orders of variants they have: a deadlock's victim is parked *)
(* for good, and it always takes a stock message, which creates variants   *)
(* in an order of its own without holding the product.                     *)
(***************************************************************************)
ProductsNeverDeadlock ==
    \A calls \in SUBSET Workers :
        Deadlock(calls) => \E w \in calls : tx[w].kind = "stock"

(***************************************************************************)
(* A product that is there keeps its name until a product message commits  *)
(* another: a stock message that races it never puts the placeholder's     *)
(* name over the one BC gave.                                              *)
(***************************************************************************)
NeverAPlaceholderAgain ==
    [][\A s \in Skus :
          LET r == ProductRow(s) IN
          rows[r] # None =>
              /\ rows'[r] # None
              /\ \/ rows'[r].name = rows[r].name
                 \/ /\ \E w \in Workers : tx[w].kind = "product" /\ tx'[w] = NoTx
                    /\ \E d \in ProductDtos : d.sku = s /\ d.name = rows'[r].name]_vars

-----------------------------------------------------------------------------
(* Refinement *)

Commands == {ApplyCatalogue(d) : d \in ProductDtos} \cup {ApplyStock(d) : d \in StockDtos}

Ledger == INSTANCE CatalogueLedger

(***************************************************************************)
(* Messages on the same seasons, products and variants take effect one     *)
(* after the other and wholly: no product mixes the fields of one message  *)
(* with the variants of another, no update is computed from a row that is  *)
(* rolled back, and a message that throws half-way leaves nothing behind.  *)
(***************************************************************************)
CatalogueAsInLedger == Ledger!Spec
=============================================================================
