--------------------------- MODULE BcStockMapping ---------------------------
(***************************************************************************)
(* What a stock message of Business Central says, whichever of its shapes  *)
(* it arrives in: toStockCommand and buildLine of BcEventsService, which   *)
(* flatten it into one line per variant and warehouse or refuse it.        *)
(*                                                                         *)
(* A message is a record                                                   *)
(*   [warehouse, variants : Seq([variant, quantity, delta, nested])]       *)
(* with nested : Seq([shop, quantity, delta]); a field that is missing or  *)
(* null is Absent.  Class validation has already run.                      *)
(***************************************************************************)
EXTENDS Integers, SequencesExt

CONSTANT Absent

Present(value) == value # Absent

\* Defect: a missing number taken for an absolute zero.
BuildLineZeroed(dto, variant, shop, reported) ==
    [variant |-> variant, shop |-> shop,
     quantity |-> IF Present(reported.quantity) \/ Present(reported.delta)
                  THEN reported.quantity ELSE 0,
     delta |-> reported.delta]

BuildLine(dto, variant, shop, reported) ==
    [variant |-> variant, shop |-> shop,
     quantity |-> reported.quantity, delta |-> reported.delta]

\* A line carries exactly one number.
LineAccepted(line) == Present(line.quantity) # Present(line.delta)

\* Nested warehouses come first; without them the message names the warehouse.
LinesOf(dto, entry) ==
    IF entry.nested # <<>>
    THEN [i \in DOMAIN entry.nested |->
             BuildLine(dto, entry.variant, entry.nested[i].shop, entry.nested[i])]
    ELSE <<BuildLine(dto, entry.variant, dto.warehouse, entry)>>

(***************************************************************************)
(* A variant must not mix the two shapes, must have a warehouse, and every *)
(* line of it must be accepted; otherwise the whole message is refused.    *)
(***************************************************************************)
EntryAccepted(dto, entry) ==
    /\ entry.nested # <<>> => ~Present(entry.quantity) /\ ~Present(entry.delta)
    /\ entry.nested = <<>> => Present(dto.warehouse)
    /\ \A line \in ToSet(LinesOf(dto, entry)) : LineAccepted(line)

Accepted(dto) == \A entry \in ToSet(dto.variants) : EntryAccepted(dto, entry)

ToStockCommand(dto) ==
    FlattenSeq([i \in DOMAIN dto.variants |-> LinesOf(dto, dto.variants[i])])
=============================================================================
