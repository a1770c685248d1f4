---------------------------- MODULE StockFormula ----------------------------
(***************************************************************************)
(* The two pure decisions of a recalculation: the number e-com may sell    *)
(* (StockCalculateService.calculate) and whether a number may be handed to *)
(* e-com (StockRecalculateService.shouldPublish).                          *)
(***************************************************************************)
EXTENDS Integers

CONSTANT None  \* no row in the table, or a NULL column

\* Defect: the clamp forgotten.
QuantityUnclamped(total, buffer, reserved) == total - buffer - reserved

(***************************************************************************)
(* Sum of the region's selected shops, less the buffer, less what sits in  *)
(* new orders, clamped at zero.                                            *)
(***************************************************************************)
Quantity(total, buffer, reserved) ==
    IF total >= buffer + reserved THEN total - buffer - reserved ELSE 0

\* Defects: the raise rule applied to confirmed answers, every stale number
\* withheld, and a missing baseline taken for a safe one.
ShouldPublishNeverRaise(quantity, stale, published) ==
    published = None \/ quantity <= published
ShouldPublishConfirmedOnly(quantity, stale, published) == ~stale
ShouldPublishUnheard(quantity, stale, published) ==
    ~stale \/ published = None \/ quantity <= published

(***************************************************************************)
(* A number built on a confirmed answer is always published.  One built on *)
(* carried-over reservations is published only when there is a baseline    *)
(* (the number e-com was last given) and it does not raise that baseline.  *)
(***************************************************************************)
ShouldPublish(quantity, stale, published) ==
    \/ ~stale
    \/ /\ published # None
       /\ quantity <= published
=============================================================================
