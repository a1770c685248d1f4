---------------------------- MODULE MCCatalogue ----------------------------
(***************************************************************************)
(* A small instance of Catalogue for TLC: one product that every message   *)
(* is about and another that shares its season.                            *)
(***************************************************************************)
EXTENDS Catalogue

CONSTANTS k1, k2, c1, c2, c3, n1, b1, red, day

MCValues == {k1, k2, n1, b1, red, day, Epoch, "name"}

Variant(code, color) == [variantCode |-> code, color |-> color]
Season(starting, ending) == [name |-> n1, startingDate |-> starting, endingDate |-> ending]
Product(sku, brand, price, season, variants) ==
    [sku |-> sku, name |-> "name", brand |-> brand, price |-> price,
     season |-> season, variants |-> variants]

MCProductDtos == {
    Product(k1, b1, day, Season(day, Undefined), <<Variant(c1, red)>>),
    Product(k1, Undefined, Undefined, Undefined, <<Variant(c2, red), Variant(c3, Undefined)>>),
    Product(k1, Null, Undefined, Null, <<Variant(c3, red), Variant(c2, Null)>>),
    Product(k2, Undefined, Undefined, Season(Undefined, Null), <<Variant(c1, Null)>>),
    \* parked
    Product(k2, b1, Null, Season(Null, day), <<Variant(c1, red)>>) }

MCStockDtos == {
    [sku |-> k1, variants |-> <<c3, c2>>],
    [sku |-> k2, variants |-> <<c1>>] }
=============================================================================
