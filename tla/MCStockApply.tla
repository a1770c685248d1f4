---------------------------- MODULE MCStockApply ----------------------------
(***************************************************************************)
(* A small instance of StockApply for TLC: one variant, a shop of a real   *)
(* region, one nobody has mapped, and a message of every shape.            *)
(***************************************************************************)
EXTENDS StockApply

CONSTANTS v1, s1, s2, r1

MCInitialMap == [s \in Shops |-> IF s = s1 THEN r1 ELSE None]
MCSafetyBuffer == [r \in AllRegions |-> 0]

Bare(q, d) == [variant |-> v1, quantity |-> q, delta |-> d, nested |-> <<>>]
Nested(reports) ==
    [variant |-> v1, quantity |-> Absent, delta |-> Absent, nested |-> reports]
At1(q, d) == [shop |-> s1, quantity |-> q, delta |-> d]
At2(q, d) == [shop |-> s2, quantity |-> q, delta |-> d]
Message(warehouse, entry) == [warehouse |-> warehouse, variants |-> <<entry>>]

MCDtos == {
    Message(s1, Bare(2, Absent)),
    Message(s2, Bare(Absent, 1)),
    Message(Absent, Nested(<<At1(Absent, -3), At2(1, Absent)>>)),
    Message(s2, Nested(<<At2(Absent, 2), At1(Absent, 1)>>)),
    Message(Absent, Nested(<<At1(-1, Absent)>>)),
    \* refused: a bare number beside nested ones, no number, two numbers, no warehouse
    Message(s1, [Nested(<<At1(1, Absent)>>) EXCEPT !.quantity = 4]),
    Message(s1, Bare(Absent, Absent)),
    Message(Absent, Nested(<<At1(3, 1)>>)),
    Message(Absent, Bare(1, Absent)) }
=============================================================================
