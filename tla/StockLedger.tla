---------------------------- MODULE StockLedger ----------------------------
(***************************************************************************)
(* What the warehouse stock promises, with nothing said of transactions,   *)
(* statements and locks: every message takes effect at one instant, wholly *)
(* or not at all, on the stock as it is at that instant.                   *)
(***************************************************************************)
EXTENDS Integers, Sequences

CONSTANTS
    Rows,     \* variant and warehouse pairs
    Commands, \* sequences of lines [row, set : BOOLEAN, number]
    NoRow     \* the pair has never been reported

VARIABLE quantity

Init == quantity = [r \in Rows |-> NoRow]

Clamped(n) == IF n < 0 THEN 0 ELSE n

\* The quantity a row holds after one line of a message.
AfterLine(quantities, line) ==
    LET old == IF quantities[line.row] = NoRow THEN 0 ELSE quantities[line.row] IN
    [quantities EXCEPT ![line.row] =
        Clamped(IF line.set THEN line.number ELSE old + line.number)]

AfterCommand(quantities, command) ==
    LET after[n \in 0 .. Len(command)] ==
            IF n = 0 THEN quantities ELSE AfterLine(after[n - 1], command[n])
    IN  after[Len(command)]

Next == \E command \in Commands : quantity' = AfterCommand(quantity, command)

Spec == Init /\ [][Next]_quantity
=============================================================================
