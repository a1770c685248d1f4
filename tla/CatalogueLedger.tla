-------------------------- MODULE CatalogueLedger --------------------------
(***************************************************************************)
(* What the catalogue promises, with nothing said of transactions and      *)
(* locks: every message takes effect at one instant, wholly or not at all, *)
(* each field it carries replacing what the rows held at that instant.     *)
(***************************************************************************)
EXTENDS CatalogueRows, Integers

CONSTANTS
    Rows,    \* every row there may be
    Commands \* sequences of statements

VARIABLE rows

Init == rows = [r \in Rows |-> None]

After(contents, s) == [contents EXCEPT ![s.row] = AfterStatement(@, s)]

AfterCommand(contents, command) ==
    LET after[n \in 0 .. Len(command)] ==
            IF n = 0 THEN contents ELSE After(after[n - 1], command[n])
    IN  after[Len(command)]

Next ==
    \E command \in Commands :
        /\ \A i \in DOMAIN command : ~Throws(command[i])
        /\ rows' = AfterCommand(rows, command)

Spec == Init /\ [][Next]_rows
=============================================================================
