-------------------------- MODULE MCTrayControl --------------------------
(* The files TrayControl starts with, and which iPad answers where.        *)
EXTENDS TrayControl

Typed(a) == [addr |-> a, id |-> None, hello |-> FALSE]
Nearby(a, i) == [addr |-> a, id |-> i, hello |-> FALSE]
Taught(a, i) == [addr |-> a, id |-> i, hello |-> TRUE]

\* One typed-in device; one whose id was learned, and whose iPad is there or
\* elsewhere; two, with a leftover in front.
MCStarts ==
    { [file |-> [devs |-> <<Typed("a")>>, link |-> None], at |-> "a", id |-> "x", budget |-> 2],
      [file |-> [devs |-> <<Taught("a", "x")>>, link |-> "x"], at |-> "a", id |-> "x", budget |-> 2],
      [file |-> [devs |-> <<Taught("a", "x")>>, link |-> "x"], at |-> "b", id |-> "x", budget |-> 2],
      [file |-> [devs |-> <<Nearby(Placeholder, "x"), Typed("a"), Nearby("b", "y")>>, link |-> None],
       at |-> "a", id |-> "y", budget |-> 2] }
=============================================================================
