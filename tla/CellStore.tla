----------------------------- MODULE CellStore -----------------------------
(***************************************************************************)
(* What the search relies on when it reads and writes one table of the     *)
(* database: a cell per point, and puts that each fill a box of cells with *)
(* one result, some of the box at a time, and nothing outside of it.       *)
(***************************************************************************)
CONSTANTS
    Threads,
    Points,
    Results,
    Box(_, _),      \* the points a put of result r for point pt fills
    Unknown         \* get's answer for a cell that no put has filled

VARIABLES
    cells,          \* [Points -> Results \cup {Unknown}]
    owed            \* [Threads -> what the thread's put has yet to fill, with what]

NoPut == [left |-> {}, result |-> Unknown]

Init == cells = [pt \in Points |-> Unknown] /\ owed = [t \in Threads |-> NoPut]

Begin(t) ==
    /\ owed[t] = NoPut
    /\ \E r \in Results :
          /\ owed'[t].result = r
          /\ \E pt \in Points : LET box == Box(pt, r) IN
                /\ box # {}
                /\ owed' = [owed EXCEPT ![t] = [left |-> box, result |-> r]]
    /\ UNCHANGED cells

\* Some of the cells owed are filled; the put ends with the last of them.
Fill(t) ==
    LET now == owed[t].left \ owed'[t].left
    IN  /\ now # {}
        /\ owed'[t].left \subseteq owed[t].left
        /\ owed' = [owed EXCEPT ![t] =
                      IF owed'[t].left = {} THEN NoPut
                      ELSE [left |-> owed[t].left \ now, result |-> owed[t].result]]
        /\ cells' = [pt \in Points |-> IF pt \in now THEN owed[t].result ELSE cells[pt]]

Next == \E t \in Threads : Begin(t) \/ Fill(t)

Spec == Init /\ [][Next]_<<cells, owed>>
=============================================================================
