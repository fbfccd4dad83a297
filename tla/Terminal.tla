------------------------------ MODULE Terminal -------------------------------
(* What the text screen promises: a grid of cells, and a position that      *)
(* prints a character and moves on.  A line feed at the bottom moves every  *)
(* row up by one; what the new bottom row holds is left open.               *)
EXTENDS Integers

CONSTANTS Width, Height, Char

VARIABLES
    grid,   \* grid[row][column]
    col, row

Rows == 0 .. Height - 1
Cols == 0 .. Width - 1

Row == [Cols -> Char]

(* A line feed from the bottom row, else to the next row. *)
LineFeed(g) ==
    /\ col' = 0
    /\ IF row < Height - 1
       THEN row' = row + 1 /\ grid' = g
       ELSE /\ row' = row
            /\ \E bottom \in Row :
                grid' = [r \in Rows |-> IF r = row THEN bottom ELSE g[r + 1]]

Put(c) ==
    LET g == [grid EXCEPT ![row][col] = c]
    IN  IF col < Width - 1
        THEN col' = col + 1 /\ row' = row /\ grid' = g
        ELSE LineFeed(g)

Move(w, h) == col' = w /\ row' = h /\ grid' = grid

(* Clearing blanks every row but the bottom one, which scrolls in last.  *)
Clear(blank) ==
    /\ col' = 0 /\ row' = 0
    /\ \E bottom \in Row :
        grid' = [r \in Rows |-> IF r = Height - 1 THEN bottom ELSE [c \in Cols |-> blank]]

Init == grid \in [Rows -> Row] /\ col = 0 /\ row = 0

Next ==
    \/ LineFeed(grid)
    \/ \E c \in Char : Put(c)
    \/ \E w \in Cols, h \in Rows : Move(w, h)
    \/ \E blank \in Char : Clear(blank)

Spec == Init /\ [][Next]_<<grid, col, row>>
=============================================================================
