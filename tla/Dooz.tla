--------------------------------- MODULE Dooz ---------------------------------
(***************************************************************************)
(* The boards of dooz: four in a row with gravity, four in a row on any    *)
(* free cell (both on 7 x 7), and classic three in a row (3 x 3).  The     *)
(* three Go files differ only in the board's side, the length of a line    *)
(* and where a mark lands.  Cells are <<y, x>>, 0 is an empty cell.        *)
(***************************************************************************)
EXTENDS Naturals, Integers, FiniteSets

Cells(side)  == (0..side - 1) \X (0..side - 1)
Boards(side) == [Cells(side) -> 0..2]
EmptyBoard(side) == [cell \in Cells(side) |-> 0]

step(cell, d, n) == <<cell[1] + n * d[1], cell[2] + n * d[2]>>
holds(board, cell, mark) == cell \in DOMAIN board /\ board[cell] = mark

Directions == {<<0, 1>>, <<1, 0>>, <<1, 1>>, <<1, -1>>}
back(d)    == <<-d[1], -d[2]>>

\* How many marks follow one another from cell in direction d.
run(board, side, cell, d, mark) ==
    Cardinality({n \in 1..side : \A m \in 1..n : holds(board, step(cell, d, m), mark)})

\* Mutant: only the cells ahead of the new mark are counted.
CheckWinAhead(board, side, line, cell, mark) ==
    \E d \in Directions : 1 + run(board, side, cell, d, mark) >= line

CheckWin(board, side, line, cell, mark) ==
    \E d \in Directions :
        1 + run(board, side, cell, d, mark) + run(board, side, cell, back(d), mark) >= line

IsDraw(board) == \A cell \in DOMAIN board : board[cell] # 0

\* Where a mark lands: on the cell itself, or in the last free cell of its row.
landing(board, side, gravity, cell) ==
    IF ~gravity THEN {c \in {cell} : board[c] = 0}
    ELSE {<<cell[1], x>> : x \in {x \in 0..side - 1 :
             board[<<cell[1], x>>] = 0 /\ \A z \in x + 1..side - 1 : board[<<cell[1], z>>] # 0}}

\* The definition CheckWin is measured against: a line anywhere on the board.
HasLine(board, line, mark) ==
    \E cell \in DOMAIN board, d \in Directions :
        \A n \in 0..line - 1 : holds(board, step(cell, d, n), mark)

marks(board, mark) == Cardinality({cell \in DOMAIN board : board[cell] = mark})
=============================================================================
