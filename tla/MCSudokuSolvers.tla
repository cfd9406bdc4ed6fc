--------------------------- MODULE MCSudokuSolvers ---------------------------
(* Model checking of SudokuSolvers on boards of four by four.               *)
EXTENDS SudokuSolvers

B(s) == [c \in Cells |-> s[c + 1]]

\* Without a solution, with one that takes wrong guesses first, with two, with
\* three, and with no blank at all.
MCConsistent == {B(s) : s \in {
  <<1,0,4,0,  0,2,3,0,  3,4,2,0,  2,0,0,0>>,
  <<0,0,3,4,  0,3,1,2,  0,0,0,1,  0,1,2,3>>,
  <<0,0,2,4,  0,4,3,1,  0,0,0,2,  0,2,4,3>>,
  <<0,0,0,1,  0,1,4,3,  0,0,1,0,  1,0,3,2>>,
  <<0,0,0,0,  0,0,4,0,  1,4,3,2,  3,2,1,4>>,
  <<1,2,0,0,  3,4,2,1,  0,0,1,0,  0,1,0,0>>,
  <<1,2,3,4,  3,4,1,2,  2,1,4,3,  4,3,2,1>> }}

\* Givens that contradict each other, with blanks and without.
MCPuzzles == MCConsistent \cup {B(s) : s \in {
  <<1,1,0,0,  0,0,1,0,  0,0,0,1,  0,0,2,3>>,
  <<1,2,3,4,  3,4,1,2,  2,1,4,3,  4,3,1,2>> }}
=============================================================================
