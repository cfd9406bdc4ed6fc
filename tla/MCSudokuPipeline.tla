-------------------------- MODULE MCSudokuPipeline --------------------------
(* Model checking of SudokuPipeline: as many consumers as slots, and one     *)
(* puzzle more, so that the ring and the turns wrap around.                  *)
EXTENDS SudokuPipeline

CONSTANTS c1, c2, c3, p1, p2, p3, p4

MCTwo    == {c1, c2}
MCThree  == {c1, c2, c3}
MCPuzzle == {p1, p2, p3, p4}

\* Two files, one with a short line, and a name of no file between them.
MCInput == << <<p1>>, Missing, <<p2, Short, p3, p4>> >>

MCSmallInput == << <<p1>> >>
=============================================================================
