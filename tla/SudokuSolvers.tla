---------------------------- MODULE SudokuSolvers ----------------------------
(***************************************************************************)
(* The solvers of Lab1 on one puzzle: each of the four functions sudoku.h  *)
(* declares is called once.  The pipeline calls the dancing links, a       *)
(* consumer at a time on a board of its own.                               *)
(***************************************************************************)
EXTENDS SudokuBoard, Sequences

CONSTANTS
  Puzzles,     \* boards the dancing links are called with
  Consistent   \* boards the other solvers are called with: no neighbours agree

ASSUME PuzzlesAssumption == Puzzles \subseteq Board
ASSUME ConsistentAssumption ==
  /\ Consistent \subseteq Board
  /\ \A p \in Consistent : \A c \in Cells \ Blanks(p) : \A n \in Neighbors(c) : p[n] # p[c]

VARIABLES solver, puzzle, board, frames, at, result, mesh, stack_, spaces, occupied, arity

links  == <<mesh, stack_>>
search == <<spaces, occupied, arity>>
vars   == <<solver, puzzle, board, frames, at, result, links, search>>

Links  == INSTANCE DancingLinks
Search == INSTANCE SudokuSearch

Init ==
  \/ /\ solver = "dancing_links"
     /\ \E p \in Puzzles : Links!Init(p)
     /\ spaces = <<>> /\ occupied = <<>> /\ arity = <<>>
  \/ /\ \E p \in Consistent, s \in Search!Solvers : Search!Init(p, s)
     /\ mesh = <<>> /\ stack_ = <<>>

Next ==
  \/ solver = "dancing_links" /\ Links!Next /\ UNCHANGED <<solver, search>>
  \/ solver # "dancing_links" /\ Search!Next /\ UNCHANGED links

Spec == Init /\ [][Next]_vars

-----------------------------------------------------------------------------
(* Properties. *)

(* Every variable of the solver called keeps its type. *)
TypeOK == IF solver = "dancing_links" THEN Links!TypeOK ELSE Search!TypeOK

(* DancingLinks: the mesh is exact at every step. *)
MeshExact == solver = "dancing_links" => Links!MeshExact

(* SudokuSearch: the cells and the tables are. *)
SpacesSplit == solver # "dancing_links" => Search!SpacesSplit
CacheExact  == solver # "dancing_links" => Search!CacheExact

(* A solver that returns true has completed the puzzle; one that returns   *)
(* false was given a puzzle nothing completes, and left the board alone.   *)
VerdictRight ==
  at = "done" => IF result THEN Completes(board, puzzle)
                 ELSE board = puzzle /\ ~Solvable(puzzle)
=============================================================================
