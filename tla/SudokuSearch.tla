---------------------------- MODULE SudokuSearch ----------------------------
(***************************************************************************)
(* The backtracking solvers of Lab1: solve_sudoku_basic takes the blank    *)
(* cells in order, solve_sudoku_min_arity next the one with the fewest     *)
(* values left, solve_sudoku_min_arity_cache the same with these values    *)
(* kept in tables, which every guess updates and every retreat restores.   *)
(*                                                                         *)
(* A call is a frame: the guess of its loop and, for the cache, the        *)
(* neighbours the guess was struck out for (modified).  which_space is the *)
(* number of the frame, from 1.                                            *)
(***************************************************************************)
EXTENDS SudokuBoard, SequencesExt

VARIABLES
  solver,    \* the function called: "basic", "min_arity" or "cache"
  puzzle,    \* the board input() read
  board,
  spaces,    \* the blank cells, those of the calls in progress first
  occupied,  \* the cache: values struck out for a cell
  arity,     \* the cache: the number of values left
  frames,    \* the calls that have not returned
  at,        \* "call" entered, "loop" before the next guess, "back" a call returned false
  result     \* what the outermost call returned

tables == <<occupied, arity>>
vars == <<solver, puzzle, board, spaces, tables, frames, at, result>>

Solvers == {"basic", "min_arity", "cache"}

Around(b, c) == {b[n] : n \in Neighbors(c)} \ {0}

(* find_spaces() *)
BlankCells(p) == Ascending(Blanks(p))

(* input() and init_cache(). *)
Init(p, s) ==
  /\ solver = s
  /\ puzzle = p /\ board = p
  /\ spaces = BlankCells(p)
  /\ occupied = [c \in Cells |-> Around(p, c) \cup ({p[c]} \ {0})]
  /\ arity = [c \in Cells |-> NUM - Cardinality(Around(p, c))]
  /\ frames = <<>>
  /\ at = "call" /\ result = FALSE

-----------------------------------------------------------------------------
Top  == frames[Len(frames)]
Cell == spaces[Len(frames)]

(* available() *)
Available(guess, c) ==
  IF solver = "cache" THEN guess \notin occupied[c] ELSE guess \notin Around(board, c)

Arity(c) == IF solver = "cache" THEN arity[c] ELSE NUM - Cardinality(Around(board, c))

(* find_min_arity: swaps the chosen cell to the place of this call. *)
SwappedFrom(place) ==
  LET found == place - 1 + Smallest([i \in 1..(Len(spaces) - place + 1) |-> Arity(spaces[place - 1 + i])])
  IN  [spaces EXCEPT ![place] = spaces[found], ![found] = spaces[place]]

Found ==
  /\ at = "call" /\ Len(frames) >= Len(spaces)
  /\ result' = TRUE
  /\ at' = "done"
  /\ UNCHANGED <<solver, puzzle, board, spaces, tables, frames>>

Enter ==
  /\ at = "call" /\ Len(frames) < Len(spaces)
  /\ frames' = Append(frames, [guess |-> 0, modified |-> {}])
  /\ spaces' = IF solver = "basic" THEN spaces ELSE SwappedFrom(Len(frames) + 1)
  /\ at' = "loop"
  /\ UNCHANGED <<solver, puzzle, board, tables, result>>

FewerGuesses == {g \in Values : g > Top.guess /\ g < NUM /\ Available(g, Cell)}
Guesses == {g \in Values : g > Top.guess /\ Available(g, Cell)}

(* The neighbours a guess is struck out for, which were free of it before. *)
AllStruck(guess) == Neighbors(Cell)
Struck(guess) == {n \in Neighbors(Cell) : guess \notin occupied[n]}

Hold ==
  /\ at = "loop" /\ Guesses # {}
  /\ LET guess == Min(Guesses)
         m     == IF solver = "cache" THEN Struck(guess) ELSE {}
     IN  /\ board' = [board EXCEPT ![Cell] = guess]
         /\ frames' = [frames EXCEPT ![Len(frames)] = [guess |-> guess, modified |-> m]]
         /\ IF solver = "cache"
            THEN /\ occupied' = [c \in Cells |->
                      IF c \in m \cup {Cell} THEN occupied[c] \cup {guess} ELSE occupied[c]]
                 /\ arity' = [c \in Cells |-> IF c \in m THEN arity[c] - 1 ELSE arity[c]]
            ELSE UNCHANGED tables
  /\ at' = "call"
  /\ UNCHANGED <<solver, puzzle, spaces, result>>

NotCleared == board
Cleared == [board EXCEPT ![Cell] = 0]

Unhold ==
  /\ at = "back"
  /\ board' = Cleared
  /\ IF solver = "cache"
     THEN /\ occupied' = [c \in Cells |->
               IF c \in Top.modified \cup {Cell} THEN occupied[c] \ {Top.guess} ELSE occupied[c]]
          /\ arity' = [c \in Cells |-> IF c \in Top.modified THEN arity[c] + 1 ELSE arity[c]]
     ELSE UNCHANGED tables
  /\ at' = "loop"
  /\ UNCHANGED <<solver, puzzle, spaces, frames, result>>

Fail ==
  /\ at = "loop" /\ Guesses = {}
  /\ frames' = Front(frames)
  /\ at' = IF frames' = <<>> THEN "done" ELSE "back"
  /\ UNCHANGED <<solver, puzzle, board, spaces, tables, result>>

Next == Found \/ Enter \/ Hold \/ Unhold \/ Fail

-----------------------------------------------------------------------------
(* Properties. *)

(* Every variable keeps its type. *)
TypeOK ==
  /\ solver \in Solvers
  /\ puzzle \in Board /\ board \in Board
  /\ spaces \in Seq(Cells)
  /\ occupied \in [Cells -> SUBSET Values]
  /\ arity \in [Cells -> 0..NUM]
  /\ frames \in Seq([guess : 0..NUM, modified : SUBSET Cells])
  /\ at \in {"call", "loop", "back", "done"} /\ result \in BOOLEAN

(* The calls whose cell holds a guess. *)
Held == IF at = "loop" THEN Len(frames) - 1 ELSE Len(frames)

(* spaces stays an arrangement of the blank cells; those of the calls in   *)
(* progress hold a guess no neighbour has, the others are blank again.     *)
SpacesSplit ==
  /\ ToSet(spaces) = Blanks(puzzle) /\ Len(spaces) = Cardinality(Blanks(puzzle))
  /\ ToSet(SubSeq(spaces, Held + 1, Len(spaces))) = Blanks(board)
  /\ \A i \in 1..Held : board[spaces[i]] \notin Around(board, spaces[i])

(* For every blank cell the tables say what its neighbours hold, after any *)
(* number of guesses and retreats.                                         *)
CacheExact ==
  solver = "cache" =>
    \A c \in Blanks(board) :
      occupied[c] = Around(board, c) /\ arity[c] = NUM - Cardinality(Around(board, c))
=============================================================================
