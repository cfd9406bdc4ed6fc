---------------------------- MODULE DancingLinks ----------------------------
(***************************************************************************)
(* solve_sudoku_dancing_links of Lab1 (sudoku_dancing_links.cc): sudoku as *)
(* an exact cover.  A column stands for a constraint the givens leave open *)
(* (a blank cell; a value missing in a row, a column or a box), a row of   *)
(* four nodes for a value in a blank cell.                                 *)
(*                                                                         *)
(* mesh is the array nodes_, a function per field of Node, root_ node 0    *)
(* and the columns behind it in the order of append_column.  A call of     *)
(* solve() is a frame: its col, and where its loop over the rows stands.   *)
(* Cover and uncover keep the links of what they take out, and put it back *)
(* in the opposite order; everything rests on that.                        *)
(***************************************************************************)
EXTENDS SudokuBoard, SequencesExt

VARIABLES
  puzzle,   \* the board solve was called with
  board,    \* inout_
  mesh,     \* nodes_
  stack_,   \* the rows taken
  frames,   \* the calls of solve() that have not returned
  at,       \* "call" solve() entered, "loop" its loop test, "back" a call returned false
  result    \* what the outermost solve() returned

vars == <<puzzle, board, mesh, stack_, frames, at, result>>

-----------------------------------------------------------------------------
(* The mesh of a puzzle. *)

kRow == 100
kCol == 200
kBox == 300

(* The columns of value v in cell c: new_row is called in this order. *)
Constraints(c, v) ==
  <<c, kRow + Row(c) * 10 + v, kCol + Col(c) * 10 + v, kBox + Box(c) * 10 + v>>

(* rows, cols and boxes: constraints a given value satisfies. *)
Placed(p) ==
  UNION {ToSet(Constraints(c, p[c])) : c \in Cells \ Blanks(p)}

(* What may be left open, in the order of append_column: the cells, then of *)
(* every number and value the row, the column and the box.                  *)
Names ==
  [k \in 1..(4 * NUM * NUM) |->
     LET n == (k - NUM * NUM - 1) \div 3
     IN  IF k <= NUM * NUM THEN k - 1
         ELSE <<kRow, kCol, kBox>>[((k - NUM * NUM - 1) % 3) + 1] + (n \div NUM) * 10 + (n % NUM) + 1]

Kept(s, I) == LET order == Ascending(I) IN [i \in DOMAIN order |-> s[order[i]]]

ColumnNames(p) == Kept(Names, {k \in DOMAIN Names : Names[k] \notin Placed(p)})

(* The rows: every value of every blank cell no given rules out. *)
Guesses == [k \in 1..(NUM * NUM * NUM) |-> Constraints((k - 1) \div NUM, ((k - 1) % NUM) + 1)]

Rows(p) == Kept(Guesses, {k \in DOMAIN Guesses : ToSet(Guesses[k]) \cap Placed(p) = {}})

(* Neighbours in a ring whose nodes were added in the order of their numbers. *)
After(S, n)  == LET later == {m \in S : m > n} IN IF later = {} THEN Min(S) ELSE Min(later)
Before(S, n) == LET earlier == {m \in S : m < n} IN IF earlier = {} THEN Max(S) ELSE Max(earlier)

(* The constructor: put_left adds a column to the ring of root_ and a node to *)
(* its row, put_up a node to its column.                                      *)
Dance(p) ==
  LET columns == ColumnNames(p)
      rows    == Rows(p)
      k       == Len(columns)
      Nodes   == 0..(k + 4 * Len(rows))
      place(n)  == (n - k - 1) % 4
      name    == [n \in Nodes |-> IF n = 0 THEN 0 ELSE IF n <= k THEN columns[n]
                                 ELSE rows[((n - k - 1) \div 4) + 1][place(n) + 1]]
      col     == [n \in Nodes |-> IF n <= k THEN n ELSE CHOOSE c \in 1..k : columns[c] = name[n]]
      across(n) == IF n <= k THEN 0..k ELSE (n - place(n))..(n - place(n) + 3)
      along(n)  == {m \in Nodes : col[m] = col[n]}
  IN  [name  |-> name,
       col   |-> col,
       right |-> [n \in Nodes |-> After(across(n), n)],
       left  |-> [n \in Nodes |-> Before(across(n), n)],
       down  |-> [n \in Nodes |-> After(along(n), n)],
       up    |-> [n \in Nodes |-> Before(along(n), n)],
       size  |-> [c \in 0..k |-> Cardinality(along(c)) - 1]]

Init(p) ==
  /\ puzzle = p /\ board = p
  /\ mesh = Dance(p)
  /\ stack_ = <<>> /\ frames = <<>>
  /\ at = "call" /\ result = FALSE

-----------------------------------------------------------------------------
(* Links. *)

(* The nodes a loop from c along a link visits before it is at c again. *)
Chain(link, c) ==
  LET node[i \in 0..Cardinality(DOMAIN link)] == IF i = 0 THEN c ELSE link[node[i - 1]]
      end == CHOOSE i \in DOMAIN node \ {0} : node[i] = c /\ \A j \in 1..(i - 1) : node[j] # c
  IN  [i \in 1..(end - 1) |-> node[i]]

Applied(op(_, _), m, s) ==
  LET after[i \in 0..Len(s)] == IF i = 0 THEN m ELSE op(after[i - 1], s[i])
  IN  after[Len(s)]

Unlink(m, j) ==
  [m EXCEPT !.up[m.down[j]] = m.up[j], !.down[m.up[j]] = m.down[j], !.size[m.col[j]] = @ - 1]

Relink(m, j) ==
  [m EXCEPT !.up[m.down[j]] = j, !.down[m.up[j]] = j, !.size[m.col[j]] = @ + 1]

(* The loops over the rest of a row. *)
RowOut(m, i) == Applied(Unlink, m, Chain(m.right, i))
RowIn(m, i)  == Applied(Relink, m, Chain(m.left, i))

Cover(m, c) ==
  Applied(RowOut,
          [m EXCEPT !.left[m.right[c]] = m.left[c], !.right[m.left[c]] = m.right[c]],
          Chain(m.down, c))

Uncover(m, c) ==
  [Applied(RowIn, m, Chain(m.up, c)) EXCEPT !.left[m.right[c]] = c, !.right[m.left[c]] = c]

(* get_min_column *)
MinColumn(m) ==
  LET columns == Chain(m.right, 0)
  IN  columns[Smallest([i \in DOMAIN columns |-> m.size[columns[i]]])]

Columns(m, nodes) == [i \in DOMAIN nodes |-> m.col[nodes[i]]]

-----------------------------------------------------------------------------
(* solve() *)

Top == frames[Len(frames)]

WithRow(row) == [frames EXCEPT ![Len(frames)].row = row]

(* The cell and the value a row stands for. *)
RowNodes(n) == {n} \cup ToSet(Chain(mesh.right, n))
CellOf(n)   == CHOOSE c \in Cells : \E j \in RowNodes(n) : mesh.name[j] = c
ValueOf(n)  == CHOOSE v \in Values : \E j \in RowNodes(n) : mesh.name[j] >= kRow /\ mesh.name[j] % 10 = v

(* No column is left: the values of the rows taken are the solution. *)
Found ==
  /\ at = "call" /\ mesh.left[0] = 0
  /\ board' = [c \in Cells |->
       IF \E n \in ToSet(stack_) : CellOf(n) = c
       THEN ValueOf(CHOOSE n \in ToSet(stack_) : CellOf(n) = c) ELSE board[c]]
  /\ result' = TRUE
  /\ at' = "done"
  /\ UNCHANGED <<puzzle, mesh, stack_, frames>>

ChooseColumn ==
  /\ at = "call" /\ mesh.left[0] # 0
  /\ LET c == MinColumn(mesh)
     IN  /\ mesh' = Cover(mesh, c)
         /\ frames' = Append(frames, [col |-> c, row |-> mesh'.down[c]])
  /\ at' = "loop"
  /\ UNCHANGED <<puzzle, board, stack_, result>>

Take ==
  /\ at = "loop" /\ Top.row # Top.col
  /\ stack_' = Append(stack_, Top.row)
  /\ mesh' = Applied(Cover, mesh, Columns(mesh, Chain(mesh.right, Top.row)))
  /\ at' = "call"
  /\ UNCHANGED <<puzzle, board, frames, result>>

UndoneForward(m, row) == Applied(Uncover, m, Columns(m, Chain(m.right, row)))
Undone(m, row) == Applied(Uncover, m, Columns(m, Chain(m.left, row)))

Undo ==
  /\ at = "back"
  /\ stack_' = Front(stack_)
  /\ mesh' = Undone(mesh, Top.row)
  /\ frames' = WithRow(mesh'.down[Top.row])
  /\ at' = "loop"
  /\ UNCHANGED <<puzzle, board, result>>

GiveUp ==
  /\ at = "loop" /\ Top.row = Top.col
  /\ mesh' = Uncover(mesh, Top.col)
  /\ frames' = Front(frames)
  /\ at' = IF frames' = <<>> THEN "done" ELSE "back"
  /\ UNCHANGED <<puzzle, board, stack_, result>>

Next == Found \/ ChooseColumn \/ Take \/ Undo \/ GiveUp

-----------------------------------------------------------------------------
(* Properties. *)

(* Every variable keeps its type. *)
TypeOK ==
  /\ puzzle \in Board /\ board \in Board
  /\ DOMAIN mesh = {"name", "col", "left", "right", "up", "down", "size"}
  /\ \A f \in {"col", "left", "right", "up", "down"} :
       mesh[f] \in [DOMAIN mesh.name -> DOMAIN mesh.name]
  /\ stack_ \in Seq(DOMAIN mesh.name)
  /\ frames \in Seq([col : DOMAIN mesh.size, row : DOMAIN mesh.name])
  /\ at \in {"call", "loop", "back", "done"} /\ result \in BOOLEAN

(* At every step the mesh is the part of the first one that the rows taken *)
(* leave open: the ring of columns, the ring of every column in both       *)
(* directions, and its size, all in their first order, however many        *)
(* covers and uncovers came before; and the rows are as they were.         *)
MeshExact ==
  LET start   == Dance(puzzle)
      covered == {f.col : f \in ToSet(frames)}
                 \cup UNION {{start.col[j] : j \in RowNodes(n)} : n \in ToSet(stack_)}
      columns == DOMAIN start.size
      open    == columns \ ({0} \cup covered)
      inRows  == DOMAIN start.name \ columns
      row(n)  == {n} \cup ToSet(Chain(start.right, n))
      live    == {n \in inRows : {start.col[j] : j \in row(n)} \subseteq open}
      isRing(next, previous, R) ==
        \A n \in R : next[n] = After(R, n) /\ previous[n] = Before(R, n)
  IN  /\ isRing(mesh.right, mesh.left, {0} \cup open)
      /\ \A c \in open :
           LET rows == {n \in live : start.col[n] = c}
           IN  isRing(mesh.down, mesh.up, {c} \cup rows) /\ mesh.size[c] = Cardinality(rows)
      /\ mesh.name = start.name /\ mesh.col = start.col
      /\ \A n \in inRows : mesh.right[n] = start.right[n] /\ mesh.left[n] = start.left[n]
=============================================================================
