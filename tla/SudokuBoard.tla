----------------------------- MODULE SudokuBoard -----------------------------
(***************************************************************************)
(* Boards of Lab1: NUM * NUM cells in rows, columns and boxes, a cell      *)
(* holding 0 (blank) or a value.  The code has Band = 3.                   *)
(***************************************************************************)
EXTENDS Integers, FiniteSets

CONSTANT Band

ASSUME BandAssumption == Band \in Nat \ {0}

NUM    == Band * Band
Cells  == 0..(NUM * NUM - 1)
Values == 1..NUM
Board  == [Cells -> 0..NUM]

Row(c) == c \div NUM
Col(c) == c % NUM
Box(c) == (Row(c) \div Band) * Band + Col(c) \div Band

Blanks(b) == {c \in Cells : b[c] = 0}

(* neighbors[c]: the other cells of its row, its column and its box. *)
Neighbors(c) ==
  {n \in Cells \ {c} : Row(n) = Row(c) \/ Col(n) = Col(c) \/ Box(n) = Box(c)}

(* solved(): every row, column and box has each value once. *)
Solved(b) ==
  \A i \in 0..(NUM - 1) :
    /\ {b[c] : c \in {d \in Cells : Row(d) = i}} = Values
    /\ {b[c] : c \in {d \in Cells : Col(d) = i}} = Values
    /\ {b[c] : c \in {d \in Cells : Box(d) = i}} = Values

(* The numbers of S in order: the i-th has i - 1 others below it. *)
Ascending(S) ==
  [i \in 1..Cardinality(S) |-> CHOOSE x \in S : Cardinality({y \in S : y < x}) = i - 1]

(* The scan for the smallest size, which stops at the first of at most 1. *)
Smallest(sizes) ==
  CHOOSE i \in DOMAIN sizes :
    /\ \A j \in 1..(i - 1) : sizes[j] > sizes[i] /\ sizes[j] > 1
    /\ sizes[i] <= 1 \/ \A j \in DOMAIN sizes : sizes[j] >= sizes[i]

Completes(b, p) == Solved(b) /\ \A c \in Cells : p[c] # 0 => b[c] = p[c]

(* What the solvers decide. *)
Solvable(p) ==
  \E filled \in [Blanks(p) -> Values] :
    Solved([c \in Cells |-> IF p[c] = 0 THEN filled[c] ELSE p[c]])
=============================================================================
