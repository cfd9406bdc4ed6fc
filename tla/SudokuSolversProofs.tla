------------------------- MODULE SudokuSolversProofs -------------------------
(***************************************************************************)
(* Proofs about the solvers of SudokuSolvers.                              *)
(*                                                                         *)
(* First the three backtracking searches, for any size of box and any      *)
(* consistent puzzles: they decide.  The invariant says that spaces        *)
(* arranges the blank cells and the calls in progress fill the first of    *)
(* them (Arranged, Filled), that the tables are those of the board and     *)
(* every frame has what it takes to restore them (TablesKept), and that    *)
(* every value a call has passed over completes nothing (Refuted).         *)
(*                                                                         *)
(* Then the dancing links, on any puzzle: uncover restores every link      *)
(* cover took out, so the mesh of a call is what the columns covered leave *)
(* of the first one, and the invariant (Solving) is the history of the     *)
(* calls: the mesh each was entered with, and the row it took.             *)
(*                                                                         *)
(* Last, their verdict: an exact cover of the first mesh is a solution of  *)
(* the puzzle and a solution one (TakenCovers, SolutionCovers), and no     *)
(* exact cover has the rows taken and one that was passed over (Tried), so *)
(* the search that takes the last row back has refuted all of them.        *)
(*                                                                         *)
(* Search!X is definition X of SudokuSearch, Links!X of DancingLinks;      *)
(* SameBoard and LinksBoard identify the boards of the modules.            *)
(***************************************************************************)
EXTENDS SudokuSolvers, SequenceTheorems, FiniteSetTheorems, WellFoundedInduction, TLAPS

-----------------------------------------------------------------------------
(* Numbers: the least of a set, quotients and remainders. *)

(* Every set of natural numbers that is not empty has a least element. *)
LEMMA WellOrdered ==
  ASSUME NEW T, T \subseteq Nat, T # {}
  PROVE  \E x \in T : \A y \in T : x <= y
<1> DEFINE R == OpToRel(<, Nat)
<1>1. \E x \in T : \A y \in T : ~ (<<y, x>> \in R)
  BY NatLessThanWellFounded, WFMin
<1>2. \A y, x \in Nat : y < x => <<y, x>> \in R
  BY DEF OpToRel
<1>3. PICK x \in T : \A y \in T : ~ (<<y, x>> \in R)
  BY <1>1
<1> HIDE DEF R
<1>4. ASSUME NEW y \in T PROVE x <= y
  <2>1. x \in Nat /\ y \in Nat
    OBVIOUS
  <2>2. ~(y < x)
    BY <1>2, <1>3, <2>1
  <2> QED BY <2>1, <2>2
<1> QED BY <1>4

LEMMA MinIsLeast ==
  ASSUME NEW T, T \subseteq Nat, T # {}
  PROVE  Search!Min(T) \in T /\ \A y \in T : Search!Min(T) <= y
<1>1. \E x \in T : \A y \in T : x <= y
  BY WellOrdered
<1> QED BY <1>1 DEF Search!Min

(* Ascending lists each number of a finite set once, and in order. *)
LEMMA Listed ==
  ASSUME NEW S, S \subseteq Nat, IsFiniteSet(S)
  PROVE  /\ Cardinality(S) \in Nat
         /\ Ascending(S) \in [1..Cardinality(S) -> S]
         /\ \A i, j \in 1..Cardinality(S) : i < j <=> Ascending(S)[i] < Ascending(S)[j]
         /\ \A c \in S : \E i \in 1..Cardinality(S) : Ascending(S)[i] = c
<1> DEFINE n == Cardinality(S)
           below(c) == {d \in S : d < c}
           ranks == [c \in S |-> Cardinality(below(c))]
           list == [i \in 1..n |-> CHOOSE c \in S : Cardinality(below(c)) = i - 1]
<1>2. n \in Nat
  BY FS_CardinalityType
<1>3. Ascending(S) = list
  BY DEF Ascending
<1>4. ASSUME NEW c \in S PROVE IsFiniteSet(below(c)) /\ Cardinality(below(c)) \in 0..(n - 1)
  <2>1. below(c) \in SUBSET S /\ c \notin below(c)
    OBVIOUS
  <2>2. IsFiniteSet(below(c)) /\ Cardinality(below(c)) <= n /\ (n = Cardinality(below(c)) => S = below(c))
    BY <2>1, FS_Subset
  <2>3. Cardinality(below(c)) \in Nat
    BY <2>2, FS_CardinalityType
  <2>4. Cardinality(below(c)) # n
    BY <2>1, <2>2
  <2> HIDE DEF n, below
  <2> QED BY <1>2, <2>2, <2>3, <2>4
<1>5. ASSUME NEW c \in S, NEW d \in S, c < d
      PROVE  Cardinality(below(c)) < Cardinality(below(d))
  <2>0. ASSUME NEW x \in below(c) PROVE x \in below(d)
    <3>1. x \in Nat /\ c \in Nat /\ d \in Nat /\ x < c /\ c < d
      BY <1>5
    <3> QED BY <3>1
  <2>1. below(c) \in SUBSET below(d) /\ c \in below(d) /\ c \notin below(c)
    <3>1. c \in below(d)
      BY <1>5
    <3>2. c \notin below(c)
      <4>1. c \in Nat /\ ~(c < c)
        OBVIOUS
      <4> QED BY <4>1
    <3>3. below(c) \in SUBSET below(d)
      BY <2>0
    <3> QED BY <3>1, <3>2, <3>3
  <2>2. IsFiniteSet(below(d)) /\ Cardinality(below(d)) \in Nat /\ Cardinality(below(c)) \in Nat
    BY <1>4
  <2> HIDE DEF below
  <2>3. /\ Cardinality(below(c)) <= Cardinality(below(d))
        /\ Cardinality(below(d)) = Cardinality(below(c)) => below(d) = below(c)
    BY <2>1, <2>2, FS_Subset
  <2> QED BY <2>1, <2>2, <2>3
<1>6. ASSUME NEW c \in S, NEW d \in S
      PROVE  /\ c < d <=> Cardinality(below(c)) < Cardinality(below(d))
             /\ Cardinality(below(c)) = Cardinality(below(d)) => c = d
  <2>1. c \in Nat /\ d \in Nat
    OBVIOUS
  <2>2. Cardinality(below(c)) \in Nat /\ Cardinality(below(d)) \in Nat
    BY <1>4
  <2>3. c < d => Cardinality(below(c)) < Cardinality(below(d))
    BY <1>5
  <2>4. d < c => Cardinality(below(d)) < Cardinality(below(c))
    BY <1>5
  <2> HIDE DEF below
  <2> QED BY <2>1, <2>2, <2>3, <2>4
<1> HIDE DEF n, below
<1>7. ranks \in [S -> 0..(n - 1)] /\ \A c \in S : ranks[c] = Cardinality(below(c))
  BY <1>4
<1>8. ranks \in Injection(S, 0..(n - 1))
  BY <1>6, <1>7 DEF Injection, IsInjective
<1>9. IsFiniteSet(0..(n - 1)) /\ Cardinality(0..(n - 1)) = n
  <2>1. 0 \in Int /\ n - 1 \in Int /\ (IF 0 > n - 1 THEN 0 ELSE n - 1 - 0 + 1) = n
    BY <1>2
  <2>2. /\ IsFiniteSet(0..(n - 1))
        /\ Cardinality(0..(n - 1)) = IF 0 > n - 1 THEN 0 ELSE n - 1 - 0 + 1
    BY <2>1, FS_Interval
  <2> QED BY <2>1, <2>2
<1>10. ranks \in Surjection(S, 0..(n - 1))
  <2>1. Cardinality(S) = Cardinality(0..(n - 1))
    BY <1>9 DEF n
  <2> HIDE DEF ranks
  <2> QED BY <1>8, <1>9, <2>1, FS_Injection
<1>11. ASSUME NEW i \in 1..n PROVE \E c \in S : Cardinality(below(c)) = i - 1
  <2>1. i - 1 \in 0..(n - 1)
    BY <1>2
  <2>2. \E c \in S : ranks[c] = i - 1
    BY <1>10, <2>1 DEF Surjection
  <2> QED BY <1>7, <2>2
<1>12. ASSUME NEW i \in 1..n PROVE list[i] \in S /\ Cardinality(below(list[i])) = i - 1
  BY <1>11
<1>13. list \in [1..n -> S]
  BY <1>12
<1> HIDE DEF list
<1>14. ASSUME NEW i \in 1..n, NEW j \in 1..n PROVE i < j <=> list[i] < list[j]
  <2>1. list[i] \in S /\ list[j] \in S
    BY <1>12
  <2>2. list[i] < list[j] <=> Cardinality(below(list[i])) < Cardinality(below(list[j]))
    BY <1>6, <2>1
  <2>3. Cardinality(below(list[i])) = i - 1 /\ Cardinality(below(list[j])) = j - 1
    BY <1>12
  <2> QED BY <2>2, <2>3
<1>15. ASSUME NEW c \in S PROVE \E i \in 1..n : list[i] = c
  <2> DEFINE i == Cardinality(below(c)) + 1
  <2>1. i \in 1..n /\ i - 1 = Cardinality(below(c))
    BY <1>2, <1>4
  <2>2. list[i] \in S /\ Cardinality(below(list[i])) = i - 1
    BY <1>12, <2>1
  <2>3. list[i] = c
    BY <1>6, <2>1, <2>2
  <2> QED BY <2>1, <2>3
<1> QED BY <1>2, <1>3, <1>13, <1>14, <1>15 DEF n

LEMMA Euclid ==
  ASSUME NEW n \in Nat \ {0}, NEW c \in Nat
  PROVE  /\ c \div n \in Nat /\ c % n \in 0..(n - 1)
         /\ c = n * (c \div n) + (c % n)
<1>1. c = n * (c \div n) + (c % n)
  OBVIOUS
<1>2. c \div n \in Nat
  OBVIOUS
<1>3. c % n \in 0..(n - 1)
  OBVIOUS
<1> QED BY <1>1, <1>2, <1>3

LEMMA Multiples ==
  ASSUME NEW n \in Nat \ {0}, NEW p \in Nat, NEW q \in Nat, p < q
  PROVE  n * p + n <= n * q
<1>1. PICK k \in Nat : q = p + 1 + k
  <2>1. q - p - 1 \in Nat /\ q = p + 1 + (q - p - 1)
    OBVIOUS
  <2> QED BY <2>1
<1>2. n * (p + 1 + k) = n * p + n + n * k
  OBVIOUS
<1>3. n * k >= 0 /\ n * k \in Int /\ n * p \in Int
  OBVIOUS
<1> QED BY <1>1, <1>2, <1>3

LEMMA Quotient ==
  ASSUME NEW n \in Nat \ {0}, NEW q \in Nat, NEW r \in 0..(n - 1)
  PROVE  (n * q + r) \div n = q /\ (n * q + r) % n = r
<1> DEFINE c == n * q + r
<1>1. c \in Nat
  OBVIOUS
<1>2. c \div n \in Nat /\ c % n \in 0..(n - 1) /\ c = n * (c \div n) + (c % n)
  BY <1>1, Euclid
<1> DEFINE p == c \div n
           s == c % n
<1>3. p \in Nat /\ s \in 0..(n - 1) /\ n * q + r = n * p + s
  BY <1>2
<1>4. n * p \in Nat /\ n * q \in Nat
  BY <1>3
<1> HIDE DEF p, s
<1>5. ~(p < q)
  <2>1. p < q => n * p + n <= n * q
    BY <1>3, Multiples
  <2> QED BY <1>3, <1>4, <2>1
<1>6. ~(q < p)
  <2>1. q < p => n * q + n <= n * p
    BY <1>3, Multiples
  <2> QED BY <1>3, <1>4, <2>1
<1>7. p = q
  BY <1>3, <1>5, <1>6
<1>8. s = r
  BY <1>3, <1>4, <1>7
<1> QED BY <1>7, <1>8 DEF p, s

LEMMA NumType == NUM \in Nat \ {0} /\ NUM = Band * Band /\ Band <= NUM
<1>1. Band \in Nat \ {0}
  BY BandAssumption
<1>2. Band * Band \in Nat \ {0} /\ Band <= Band * Band
  BY <1>1
<1> QED BY <1>2 DEF NUM

LEMMA Products ==
  ASSUME NEW n \in Nat \ {0}, NEW m \in Nat, NEW p \in 0..(m - 1), NEW r \in 0..(n - 1)
  PROVE  n * p + r \in 0..(n * m - 1)
<1>1. n * p + n <= n * m
  BY Multiples
<1>2. n * p \in Nat /\ n * m \in Nat
  OBVIOUS
<1> QED BY <1>1, <1>2

LEMMA Below ==
  ASSUME NEW n \in Nat \ {0}, NEW m \in Nat, NEW c \in 0..(n * m - 1)
  PROVE  c \div n \in 0..(m - 1)
<1>1. n * m \in Nat /\ c \in Nat
  OBVIOUS
<1> DEFINE p == c \div n
           s == c % n
<1>2. p \in Nat /\ s \in 0..(n - 1) /\ c = n * p + s
  BY <1>1, Euclid
<1>3. n * p \in Nat
  BY <1>2
<1> HIDE DEF p, s
<1>4. ~(m < p)
  <2>1. m < p => n * m + n <= n * p
    BY <1>2, Multiples
  <2> QED BY <1>1, <1>2, <1>3, <2>1
<1>5. p # m
  BY <1>1, <1>2, <1>3
<1> QED BY <1>2, <1>4, <1>5 DEF p

-----------------------------------------------------------------------------
(* Boards: units (rows, columns, boxes), and what it takes to be solved. *)

RowOf(i) == {d \in Cells : Row(d) = i}
ColOf(i) == {d \in Cells : Col(d) = i}
BoxOf(i) == {d \in Cells : Box(d) = i}

(* The cell of row r and column k. *)
CellAt(r, k) == NUM * r + k

LEMMA CellParts ==
  ASSUME NEW c \in Cells
  PROVE  Row(c) \in 0..(NUM - 1) /\ Col(c) \in 0..(NUM - 1) /\ c = CellAt(Row(c), Col(c))
<1>1. NUM \in Nat \ {0} /\ c \in 0..(NUM * NUM - 1) /\ c \in Nat
  BY NumType DEF Cells
<1>2. c \div NUM \in 0..(NUM - 1)
  BY <1>1, Below
<1>3. c % NUM \in 0..(NUM - 1) /\ c = NUM * (c \div NUM) + (c % NUM)
  BY <1>1, Euclid
<1> QED BY <1>2, <1>3 DEF Row, Col, CellAt

LEMMA CellAtParts ==
  ASSUME NEW r \in 0..(NUM - 1), NEW k \in 0..(NUM - 1)
  PROVE  CellAt(r, k) \in Cells /\ Row(CellAt(r, k)) = r /\ Col(CellAt(r, k)) = k
<1>1. NUM \in Nat \ {0} /\ r \in Nat
  BY NumType
<1>2. NUM * r + k \in 0..(NUM * NUM - 1)
  BY <1>1, Products
<1>3. (NUM * r + k) \div NUM = r /\ (NUM * r + k) % NUM = k
  BY <1>1, Quotient
<1> QED BY <1>2, <1>3 DEF Row, Col, CellAt, Cells

(* The digits of a number below NUM to the base Band. *)
LEMMA Digits ==
  ASSUME NEW i \in 0..(NUM - 1)
  PROVE  /\ i \div Band \in 0..(Band - 1) /\ i % Band \in 0..(Band - 1)
         /\ i = Band * (i \div Band) + (i % Band)
<1>1. Band \in Nat \ {0} /\ i \in 0..(Band * Band - 1) /\ i \in Nat
  BY BandAssumption, NumType
<1> QED BY <1>1, Below, Euclid

LEMMA FromDigits ==
  ASSUME NEW p \in 0..(Band - 1), NEW q \in 0..(Band - 1)
  PROVE  /\ Band * p + q \in 0..(NUM - 1)
         /\ (Band * p + q) \div Band = p /\ (Band * p + q) % Band = q
<1>1. Band \in Nat \ {0} /\ p \in Nat /\ NUM = Band * Band
  BY BandAssumption, NumType
<1>2. Band * p + q \in 0..(Band * Band - 1)
  BY <1>1, Products
<1> QED BY <1>1, <1>2, Quotient

LEMMA BoxParts ==
  ASSUME NEW c \in Cells
  PROVE  Box(c) \in 0..(NUM - 1) /\ Box(c) = Band * (Row(c) \div Band) + Col(c) \div Band
<1>1. Row(c) \in 0..(NUM - 1) /\ Col(c) \in 0..(NUM - 1)
  BY CellParts
<1>2. Row(c) \div Band \in 0..(Band - 1) /\ Col(c) \div Band \in 0..(Band - 1)
  BY <1>1, Digits
<1>3. (Row(c) \div Band) * Band = Band * (Row(c) \div Band)
  BY <1>2, BandAssumption
<1> QED BY <1>2, <1>3, FromDigits DEF Box

Columns == 0..(NUM - 1)

LEMMA ColumnsFinite == IsFiniteSet(Columns) /\ Cardinality(Columns) = NUM
<1>1. NUM \in Nat /\ 0 \in Int /\ NUM - 1 \in Int /\ ~(0 > NUM - 1) /\ NUM - 1 - 0 + 1 = NUM
  BY NumType
<1> QED BY <1>1, FS_Interval DEF Columns

(* A bijection from 0..NUM - 1 counts. *)
LEMMA Counted ==
  ASSUME NEW U, NEW f \in [Columns -> U],
         \A k, l \in Columns : f[k] = f[l] => k = l,
         \A c \in U : \E k \in Columns : f[k] = c
  PROVE  IsFiniteSet(U) /\ Cardinality(U) = NUM
<1>1. f \in Injection(Columns, U) /\ f \in Surjection(Columns, U)
  BY DEF Injection, IsInjective, Surjection
<1>2. ExistsBijection(Columns, U)
  BY <1>1 DEF ExistsBijection, Bijection
<1> QED BY <1>2, ColumnsFinite, FS_Bijection

LEMMA RowCounts ==
  ASSUME NEW i \in 0..(NUM - 1)
  PROVE  IsFiniteSet(RowOf(i)) /\ Cardinality(RowOf(i)) = NUM
<1> DEFINE f == [k \in Columns |-> CellAt(i, k)]
<1>1. \A k \in Columns : CellAt(i, k) \in RowOf(i) /\ Col(CellAt(i, k)) = k
  BY CellAtParts DEF Columns, RowOf
<1>2. f \in [Columns -> RowOf(i)]
  BY <1>1
<1>3. \A k, l \in Columns : f[k] = f[l] => k = l
  BY <1>1
<1>4. \A c \in RowOf(i) : \E k \in Columns : f[k] = c
  <2>1. \A c \in RowOf(i) : Col(c) \in Columns /\ f[Col(c)] = c
    BY CellParts DEF Columns, RowOf
  <2> QED BY <2>1
<1> HIDE DEF f
<1> QED BY <1>2, <1>3, <1>4, Counted

LEMMA ColCounts ==
  ASSUME NEW i \in 0..(NUM - 1)
  PROVE  IsFiniteSet(ColOf(i)) /\ Cardinality(ColOf(i)) = NUM
<1> DEFINE f == [k \in Columns |-> CellAt(k, i)]
<1>1. \A k \in Columns : CellAt(k, i) \in ColOf(i) /\ Row(CellAt(k, i)) = k
  BY CellAtParts DEF Columns, ColOf
<1>2. f \in [Columns -> ColOf(i)]
  BY <1>1
<1>3. \A k, l \in Columns : f[k] = f[l] => k = l
  BY <1>1
<1>4. \A c \in ColOf(i) : \E k \in Columns : f[k] = c
  <2>1. \A c \in ColOf(i) : Row(c) \in Columns /\ f[Row(c)] = c
    BY CellParts DEF Columns, ColOf
  <2> QED BY <2>1
<1> HIDE DEF f
<1> QED BY <1>2, <1>3, <1>4, Counted

LEMMA BoxCounts ==
  ASSUME NEW i \in 0..(NUM - 1)
  PROVE  IsFiniteSet(BoxOf(i)) /\ Cardinality(BoxOf(i)) = NUM
<1> DEFINE R(k) == Band * (i \div Band) + k \div Band
           K(k) == Band * (i % Band) + (k % Band)
           f == [k \in Columns |-> CellAt(R(k), K(k))]
<1>1. i \div Band \in 0..(Band - 1) /\ i % Band \in 0..(Band - 1) /\ i = Band * (i \div Band) + (i % Band)
  BY Digits
<1>2. ASSUME NEW k \in Columns
      PROVE  /\ R(k) \in 0..(NUM - 1) /\ R(k) \div Band = i \div Band /\ R(k) % Band = k \div Band
             /\ K(k) \in 0..(NUM - 1) /\ K(k) \div Band = i % Band /\ K(k) % Band = k % Band
             /\ k = Band * (k \div Band) + (k % Band)
  <2>1. k \div Band \in 0..(Band - 1) /\ k % Band \in 0..(Band - 1) /\ k = Band * (k \div Band) + (k % Band)
    BY Digits DEF Columns
  <2> QED BY <1>1, <2>1, FromDigits
<1> HIDE DEF R, K
<1>3. ASSUME NEW k \in Columns
      PROVE  /\ CellAt(R(k), K(k)) \in BoxOf(i)
             /\ Row(CellAt(R(k), K(k))) = R(k) /\ Col(CellAt(R(k), K(k))) = K(k)
  <2>1. /\ CellAt(R(k), K(k)) \in Cells
        /\ Row(CellAt(R(k), K(k))) = R(k) /\ Col(CellAt(R(k), K(k))) = K(k)
    BY <1>2, CellAtParts
  <2>2. Box(CellAt(R(k), K(k))) = i
    BY <1>1, <1>2, <2>1, BoxParts
  <2> QED BY <2>1, <2>2 DEF BoxOf
<1>4. f \in [Columns -> BoxOf(i)]
  BY <1>3
<1>5. ASSUME NEW k \in Columns, NEW l \in Columns, f[k] = f[l] PROVE k = l
  <2>1. R(k) = R(l) /\ K(k) = K(l)
    BY <1>3, <1>5
  <2>2. k \div Band = l \div Band /\ k % Band = l % Band
    BY <1>2, <2>1
  <2> QED BY <1>2, <2>2
<1>6. ASSUME NEW c \in BoxOf(i) PROVE \E k \in Columns : f[k] = c
  <2>1. c \in Cells /\ Box(c) = i
    BY DEF BoxOf
  <2>2. /\ Row(c) \in 0..(NUM - 1) /\ Col(c) \in 0..(NUM - 1) /\ c = CellAt(Row(c), Col(c))
        /\ i = Band * (Row(c) \div Band) + Col(c) \div Band
    BY <2>1, CellParts, BoxParts
  <2> DEFINE k == Band * (Row(c) % Band) + (Col(c) % Band)
  <2>3. /\ Row(c) \div Band \in 0..(Band - 1) /\ Row(c) % Band \in 0..(Band - 1)
        /\ Row(c) = Band * (Row(c) \div Band) + (Row(c) % Band)
        /\ Col(c) \div Band \in 0..(Band - 1) /\ Col(c) % Band \in 0..(Band - 1)
        /\ Col(c) = Band * (Col(c) \div Band) + (Col(c) % Band)
    BY <2>2, Digits
  <2>4. i \div Band = Row(c) \div Band /\ i % Band = Col(c) \div Band
    BY <2>2, <2>3, FromDigits
  <2>5. k \in Columns /\ k \div Band = Row(c) % Band /\ k % Band = Col(c) % Band
    BY <2>3, FromDigits DEF Columns
  <2> HIDE DEF k
  <2>6. R(k) = Row(c) /\ K(k) = Col(c)
    BY <2>3, <2>4, <2>5 DEF R, K
  <2>7. f[k] = c
    BY <2>2, <2>5, <2>6
  <2> QED BY <2>5, <2>7
<1> HIDE DEF f
<1> QED BY <1>4, <1>5, <1>6, Counted

(* A unit is filled with all values exactly if no two of its cells agree. *)
LEMMA UnitFull ==
  ASSUME NEW U \in SUBSET Cells, IsFiniteSet(U), Cardinality(U) = NUM,
         NEW b \in [Cells -> Values]
  PROVE  {b[c] : c \in U} = Values <=> \A c, d \in U : b[c] = b[d] => c = d
<1> DEFINE f == [c \in U |-> b[c]]
<1>1. f \in [U -> Values] /\ \A c \in U : f[c] = b[c]
  OBVIOUS
<1>2. IsFiniteSet(Values) /\ Cardinality(Values) = NUM
  <2>1. NUM \in Int /\ 1 \in Int /\ ~(1 > NUM) /\ NUM - 1 + 1 = NUM
    BY NumType
  <2> QED BY <2>1, FS_Interval DEF Values
<1> HIDE DEF f
<1>3. ASSUME {b[c] : c \in U} = Values, NEW c \in U, NEW d \in U, b[c] = b[d]
      PROVE  c = d
  <2>1. \A v \in Values : \E e \in U : f[e] = v
    BY <1>1, <1>3
  <2>2. f \in Surjection(U, Values)
    BY <1>1, <2>1 DEF Surjection
  <2>3. f \in Injection(U, Values)
    BY <1>2, <2>2, FS_Surjection
  <2> QED BY <1>1, <1>3, <2>3 DEF Injection, IsInjective
<1>4. ASSUME \A c, d \in U : b[c] = b[d] => c = d PROVE {b[c] : c \in U} = Values
  <2>1. f \in Injection(U, Values)
    BY <1>1, <1>4 DEF Injection, IsInjective
  <2>2. f \in Surjection(U, Values)
    BY <1>2, <2>1, FS_Injection
  <2>3. \A v \in Values : \E e \in U : f[e] = v
    BY <2>2 DEF Surjection
  <2> QED BY <1>1, <2>3
<1> QED BY <1>3, <1>4

(* solved() is that no two neighbours agree. *)
LEMMA SolvedApart ==
  ASSUME NEW b \in [Cells -> Values]
  PROVE  Solved(b) <=> \A c \in Cells : \A n \in Neighbors(c) : b[n] # b[c]
<1> DEFINE Full(U) == {b[c] : c \in U} = Values
           Apart(U) == \A c, d \in U : b[c] = b[d] => c = d
<1>1. Solved(b) <=> \A i \in 0..(NUM - 1) : Full(RowOf(i)) /\ Full(ColOf(i)) /\ Full(BoxOf(i))
  BY DEF Solved, RowOf, ColOf, BoxOf
<1>2. ASSUME NEW i \in 0..(NUM - 1)
      PROVE  /\ Full(RowOf(i)) <=> Apart(RowOf(i))
             /\ Full(ColOf(i)) <=> Apart(ColOf(i))
             /\ Full(BoxOf(i)) <=> Apart(BoxOf(i))
  <2>1. RowOf(i) \in SUBSET Cells /\ ColOf(i) \in SUBSET Cells /\ BoxOf(i) \in SUBSET Cells
    BY DEF RowOf, ColOf, BoxOf
  <2>2. /\ IsFiniteSet(RowOf(i)) /\ Cardinality(RowOf(i)) = NUM
        /\ IsFiniteSet(ColOf(i)) /\ Cardinality(ColOf(i)) = NUM
        /\ IsFiniteSet(BoxOf(i)) /\ Cardinality(BoxOf(i)) = NUM
    BY RowCounts, ColCounts, BoxCounts
  <2> QED BY <2>1, <2>2, UnitFull
<1> HIDE DEF Full
<1>3. ASSUME \A i \in 0..(NUM - 1) : Apart(RowOf(i)) /\ Apart(ColOf(i)) /\ Apart(BoxOf(i)),
             NEW c \in Cells, NEW n \in Neighbors(c)
      PROVE  b[n] # b[c]
  <2>1. n \in Cells /\ n # c /\ (Row(n) = Row(c) \/ Col(n) = Col(c) \/ Box(n) = Box(c))
    BY DEF Neighbors
  <2>2. Row(c) \in 0..(NUM - 1) /\ Col(c) \in 0..(NUM - 1) /\ Box(c) \in 0..(NUM - 1)
    BY CellParts, BoxParts
  <2> QED BY <1>3, <2>1, <2>2 DEF RowOf, ColOf, BoxOf
<1>4. ASSUME \A c \in Cells : \A n \in Neighbors(c) : b[n] # b[c], NEW i \in 0..(NUM - 1)
      PROVE  Apart(RowOf(i)) /\ Apart(ColOf(i)) /\ Apart(BoxOf(i))
  BY <1>4 DEF Neighbors, RowOf, ColOf, BoxOf
<1> QED BY <1>1, <1>2, <1>3, <1>4

LEMMA NeighborsMutual ==
  ASSUME NEW c \in Cells, NEW n \in Cells
  PROVE  n \in Neighbors(c) <=> c \in Neighbors(n)
BY DEF Neighbors

(* The scan for the smallest size ends at one of them. *)
LEMMA SmallestFound ==
  ASSUME NEW m \in Nat \ {0}, NEW sizes \in [1..m -> Nat]
  PROVE  Smallest(sizes) \in 1..m
<1> DEFINE Ok(i) == /\ \A j \in 1..(i - 1) : sizes[j] > sizes[i] /\ sizes[j] > 1
                    /\ sizes[i] <= 1 \/ \A j \in 1..m : sizes[j] >= sizes[i]
<1>1. \E i \in 1..m : Ok(i)
  <2>1. CASE \E j \in 1..m : sizes[j] <= 1
    <3> DEFINE T == {j \in 1..m : sizes[j] <= 1}
    <3>1. T \subseteq Nat /\ T # {}
      BY <2>1
    <3>2. PICK i \in T : \A j \in T : i <= j
      BY <3>1, WellOrdered
    <3>3. \A j \in 1..(i - 1) : j \in 1..m /\ ~(i <= j)
      BY <3>2
    <3>4. Ok(i)
      BY <3>2, <3>3
    <3> QED BY <3>2, <3>4
  <2>2. CASE ~ \E j \in 1..m : sizes[j] <= 1
    <3> DEFINE V == {sizes[j] : j \in 1..m}
    <3>1. V \subseteq Nat /\ V # {}
      <4>1. sizes[1] \in V
        OBVIOUS
      <4> QED BY <4>1
    <3>2. PICK v \in V : \A w \in V : v <= w
      BY <3>1, WellOrdered
    <3> DEFINE T == {j \in 1..m : sizes[j] = v}
    <3>3. T \subseteq Nat /\ T # {}
      BY <3>2
    <3>4. PICK i \in T : \A j \in T : i <= j
      BY <3>3, WellOrdered
    <3>5. ASSUME NEW j \in 1..(i - 1) PROVE sizes[j] > sizes[i] /\ sizes[j] > 1
      <4>1. j \in 1..m /\ ~(i <= j) /\ sizes[i] = v
        BY <3>4
      <4>2. j \notin T
        BY <3>4, <4>1
      <4>3. sizes[j] \in V /\ sizes[j] # v /\ sizes[j] \in Nat /\ sizes[i] \in Nat
        BY <4>1, <4>2
      <4>4. v <= sizes[j] /\ v \in Nat
        BY <3>2, <4>1
      <4>5. ~(sizes[j] <= 1)
        BY <2>2, <4>1
      <4> QED BY <4>1, <4>3, <4>4, <4>5
    <3>6. \A j \in 1..m : sizes[j] >= sizes[i]
      BY <3>2, <3>4
    <3> QED BY <3>4, <3>5, <3>6
  <2> QED BY <2>1, <2>2
<1>2. DOMAIN sizes = 1..m
  OBVIOUS
<1>3. Smallest(sizes) = CHOOSE i \in 1..m : Ok(i)
  BY <1>2 DEF Smallest
<1> HIDE DEF Ok
<1> QED BY <1>1, <1>3

-----------------------------------------------------------------------------
(* The invariant of the search. *)

Around(b, c) == {b[n] : n \in Neighbors(c)} \ {0}

(* The values init_cache would strike out for a cell of a board. *)
Occupied(b, c) == Around(b, c) \cup ({b[c]} \ {0})

(* The calls whose cell holds a guess. *)
Held == IF at = "loop" THEN Len(frames) - 1 ELSE Len(frames)

Frame == [guess : 0..NUM, modified : SUBSET Cells]

Types ==
  /\ solver \in {"basic", "min_arity", "cache"}
  /\ puzzle \in Board /\ board \in Board
  /\ spaces \in Seq(Cells)
  /\ occupied \in [Cells -> SUBSET Values]
  /\ arity \in [Cells -> 0..NUM]
  /\ frames \in Seq(Frame)
  /\ at \in {"call", "loop", "back", "done"} /\ result \in BOOLEAN

(* The calls in progress are at most one per blank cell; all cells are     *)
(* filled in the end, or no call is left.                                  *)
Depth ==
  /\ Len(frames) <= Len(spaces)
  /\ at \in {"loop", "back"} => Len(frames) >= 1
  /\ IF at = "done" /\ result THEN Len(frames) = Len(spaces) ELSE ~result
  /\ at = "done" /\ ~result => Len(frames) = 0

(* spaces arranges the blank cells of the puzzle. *)
Arranged ==
  /\ \A i, j \in 1..Len(spaces) : spaces[i] = spaces[j] => i = j
  /\ \A c \in Blanks(puzzle) : \E i \in 1..Len(spaces) : spaces[i] = c
  /\ \A i \in 1..Len(spaces) : spaces[i] \in Blanks(puzzle)

(* The board has the givens and, in their cells, the guesses held. *)
Filled ==
  /\ \A c \in Cells \ Blanks(puzzle) : board[c] = puzzle[c]
  /\ \A i \in 1..Held : board[spaces[i]] = frames[i].guess /\ frames[i].guess \in Values
  /\ \A i \in (Held + 1)..Len(spaces) : board[spaces[i]] = 0

(* No two neighbours have the same value. *)
NoClash ==
  \A c \in Cells : board[c] # 0 => \A n \in Neighbors(c) : board[n] # board[c]

(* The board when the calls 1..k held a guess each, and no other did. *)
Reached(k) ==
  [c \in Cells |-> IF \E i \in 1..k : spaces[i] = c THEN board[c] ELSE puzzle[c]]

(* The tables are those of the board; a frame has the neighbours for which *)
(* its guess was not yet struck out when it was made.                      *)
TablesOf(b) ==
  \A c \in Cells :
    /\ occupied[c] = Occupied(b, c)
    /\ arity[c] = NUM - Cardinality(Around(b, c))

FramesKept ==
  \A k \in 1..Held :
    frames[k].modified =
      {n \in Neighbors(spaces[k]) : frames[k].guess \notin Occupied(Reached(k - 1), n)}

TablesKept == solver = "cache" => TablesOf(board) /\ FramesKept

(* s fills the cells of the first k calls as they do. *)
Agrees(s, k) == \A i \in 1..k : s[spaces[i]] = frames[i].guess

(* A call that has taken a guess has refuted all lower ones, and one whose *)
(* guess has come back this one too.                                       *)
RefutedFor(s) ==
  /\ \A k \in 1..Len(frames) : Agrees(s, k - 1) =>
       /\ s[spaces[k]] >= frames[k].guess
       /\ k = Len(frames) /\ at \in {"loop", "back"} => s[spaces[k]] # frames[k].guess
  /\ at = "done" => result

Refuted == \A s \in [Cells -> Values] : Completes(s, puzzle) => RefutedFor(s)

SearchInv == Types /\ Depth /\ Arranged /\ Filled /\ NoClash /\ TablesKept /\ Refuted

Inv == solver # "dancing_links" => SearchInv

-----------------------------------------------------------------------------
(* The search, in the names of this module. *)

LEMMA SameBoard ==
  /\ Search!NUM = NUM /\ Search!Cells = Cells /\ Search!Values = Values /\ Search!Board = Board
  /\ \A c : Search!Neighbors(c) = Neighbors(c)
  /\ \A b : Search!Blanks(b) = Blanks(b)
  /\ \A S : Search!Cardinality(S) = Cardinality(S)
  /\ \A S : Search!Ascending(S) = Ascending(S)
<1>1. Search!NUM = NUM
  BY DEF Search!NUM, NUM
<1>2. Search!Cells = Cells /\ Search!Values = Values
  BY <1>1 DEF Search!Cells, Cells, Search!Values, Values
<1>3. \A c : Search!Row(c) = Row(c) /\ Search!Col(c) = Col(c)
  BY <1>1 DEF Search!Row, Row, Search!Col, Col
<1>4. \A c : Search!Box(c) = Box(c)
  BY <1>3 DEF Search!Box, Box
<1>5. \A c : Search!Neighbors(c) = Neighbors(c)
  BY <1>2, <1>3, <1>4 DEF Search!Neighbors, Neighbors
<1>6. Search!Board = Board
  BY <1>1, <1>2 DEF Search!Board, Board
<1>7. \A b : Search!Blanks(b) = Blanks(b)
  BY <1>2 DEF Search!Blanks, Blanks
<1>8. \A S : Search!Cardinality(S) = Cardinality(S)
  BY DEF Search!Cardinality, Cardinality
<1>9. \A S : Search!Ascending(S) = Ascending(S)
  BY DEF Search!Ascending, Ascending, Search!Cardinality, Cardinality
<1> QED BY <1>1, <1>2, <1>5, <1>6, <1>7, <1>8, <1>9

LEMMA SameAround == \A b, c : Search!Around(b, c) = Around(b, c)
BY SameBoard DEF Search!Around, Around

LEMMA SameTypes == Search!TypeOK <=> Types
BY SameBoard DEF Search!TypeOK, Types, Search!Solvers, Frame

LEMMA SameHeld == Search!Held = Held
BY DEF Search!Held, Held

-----------------------------------------------------------------------------
(* What a guess changes around its cell. *)

LEMMA ValuesFinite == IsFiniteSet(Values) /\ Cardinality(Values) = NUM
<1>1. NUM \in Int /\ 1 \in Int /\ ~(1 > NUM) /\ NUM - 1 + 1 = NUM
  BY NumType
<1> QED BY <1>1, FS_Interval DEF Values

LEMMA BoardHolds ==
  ASSUME NEW b \in Board, NEW c \in Cells
  PROVE  b[c] \in 0..NUM /\ (b[c] # 0 <=> b[c] \in Values)
BY NumType DEF Board, Values

LEMMA AroundType ==
  ASSUME NEW b \in Board, NEW c \in Cells
  PROVE  /\ Around(b, c) \subseteq Values
         /\ IsFiniteSet(Around(b, c))
         /\ Cardinality(Around(b, c)) \in 0..NUM
<1>1. Around(b, c) \subseteq Values
  BY BoardHolds DEF Around, Neighbors
<1>2. IsFiniteSet(Around(b, c)) /\ Cardinality(Around(b, c)) <= NUM
  BY <1>1, ValuesFinite, FS_Subset
<1>3. Cardinality(Around(b, c)) \in Nat
  BY <1>2, FS_CardinalityType
<1> QED BY <1>1, <1>2, <1>3, NumType

LEMMA AroundSays ==
  ASSUME NEW b, NEW c, NEW v
  PROVE  v \in Around(b, c) <=> v # 0 /\ \E n \in Neighbors(c) : b[n] = v
BY DEF Around

(* b with value g put into a blank cell. *)
Put(b, cell, g) == [b EXCEPT ![cell] = g]

LEMMA PutType ==
  ASSUME NEW b \in Board, NEW cell \in Cells, NEW g \in Values
  PROVE  /\ Put(b, cell, g) \in Board
         /\ Put(b, cell, g)[cell] = g
         /\ \A c \in Cells \ {cell} : Put(b, cell, g)[c] = b[c]
<1>1. g \in 0..NUM
  BY NumType DEF Values
<1> QED BY <1>1 DEF Put, Board

LEMMA AroundPut ==
  ASSUME NEW b \in Board, NEW cell \in Cells, b[cell] = 0, NEW g \in Values, NEW c \in Cells
  PROVE  Around(Put(b, cell, g), c) =
           IF c \in Neighbors(cell) THEN Around(b, c) \cup {g} ELSE Around(b, c)
<1> DEFINE q == Put(b, cell, g)
<1>1. q[cell] = g /\ g # 0 /\ \A n \in Cells \ {cell} : q[n] = b[n]
  BY PutType, NumType DEF Values
<1>2. \A n \in Neighbors(c) : n \in Cells
  BY DEF Neighbors
<1>3. c \in Neighbors(cell) <=> cell \in Neighbors(c)
  BY NeighborsMutual
<1> HIDE DEF q
<1>4. ASSUME NEW v
      PROVE  v \in Around(q, c) <=> v \in Around(b, c) \/ (v = g /\ cell \in Neighbors(c))
  <2>1. v \in Around(q, c) <=> v # 0 /\ \E n \in Neighbors(c) : q[n] = v
    BY AroundSays
  <2>2. v \in Around(b, c) <=> v # 0 /\ \E n \in Neighbors(c) : b[n] = v
    BY AroundSays
  <2>3. ASSUME v # 0, NEW n \in Neighbors(c), q[n] = v
        PROVE  (\E k \in Neighbors(c) : b[k] = v) \/ (v = g /\ cell \in Neighbors(c))
    BY <1>1, <1>2, <2>3
  <2>4. ASSUME v # 0, NEW n \in Neighbors(c), b[n] = v
        PROVE  \E k \in Neighbors(c) : q[k] = v
    <3>1. n # cell
      BY <2>4
    <3> QED BY <1>1, <1>2, <2>4, <3>1
  <2>5. ASSUME v = g, cell \in Neighbors(c) PROVE v # 0 /\ \E k \in Neighbors(c) : q[k] = v
    BY <1>1, <2>5
  <2> QED BY <2>1, <2>2, <2>3, <2>4, <2>5
<1>5. Around(q, c) = IF c \in Neighbors(cell) THEN Around(b, c) \cup {g} ELSE Around(b, c)
  BY <1>3, <1>4
<1> QED BY <1>5 DEF q

(* The neighbours a guess is struck out for. *)
StruckFor(b, cell, g) == {n \in Neighbors(cell) : g \notin Occupied(b, n)}

(* The tables after a guess, and back. *)
LEMMA TablesPut ==
  ASSUME NEW b \in Board, NEW cell \in Cells, b[cell] = 0, NEW g \in Values,
         g \notin Around(b, cell), NEW c \in Cells
  PROVE  LET q == Put(b, cell, g)
             m == StruckFor(b, cell, g)
         IN  /\ Occupied(q, c) =
                  IF c \in m \cup {cell} THEN Occupied(b, c) \cup {g} ELSE Occupied(b, c)
             /\ Occupied(b, c) =
                  IF c \in m \cup {cell} THEN Occupied(q, c) \ {g} ELSE Occupied(q, c)
             /\ Cardinality(Around(q, c)) =
                  IF c \in m THEN Cardinality(Around(b, c)) + 1 ELSE Cardinality(Around(b, c))
<1> DEFINE q == Put(b, cell, g)
           m == StruckFor(b, cell, g)
<1>1. q[cell] = g /\ g # 0 /\ \A n \in Cells \ {cell} : q[n] = b[n]
  BY PutType, NumType DEF Values
<1>2. Around(q, c) = IF c \in Neighbors(cell) THEN Around(b, c) \cup {g} ELSE Around(b, c)
  BY AroundPut
<1>3. cell \notin Neighbors(cell) /\ cell \notin m
  BY DEF Neighbors, StruckFor
<1>4. c \in m <=> c \in Neighbors(cell) /\ g \notin Occupied(b, c)
  BY DEF StruckFor
<1>5. Occupied(q, c) = Around(q, c) \cup ({q[c]} \ {0}) /\ Occupied(b, c) = Around(b, c) \cup ({b[c]} \ {0})
  BY DEF Occupied
<1>6. c \in Neighbors(cell) => g # b[c]
  <2>1. c \in Neighbors(cell) /\ g = b[c] => g \in Around(b, cell)
    BY <1>1, AroundSays
  <2> QED BY <2>1
<1>7. IsFiniteSet(Around(b, c))
  BY AroundType
<1> HIDE DEF q, m
<1>8. CASE c = cell
  <2>1. Occupied(q, c) = Around(b, c) \cup {g} /\ Occupied(b, c) = Around(b, c)
    BY <1>1, <1>2, <1>3, <1>5, <1>8
  <2>2. Around(q, c) = Around(b, c)
    BY <1>2, <1>3, <1>8
  <2>3. g \notin Around(b, c)
    BY <1>8
  <2>4. Occupied(q, c) = Occupied(b, c) \cup {g} /\ Occupied(b, c) = Occupied(q, c) \ {g}
    BY <2>1, <2>3
  <2> QED BY <1>3, <1>8, <2>2, <2>4 DEF q, m
<1>9. CASE c # cell /\ c \in m
  <2>1. q[c] = b[c] /\ Around(q, c) = Around(b, c) \cup {g} /\ g \notin Occupied(b, c)
    BY <1>1, <1>2, <1>4, <1>9
  <2>2. Occupied(q, c) = Occupied(b, c) \cup {g} /\ g \notin Around(b, c)
    BY <1>5, <2>1
  <2>3. Occupied(b, c) = Occupied(q, c) \ {g}
    BY <2>1, <2>2
  <2>4. Cardinality(Around(b, c) \cup {g}) = Cardinality(Around(b, c)) + 1
    BY <1>7, <2>2, FS_AddElement
  <2>5. Cardinality(Around(q, c)) = Cardinality(Around(b, c)) + 1
    BY <2>1, <2>4
  <2> QED BY <1>9, <2>2, <2>3, <2>5 DEF q, m
<1>10. CASE c # cell /\ c \notin m
  <2>1. q[c] = b[c]
    BY <1>1, <1>10
  <2>2. Around(q, c) = Around(b, c)
    BY <1>1, <1>2, <1>4, <1>5, <1>6, <1>10
  <2>3. Occupied(q, c) = Occupied(b, c)
    BY <1>5, <2>1, <2>2
  <2> QED BY <1>10, <2>2, <2>3 DEF q, m
<1> QED BY <1>8, <1>9, <1>10

-----------------------------------------------------------------------------
(* The steps, in the names of this module. *)

(* Consequences of the invariant that every step needs. *)
LEMMA Basics ==
  ASSUME SearchInv
  PROVE  /\ Len(frames) \in Nat /\ Len(spaces) \in Nat
         /\ \A i \in 1..Len(frames) :
              /\ frames[i] \in Frame /\ frames[i].guess \in 0..NUM /\ frames[i].modified \in SUBSET Cells
         /\ \A i \in 1..Len(spaces) : spaces[i] \in Cells /\ puzzle[spaces[i]] = 0
         /\ \A c \in Cells : puzzle[c] \in 0..NUM /\ board[c] \in 0..NUM
         /\ Held \in 0..Len(frames)
         /\ at \in {"loop", "back"} => Len(frames) \in 1..Len(spaces)
<1>1. Types /\ Depth /\ Arranged
  BY DEF SearchInv
<1>2. frames \in Seq(Frame) /\ spaces \in Seq(Cells)
  BY <1>1 DEF Types
<1>3. Len(frames) \in Nat /\ Len(spaces) \in Nat
  BY <1>2
<1>4. \A i \in 1..Len(frames) : frames[i] \in Frame
  BY <1>2
<1>5. \A i \in 1..Len(spaces) : spaces[i] \in Cells
  BY <1>2
<1>6. \A i \in 1..Len(frames) : frames[i].guess \in 0..NUM /\ frames[i].modified \in SUBSET Cells
  BY <1>4 DEF Frame
<1>7. \A i \in 1..Len(spaces) : puzzle[spaces[i]] = 0
  BY <1>1 DEF Arranged, Blanks
<1>8. \A c \in Cells : puzzle[c] \in 0..NUM /\ board[c] \in 0..NUM
  BY <1>1 DEF Types, Board
<1>9. Held \in 0..Len(frames)
  BY <1>1, <1>3 DEF Held, Depth
<1>10. at \in {"loop", "back"} => Len(frames) \in 1..Len(spaces)
  BY <1>1, <1>3 DEF Depth
<1> QED BY <1>3, <1>4, <1>5, <1>6, <1>7, <1>8, <1>9, <1>10

LEMMA FoundSays ==
  ASSUME Search!Found
  PROVE  /\ at = "call" /\ Len(frames) >= Len(spaces)
         /\ result' = TRUE /\ at' = "done"
         /\ UNCHANGED <<puzzle, board, spaces, occupied, arity, frames>>
BY DEF Search!Found, Search!tables

(* find_min_arity picks a cell among those that are left. *)
LEMMA EnterSays ==
  ASSUME SearchInv, Search!Enter
  PROVE  /\ at = "call" /\ Len(frames) < Len(spaces)
         /\ frames' = Append(frames, [guess |-> 0, modified |-> {}])
         /\ \E f \in (Len(frames) + 1)..Len(spaces) :
              spaces' = [spaces EXCEPT ![Len(frames) + 1] = spaces[f], ![f] = spaces[Len(frames) + 1]]
         /\ at' = "loop"
         /\ UNCHANGED <<puzzle, board, occupied, arity, result>>
<1> DEFINE place == Len(frames) + 1
           m == Len(spaces) - place + 1
           sizes == [i \in 1..m |-> Search!Arity(spaces[place - 1 + i])]
<1>1. /\ at = "call" /\ Len(frames) < Len(spaces)
      /\ frames' = Append(frames, [guess |-> 0, modified |-> {}])
      /\ spaces' = IF solver = "basic" THEN spaces ELSE Search!SwappedFrom(place)
      /\ at' = "loop"
      /\ UNCHANGED <<puzzle, board, occupied, arity, result>>
  BY DEF Search!Enter, Search!tables
<1>2. Len(frames) \in Nat /\ Len(spaces) \in Nat /\ place \in 1..Len(spaces) /\ m \in Nat \ {0}
  BY <1>1, Basics
<1>3. spaces \in Seq(Cells) /\ board \in Board /\ arity \in [Cells -> 0..NUM]
  BY DEF SearchInv, Types
<1>4. ASSUME NEW c \in Cells PROVE Search!Arity(c) \in Nat
  <2>1. Cardinality(Around(board, c)) \in 0..NUM
    BY <1>3, AroundType
  <2>2. NUM - Cardinality(Around(board, c)) \in Nat
    BY <2>1, NumType
  <2>3. arity[c] \in Nat
    BY <1>3, NumType
  <2>4. /\ Search!Around(board, c) = Around(board, c) /\ Search!NUM = NUM
        /\ Search!Cardinality(Around(board, c)) = Cardinality(Around(board, c))
    BY SameAround, SameBoard
  <2>5. Search!Arity(c) = IF solver = "cache" THEN arity[c] ELSE NUM - Cardinality(Around(board, c))
    BY <2>4 DEF Search!Arity
  <2> QED BY <2>2, <2>3, <2>5
<1>5. \A i \in 1..m : place - 1 + i \in place..Len(spaces) /\ place - 1 + i \in 1..Len(spaces)
  BY <1>2
<1>6. \A i \in 1..m : spaces[place - 1 + i] \in Cells
  BY <1>3, <1>5
<1>7. sizes \in [1..m -> Nat]
  BY <1>4, <1>6
<1>8. Search!Smallest(sizes) = Smallest(sizes)
  BY DEF Search!Smallest, Smallest
<1> HIDE DEF sizes
<1>9. Smallest(sizes) \in 1..m
  BY <1>2, <1>7, SmallestFound
<1> DEFINE f == place - 1 + Smallest(sizes)
<1>10. f \in place..Len(spaces)
  BY <1>5, <1>9
<1>11. Search!SwappedFrom(place) = [spaces EXCEPT ![place] = spaces[f], ![f] = spaces[place]]
  BY <1>8 DEF Search!SwappedFrom, sizes
<1>12. place \in place..Len(spaces) /\ [spaces EXCEPT ![place] = spaces[place], ![place] = spaces[place]] = spaces
  BY <1>2, <1>3
<1> HIDE DEF f
<1>13. \E h \in place..Len(spaces) : spaces' = [spaces EXCEPT ![place] = spaces[h], ![h] = spaces[place]]
  <2>1. CASE solver = "basic"
    BY <1>1, <1>12, <2>1
  <2>2. CASE solver # "basic"
    BY <1>1, <1>10, <1>11, <2>2
  <2> QED BY <2>1, <2>2
<1> QED BY <1>1, <1>13

(* A value is available for the cell of the loop when no neighbour has it. *)
LEMMA AvailableSays ==
  ASSUME SearchInv, at = "loop", NEW v \in Values
  PROVE  Search!Available(v, spaces[Len(frames)]) <=> v \notin Around(board, spaces[Len(frames)])
<1> DEFINE d == Len(frames)
<1>1. d \in 1..Len(spaces) /\ Len(spaces) \in Nat /\ Held = d - 1 /\ spaces[d] \in Cells
  BY Basics DEF Held
<1>2. board[spaces[d]] = 0
  BY <1>1 DEF SearchInv, Filled
<1>3. solver = "cache" => occupied[spaces[d]] = Occupied(board, spaces[d])
  BY <1>1 DEF SearchInv, TablesKept, TablesOf
<1>4. Occupied(board, spaces[d]) = Around(board, spaces[d])
  BY <1>2 DEF Occupied
<1> QED BY <1>3, <1>4, SameAround DEF Search!Available

LEMMA GuessesSays ==
  ASSUME SearchInv, at = "loop"
  PROVE  Search!Guesses =
           {g \in Values : g > frames[Len(frames)].guess /\ g \notin Around(board, spaces[Len(frames)])}
BY AvailableSays, SameBoard DEF Search!Guesses, Search!Top, Search!Cell

(* The lowest value left is taken. *)
LEMMA HoldSays ==
  ASSUME SearchInv, Search!Hold
  PROVE  LET d == Len(frames)
             cell == spaces[d]
         IN  /\ at = "loop" /\ at' = "call"
             /\ UNCHANGED <<puzzle, spaces, result>>
             /\ \E g \in Values :
                  LET m == IF solver = "cache" THEN StruckFor(board, cell, g) ELSE {}
                  IN  /\ g > frames[d].guess /\ g \notin Around(board, cell)
                      /\ \A v \in Values : v > frames[d].guess /\ v < g => v \in Around(board, cell)
                      /\ board' = Put(board, cell, g)
                      /\ frames' = [frames EXCEPT ![d] = [guess |-> g, modified |-> m]]
                      /\ solver = "cache" =>
                           /\ occupied' = [c \in Cells |->
                                IF c \in m \cup {cell} THEN occupied[c] \cup {g} ELSE occupied[c]]
                           /\ arity' = [c \in Cells |-> IF c \in m THEN arity[c] - 1 ELSE arity[c]]
                      /\ solver # "cache" => UNCHANGED <<occupied, arity>>
<1> DEFINE d == Len(frames)
           cell == spaces[d]
           g == Search!Min(Search!Guesses)
           m == IF solver = "cache" THEN StruckFor(board, cell, g) ELSE {}
<1>1. at = "loop" /\ at' = "call" /\ Search!Guesses # {} /\ UNCHANGED <<puzzle, spaces, result>>
  BY DEF Search!Hold
<1>2. Search!Guesses = {v \in Values : v > frames[d].guess /\ v \notin Around(board, cell)}
  BY <1>1, GuessesSays
<1>3. Search!Guesses \subseteq Nat
  BY <1>2, NumType DEF Values
<1>4. g \in Search!Guesses /\ \A v \in Search!Guesses : g <= v
  BY <1>1, <1>3, MinIsLeast
<1>5. d \in 1..Len(spaces) /\ Len(spaces) \in Nat /\ cell \in Cells
  BY <1>1, Basics
<1>6. solver = "cache" => Search!Struck(g) = StruckFor(board, cell, g)
  <2>1. \A n \in Neighbors(cell) : n \in Cells
    BY DEF Neighbors
  <2>2. solver = "cache" => \A n \in Neighbors(cell) : occupied[n] = Occupied(board, n)
    BY <2>1 DEF SearchInv, TablesKept, TablesOf
  <2>3. Search!Struck(g) = {n \in Neighbors(cell) : g \notin occupied[n]}
    BY SameBoard DEF Search!Struck, Search!Cell
  <2> QED BY <2>2, <2>3 DEF StruckFor
<1>7. /\ board' = Put(board, cell, g)
      /\ frames' = [frames EXCEPT ![d] = [guess |-> g, modified |-> m]]
      /\ solver = "cache" =>
           /\ occupied' = [c \in Cells |->
                IF c \in m \cup {cell} THEN occupied[c] \cup {g} ELSE occupied[c]]
           /\ arity' = [c \in Cells |-> IF c \in m THEN arity[c] - 1 ELSE arity[c]]
      /\ solver # "cache" => UNCHANGED <<occupied, arity>>
  <2>1. Search!Cell = cell
    BY DEF Search!Cell
  <2>2. (IF solver = "cache" THEN Search!Struck(g) ELSE {}) = m
    BY <1>6
  <2>3. board' = Put(board, cell, g)
    BY <2>1 DEF Search!Hold, Put
  <2>4. frames' = [frames EXCEPT ![d] = [guess |-> g, modified |-> m]]
    BY <2>2 DEF Search!Hold
  <2>5. CASE solver = "cache"
    <3>1. occupied' = [c \in Cells |->
             IF c \in m \cup {cell} THEN occupied[c] \cup {g} ELSE occupied[c]]
      BY <2>1, <2>2, <2>5, SameBoard DEF Search!Hold
    <3>2. arity' = [c \in Cells |-> IF c \in m THEN arity[c] - 1 ELSE arity[c]]
      BY <2>1, <2>2, <2>5, SameBoard DEF Search!Hold
    <3> QED BY <2>3, <2>4, <2>5, <3>1, <3>2
  <2>6. CASE solver # "cache"
    <3>1. UNCHANGED <<occupied, arity>>
      BY <2>6 DEF Search!Hold, Search!tables
    <3> QED BY <2>3, <2>4, <2>6, <3>1
  <2> QED BY <2>5, <2>6
<1> HIDE DEF g
<1>8. g \in Values /\ g > frames[d].guess /\ g \notin Around(board, cell)
  BY <1>2, <1>4
<1>9. ASSUME NEW v \in Values, v > frames[d].guess, v < g PROVE v \in Around(board, cell)
  <2>1. v \notin Search!Guesses
    BY <1>4, <1>8, <1>9, NumType DEF Values
  <2> QED BY <1>2, <1>9, <2>1
<1> HIDE DEF d, cell, m
<1> QED BY <1>1, <1>7, <1>8, <1>9 DEF d, cell, m

LEMMA UnholdSays ==
  ASSUME Search!Unhold
  PROVE  LET d == Len(frames)
             cell == spaces[d]
             g == frames[d].guess
             m == frames[d].modified
         IN  /\ at = "back" /\ at' = "loop"
             /\ board' = [board EXCEPT ![cell] = 0]
             /\ solver = "cache" =>
                  /\ occupied' = [c \in Cells |->
                       IF c \in m \cup {cell} THEN occupied[c] \ {g} ELSE occupied[c]]
                  /\ arity' = [c \in Cells |-> IF c \in m THEN arity[c] + 1 ELSE arity[c]]
             /\ solver # "cache" => UNCHANGED <<occupied, arity>>
             /\ UNCHANGED <<puzzle, spaces, frames, result>>
BY SameBoard DEF Search!Unhold, Search!Cleared, Search!Cell, Search!Top, Search!tables

LEMMA FailSays ==
  ASSUME SearchInv, Search!Fail
  PROVE  /\ at = "loop" /\ at' = IF Len(frames') = 0 THEN "done" ELSE "back"
         /\ frames' \in Seq(Frame) /\ Len(frames') = Len(frames) - 1
         /\ \A i \in 1..(Len(frames) - 1) : frames'[i] = frames[i]
         /\ \A v \in Values : v > frames[Len(frames)].guess => v \in Around(board, spaces[Len(frames)])
         /\ UNCHANGED <<puzzle, board, spaces, occupied, arity, result>>
<1> DEFINE d == Len(frames)
<1>1. /\ at = "loop" /\ at' = (IF frames' = <<>> THEN "done" ELSE "back")
      /\ Search!Guesses = {} /\ frames' = SubSeq(frames, 1, d - 1)
      /\ UNCHANGED <<puzzle, board, spaces, occupied, arity, result>>
  BY DEF Search!Fail, Search!Front, Search!tables
<1>2. frames \in Seq(Frame) /\ d \in Nat /\ d >= 1
  BY <1>1, Basics DEF SearchInv, Types
<1>3. frames' \in Seq(Frame) /\ Len(frames') = d - 1 /\ \A i \in 1..(d - 1) : frames'[i] = frames[i]
  <2> DEFINE e == d - 1
  <2>1. e \in Int /\ 1 \in Int /\ \A i \in 1..e : frames[i] \in Frame
    BY <1>2
  <2> HIDE DEF e
  <2>2. /\ SubSeq(frames, 1, e) \in Seq(Frame)
        /\ Len(SubSeq(frames, 1, e)) = IF 1 <= e THEN e - 1 + 1 ELSE 0
        /\ \A i \in 1..(e - 1 + 1) : SubSeq(frames, 1, e)[i] = frames[1 + i - 1]
    BY <2>1, SubSeqProperties
  <2>3. e \in Nat /\ frames' = SubSeq(frames, 1, e)
    BY <1>1, <1>2 DEF e
  <2>4. Len(frames') = e /\ frames' \in Seq(Frame)
    BY <2>2, <2>3
  <2>5. ASSUME NEW i \in 1..e PROVE frames'[i] = frames[i]
    <3>1. i \in 1..(e - 1 + 1) /\ 1 + i - 1 = i
      BY <2>3
    <3> QED BY <2>2, <2>3, <3>1
  <2> QED BY <2>4, <2>5 DEF e
<1>4. frames' = <<>> <=> Len(frames') = 0
  BY <1>3, EmptySeq
<1>5. \A v \in Values : v > frames[d].guess => v \in Around(board, spaces[d])
  BY <1>1, GuessesSays
<1> QED BY <1>1, <1>3, <1>4, <1>5

-----------------------------------------------------------------------------
(* The invariant is kept. *)

(* The board is what the calls that hold a guess have made of the puzzle. *)
LEMMA ReachedHeld ==
  ASSUME SearchInv
  PROVE  \A c \in Cells :
           board[c] = IF \E i \in 1..Held : spaces[i] = c THEN board[c] ELSE puzzle[c]
<1> TAKE c \in Cells
<1>1. CASE puzzle[c] # 0
  BY <1>1 DEF SearchInv, Filled, Blanks
<1>2. CASE puzzle[c] = 0
  <2>1. PICK i \in 1..Len(spaces) : spaces[i] = c
    BY <1>2 DEF SearchInv, Arranged, Blanks
  <2>2. CASE i <= Held
    BY <2>1, <2>2, Basics
  <2>3. CASE ~(i <= Held)
    <3>1. i \in (Held + 1)..Len(spaces)
      BY <2>3, Basics
    <3> QED BY <1>2, <2>1, <3>1 DEF SearchInv, Filled
  <2> QED BY <2>2, <2>3
<1> QED BY <1>1, <1>2

(* A cell that a call or a given fills is not blank, and no other is. *)
LEMMA FilledSays ==
  ASSUME SearchInv, NEW c \in Cells, board[c] # 0
  PROVE  \/ puzzle[c] # 0 /\ board[c] = puzzle[c]
         \/ \E i \in 1..Held : spaces[i] = c /\ board[c] = frames[i].guess
<1>1. CASE puzzle[c] # 0
  BY <1>1 DEF SearchInv, Filled, Blanks
<1>2. CASE puzzle[c] = 0
  <2>1. \E i \in 1..Held : spaces[i] = c
    BY <1>2, ReachedHeld
  <2> QED BY <2>1 DEF SearchInv, Filled
<1> QED BY <1>1, <1>2

(* A board that completes the puzzle and agrees with the guesses held has  *)
(* in the cell of the loop none of the values around it.                   *)
LEMMA NoneAround ==
  ASSUME SearchInv, at = "loop",
         NEW s \in [Cells -> Values], Completes(s, puzzle), Agrees(s, Len(frames) - 1)
  PROVE  s[spaces[Len(frames)]] \notin Around(board, spaces[Len(frames)])
<1> DEFINE cell == spaces[Len(frames)]
<1>1. Held = Len(frames) - 1 /\ cell \in Cells
  BY Basics DEF Held
<1>2. SUFFICES ASSUME s[cell] \in Around(board, cell) PROVE FALSE
  OBVIOUS
<1>3. PICK n \in Neighbors(cell) : board[n] = s[cell] /\ s[cell] # 0
  BY <1>2, AroundSays
<1>4. n \in Cells
  BY DEF Neighbors
<1>5. s[n] = board[n]
  <2>1. CASE puzzle[n] # 0 /\ board[n] = puzzle[n]
    BY <1>4, <2>1 DEF Completes
  <2>2. CASE \E i \in 1..Held : spaces[i] = n /\ board[n] = frames[i].guess
    BY <1>1, <2>2 DEF Agrees
  <2> QED BY <1>3, <1>4, <2>1, <2>2, FilledSays
<1>6. s[n] # s[cell]
  BY <1>1, SolvedApart DEF Completes
<1> QED BY <1>3, <1>5, <1>6

LEMMA ReachedSame ==
  ASSUME NEW k \in Nat, puzzle' = puzzle,
         \A i \in 1..k : spaces'[i] = spaces[i] /\ board'[spaces[i]] = board[spaces[i]]
  PROVE  Reached(k)' = Reached(k)
<1>1. Reached(k)' = [c \in Cells |-> IF \E i \in 1..k : spaces'[i] = c THEN board'[c] ELSE puzzle'[c]]
  BY DEF Reached
<1>2. \A c \in Cells : (\E i \in 1..k : spaces'[i] = c) <=> (\E i \in 1..k : spaces[i] = c)
  OBVIOUS
<1>3. \A c \in Cells : (\E i \in 1..k : spaces[i] = c) => board'[c] = board[c]
  OBVIOUS
<1> QED BY <1>1, <1>2, <1>3 DEF Reached

(* Frames that are left alone keep what they say, as long as the cells of  *)
(* the calls before them do.                                               *)
LEMMA FramesStay ==
  ASSUME SearchInv, solver = "cache", NEW h \in 0..Held, puzzle' = puzzle,
         \A i \in 1..h : /\ spaces'[i] = spaces[i] /\ board'[spaces[i]] = board[spaces[i]]
                         /\ frames'[i] = frames[i]
  PROVE  \A k \in 1..h :
           frames'[k].modified =
             {n \in Neighbors(spaces'[k]) : frames'[k].guess \notin Occupied(Reached(k - 1)', n)}
<1> TAKE k \in 1..h
<1>1. k \in 1..Held /\ k - 1 \in Nat /\ \A i \in 1..(k - 1) : i \in 1..h
  BY Basics
<1>2. Reached(k - 1)' = Reached(k - 1)
  <2> DEFINE e == k - 1
  <2>1. e \in Nat /\ \A i \in 1..e : spaces'[i] = spaces[i] /\ board'[spaces[i]] = board[spaces[i]]
    BY <1>1
  <2> HIDE DEF e
  <2>2. Reached(e)' = Reached(e)
    BY <2>1, ReachedSame
  <2> QED BY <2>2 DEF e
<1>3. frames[k].modified =
        {n \in Neighbors(spaces[k]) : frames[k].guess \notin Occupied(Reached(k - 1), n)}
  BY <1>1 DEF SearchInv, TablesKept, FramesKept
<1> QED BY <1>2, <1>3

LEMMA FoundKeeps ==
  ASSUME SearchInv, solver' = solver, Search!Found
  PROVE  SearchInv'
<1>1. /\ at = "call" /\ Len(frames) >= Len(spaces)
      /\ result' = TRUE /\ at' = "done"
      /\ UNCHANGED <<puzzle, board, spaces, occupied, arity, frames>>
  BY FoundSays
<1>2. Held' = Held
  BY <1>1 DEF Held
<1>3. Types'
  BY <1>1 DEF SearchInv, Types
<1>4. Depth'
  <2>1. Len(frames) = Len(spaces)
    BY <1>1, Basics DEF SearchInv, Depth
  <2> QED BY <1>1, <2>1 DEF Depth
<1>5. Arranged' /\ NoClash'
  BY <1>1 DEF SearchInv, Arranged, NoClash
<1>6. Filled'
  BY <1>1, <1>2 DEF SearchInv, Filled
<1>7. TablesKept'
  BY <1>1, <1>2 DEF SearchInv, TablesKept, TablesOf, FramesKept, Reached
<1>8. Refuted'
  <2> SUFFICES ASSUME NEW s \in [Cells -> Values], Completes(s, puzzle) PROVE RefutedFor(s)'
    BY <1>1 DEF Refuted
  <2>1. RefutedFor(s)
    BY DEF SearchInv, Refuted
  <2> QED BY <1>1, <2>1 DEF RefutedFor, Agrees
<1> QED BY <1>3, <1>4, <1>5, <1>6, <1>7, <1>8 DEF SearchInv

LEMMA EnterKeeps ==
  ASSUME SearchInv, solver' = solver, Search!Enter
  PROVE  SearchInv'
<1> DEFINE d == Len(frames)
           p == d + 1
           new == [guess |-> 0, modified |-> {}]
<1>1. /\ at = "call" /\ d < Len(spaces)
      /\ frames' = Append(frames, new)
      /\ at' = "loop"
      /\ UNCHANGED <<puzzle, board, occupied, arity, result>>
  BY EnterSays
<1>2. PICK f \in p..Len(spaces) : spaces' = [spaces EXCEPT ![p] = spaces[f], ![f] = spaces[p]]
  BY EnterSays
<1>3. /\ frames \in Seq(Frame) /\ spaces \in Seq(Cells) /\ d \in Nat /\ Len(spaces) \in Nat
      /\ p \in 1..Len(spaces) /\ f \in 1..Len(spaces)
  BY <1>1, <1>2, Basics DEF SearchInv, Types
<1>4. new \in Frame /\ new.guess = 0
  <2>1. 0 \in 0..NUM
    BY NumType
  <2> QED BY <2>1 DEF Frame
<1> HIDE DEF new
<1>5. /\ frames' \in Seq(Frame) /\ Len(frames') = p /\ frames'[p] = new
      /\ \A i \in 1..d : frames'[i] = frames[i]
  BY <1>1, <1>3, <1>4
<1>6. /\ spaces' \in Seq(Cells) /\ Len(spaces') = Len(spaces)
      /\ \A i \in 1..Len(spaces) :
           spaces'[i] = IF i = f THEN spaces[p] ELSE IF i = p THEN spaces[f] ELSE spaces[i]
  BY <1>2, <1>3
<1>7. \A i \in 1..d : spaces'[i] = spaces[i]
  BY <1>2, <1>3, <1>6
<1>8. Held = d /\ Held' = d
  BY <1>1, <1>3, <1>5 DEF Held
<1>9. Types'
  BY <1>1, <1>5, <1>6 DEF SearchInv, Types
<1>10. Depth'
  BY <1>1, <1>3, <1>5, <1>6 DEF SearchInv, Depth
<1>11. Arranged'
  <2>1. ASSUME NEW i \in 1..Len(spaces), NEW j \in 1..Len(spaces), spaces'[i] = spaces'[j] PROVE i = j
    <3>1. \A k, l \in 1..Len(spaces) : spaces[k] = spaces[l] => k = l
      BY DEF SearchInv, Arranged
    <3> QED BY <1>3, <1>6, <2>1, <3>1
  <2>2. ASSUME NEW c \in Blanks(puzzle) PROVE \E i \in 1..Len(spaces) : spaces'[i] = c
    <3>1. PICK i \in 1..Len(spaces) : spaces[i] = c
      BY DEF SearchInv, Arranged
    <3> QED BY <1>3, <1>6, <3>1
  <2>3. ASSUME NEW i \in 1..Len(spaces) PROVE spaces'[i] \in Blanks(puzzle)
    BY <1>3, <1>6 DEF SearchInv, Arranged
  <2> QED BY <1>1, <1>6, <2>1, <2>2, <2>3 DEF Arranged
<1>12. Filled'
  <2>1. \A c \in Cells \ Blanks(puzzle) : board[c] = puzzle[c]
    BY DEF SearchInv, Filled
  <2>2. \A i \in 1..d : board[spaces'[i]] = frames'[i].guess /\ frames'[i].guess \in Values
    BY <1>5, <1>7, <1>8 DEF SearchInv, Filled
  <2>3. ASSUME NEW i \in p..Len(spaces) PROVE board[spaces'[i]] = 0
    <3>1. \E j \in p..Len(spaces) : spaces'[i] = spaces[j]
      <4>1. i \in 1..Len(spaces) /\ p \in p..Len(spaces)
        BY <1>3
      <4> QED BY <1>6, <4>1
    <3>2. \A j \in (Held + 1)..Len(spaces) : board[spaces[j]] = 0
      BY DEF SearchInv, Filled
    <3> QED BY <1>8, <3>1, <3>2
  <2> QED BY <1>1, <1>6, <1>8, <2>1, <2>2, <2>3 DEF Filled
<1>13. NoClash'
  BY <1>1 DEF SearchInv, NoClash
<1>14. TablesKept'
  <2> SUFFICES ASSUME solver = "cache" PROVE TablesOf(board)' /\ FramesKept'
    BY DEF TablesKept
  <2>1. TablesOf(board)'
    BY <1>1 DEF SearchInv, TablesKept, TablesOf
  <2>2. \A i \in 1..d : spaces'[i] = spaces[i] /\ board'[spaces[i]] = board[spaces[i]] /\ frames'[i] = frames[i]
    BY <1>1, <1>5, <1>7
  <2>3. d \in 0..Held
    BY <1>3, <1>8
  <2> HIDE DEF d
  <2>4. \A k \in 1..d :
           frames'[k].modified =
             {n \in Neighbors(spaces'[k]) : frames'[k].guess \notin Occupied(Reached(k - 1)', n)}
    BY <1>1, <2>2, <2>3, FramesStay
  <2> QED BY <1>8, <2>1, <2>4 DEF FramesKept
<1>15. Refuted'
  <2> SUFFICES ASSUME NEW s \in [Cells -> Values], Completes(s, puzzle) PROVE RefutedFor(s)'
    BY <1>1 DEF Refuted
  <2>1. RefutedFor(s)
    BY DEF SearchInv, Refuted
  <2>2. ASSUME NEW k \in 1..p, Agrees(s, k - 1)'
        PROVE  /\ s[spaces'[k]] >= frames'[k].guess
               /\ k = p => s[spaces'[k]] # frames'[k].guess
    <3>1. CASE k = p
      <4>1. spaces'[p] \in Cells
        BY <1>3, <1>6
      <4>2. s[spaces'[p]] \in Values
        BY <4>1
      <4> QED BY <1>4, <1>5, <3>1, <4>2, NumType DEF Values
    <3>2. CASE k # p
      <4>1. k \in 1..d /\ \A i \in 1..(k - 1) : i \in 1..d
        BY <1>3, <3>2
      <4>2. Agrees(s, k - 1)
        BY <1>5, <1>7, <2>2, <4>1 DEF Agrees
      <4> QED BY <1>5, <1>7, <2>1, <3>2, <4>1, <4>2 DEF RefutedFor
    <3> QED BY <3>1, <3>2
  <2> QED BY <1>1, <1>5, <2>2 DEF RefutedFor
<1> QED BY <1>9, <1>10, <1>11, <1>12, <1>13, <1>14, <1>15 DEF SearchInv

LEMMA HoldKeeps ==
  ASSUME SearchInv, solver' = solver, Search!Hold
  PROVE  SearchInv'
<1> DEFINE d == Len(frames)
           cell == spaces[d]
<1>1. /\ at = "loop" /\ at' = "call"
      /\ UNCHANGED <<puzzle, spaces, result>>
  BY HoldSays
<1> DEFINE mod(g) == IF solver = "cache" THEN StruckFor(board, cell, g) ELSE {}
<1>2. \E g \in Values :
        /\ g > frames[d].guess /\ g \notin Around(board, cell)
        /\ \A v \in Values : v > frames[d].guess /\ v < g => v \in Around(board, cell)
        /\ board' = Put(board, cell, g)
        /\ frames' = [frames EXCEPT ![d] = [guess |-> g, modified |-> mod(g)]]
        /\ solver = "cache" =>
             /\ occupied' = [c \in Cells |->
                  IF c \in mod(g) \cup {cell} THEN occupied[c] \cup {g} ELSE occupied[c]]
             /\ arity' = [c \in Cells |-> IF c \in mod(g) THEN arity[c] - 1 ELSE arity[c]]
        /\ solver # "cache" => UNCHANGED <<occupied, arity>>
  BY HoldSays
<1>3. PICK g \in Values :
        /\ g > frames[d].guess /\ g \notin Around(board, cell)
        /\ \A v \in Values : v > frames[d].guess /\ v < g => v \in Around(board, cell)
        /\ board' = Put(board, cell, g)
        /\ frames' = [frames EXCEPT ![d] = [guess |-> g, modified |-> mod(g)]]
        /\ solver = "cache" =>
             /\ occupied' = [c \in Cells |->
                  IF c \in mod(g) \cup {cell} THEN occupied[c] \cup {g} ELSE occupied[c]]
             /\ arity' = [c \in Cells |-> IF c \in mod(g) THEN arity[c] - 1 ELSE arity[c]]
        /\ solver # "cache" => UNCHANGED <<occupied, arity>>
  BY <1>2
<1>4. /\ frames \in Seq(Frame) /\ spaces \in Seq(Cells) /\ d \in 1..Len(spaces) /\ Len(spaces) \in Nat
      /\ d \in Nat /\ cell \in Cells /\ puzzle[cell] = 0 /\ frames[d].guess \in 0..NUM
      /\ board \in Board /\ puzzle \in Board
  BY <1>1, Basics DEF SearchInv, Types
<1>5. Held = d - 1 /\ board[cell] = 0 /\ g \in 0..NUM /\ g # 0
  <2>1. Held = d - 1
    BY <1>1 DEF Held
  <2>2. d \in (Held + 1)..Len(spaces)
    BY <1>4, <2>1
  <2> QED BY <2>1, <2>2, NumType DEF SearchInv, Filled, Values
<1> DEFINE new == [guess |-> g, modified |-> mod(g)]
<1>6. new \in Frame /\ new.guess = g /\ new.modified = mod(g)
  <2>1. mod(g) \in SUBSET Cells
    BY DEF StruckFor, Neighbors
  <2> HIDE DEF mod
  <2> QED BY <1>5, <2>1 DEF Frame
<1> HIDE DEF mod, new
<1>7. /\ frames' \in Seq(Frame) /\ Len(frames') = d /\ frames'[d] = new
      /\ \A i \in 1..(d - 1) : frames'[i] = frames[i]
  <2>1. frames' = [frames EXCEPT ![d] = new]
    BY <1>3 DEF new
  <2> QED BY <1>4, <1>6, <2>1
<1>8. Held' = d
  BY <1>1, <1>7 DEF Held
<1>9. /\ board' \in Board /\ board'[cell] = g
      /\ \A c \in Cells \ {cell} : board'[c] = board[c]
  BY <1>3, <1>4, PutType
<1>10. \A i \in 1..Len(spaces) : spaces[i] \in Cells /\ (i # d => spaces[i] # cell)
  BY <1>4 DEF SearchInv, Arranged
<1>11. \A i \in 1..Len(spaces) : i # d => board'[spaces[i]] = board[spaces[i]]
  BY <1>9, <1>10
<1>12. solver = "cache" => TablesOf(board)'
  <2> SUFFICES ASSUME solver = "cache", NEW c \in Cells
               PROVE  occupied'[c] = Occupied(board', c) /\ arity'[c] = NUM - Cardinality(Around(board', c))
    BY DEF TablesOf
  <2> DEFINE m == StruckFor(board, cell, g)
             q == Put(board, cell, g)
  <2>1. mod(g) = m
    BY DEF mod
  <2>2. /\ Occupied(q, c) = IF c \in m \cup {cell} THEN Occupied(board, c) \cup {g} ELSE Occupied(board, c)
        /\ Cardinality(Around(q, c)) =
             IF c \in m THEN Cardinality(Around(board, c)) + 1 ELSE Cardinality(Around(board, c))
    <3>1. g \notin Around(board, cell) /\ cell \in Cells /\ board \in Board /\ board[cell] = 0
      BY <1>3, <1>4, <1>5
    <3> HIDE DEF cell
    <3> QED BY <3>1, TablesPut DEF m, q
  <2>3. occupied[c] = Occupied(board, c) /\ arity[c] = NUM - Cardinality(Around(board, c))
    BY DEF SearchInv, TablesKept, TablesOf
  <2>4. Cardinality(Around(board, c)) \in Nat
    BY <1>4, AroundType, NumType
  <2> HIDE DEF m, q
  <2>5. /\ occupied'[c] = IF c \in m \cup {cell} THEN occupied[c] \cup {g} ELSE occupied[c]
        /\ arity'[c] = IF c \in m THEN arity[c] - 1 ELSE arity[c]
    BY <1>3, <2>1
  <2>6. board' = q
    BY <1>3 DEF q
  <2>7. occupied'[c] = Occupied(q, c)
    BY <2>2, <2>3, <2>5
  <2>8. arity'[c] = NUM - Cardinality(Around(q, c))
    BY <2>2, <2>3, <2>4, <2>5, NumType
  <2> QED BY <2>6, <2>7, <2>8
<1>13. Types'
  <2>1. occupied' \in [Cells -> SUBSET Values] /\ arity' \in [Cells -> 0..NUM]
    <3>1. CASE solver # "cache"
      BY <1>3, <3>1 DEF SearchInv, Types
    <3>2. CASE solver = "cache"
      <4>1. \A c \in Cells : Occupied(board', c) \subseteq Values
        BY <1>9, AroundType, BoardHolds DEF Occupied
      <4>2. \A c \in Cells : NUM - Cardinality(Around(board', c)) \in 0..NUM
        BY <1>9, AroundType, NumType
      <4>3. \A c \in Cells : occupied'[c] \in SUBSET Values /\ arity'[c] \in 0..NUM
        BY <1>12, <3>2, <4>1, <4>2 DEF TablesOf
      <4>4. occupied' = [c \in Cells |-> occupied'[c]] /\ arity' = [c \in Cells |-> arity'[c]]
        <5>1. /\ occupied' = [c \in Cells |->
                   IF c \in mod(g) \cup {cell} THEN occupied[c] \cup {g} ELSE occupied[c]]
              /\ arity' = [c \in Cells |-> IF c \in mod(g) THEN arity[c] - 1 ELSE arity[c]]
          BY <1>3, <3>2
        <5> HIDE DEF cell
        <5> QED BY <5>1
      <4> QED BY <4>3, <4>4
    <3> QED BY <3>1, <3>2
  <2> QED BY <1>1, <1>7, <1>9, <2>1 DEF SearchInv, Types
<1>14. Depth'
  BY <1>1, <1>4, <1>7 DEF SearchInv, Depth
<1>15. Arranged'
  BY <1>1 DEF SearchInv, Arranged
<1>16. Filled'
  <2>1. ASSUME NEW c \in Cells \ Blanks(puzzle) PROVE board'[c] = puzzle[c]
    <3>1. c # cell
      BY <1>4 DEF Blanks
    <3> QED BY <1>9, <3>1 DEF SearchInv, Filled
  <2>2. ASSUME NEW i \in 1..d PROVE board'[spaces[i]] = frames'[i].guess /\ frames'[i].guess \in Values
    <3>1. CASE i = d
      BY <1>6, <1>7, <1>9, <3>1
    <3>2. CASE i # d
      <4>1. i \in 1..Held /\ i \in 1..(d - 1) /\ i \in 1..Len(spaces)
        BY <1>4, <1>5, <3>2
      <4> QED BY <1>7, <1>11, <3>2, <4>1 DEF SearchInv, Filled
    <3> QED BY <3>1, <3>2
  <2>3. ASSUME NEW i \in (d + 1)..Len(spaces) PROVE board'[spaces[i]] = 0
    <3>1. i \in (Held + 1)..Len(spaces) /\ i \in 1..Len(spaces) /\ i # d
      BY <1>4, <1>5
    <3> QED BY <1>11, <3>1 DEF SearchInv, Filled
  <2> QED BY <1>1, <1>8, <2>1, <2>2, <2>3 DEF Filled
<1>17. NoClash'
  <2> SUFFICES ASSUME NEW c \in Cells, board'[c] # 0, NEW n \in Neighbors(c) PROVE board'[n] # board'[c]
    BY DEF NoClash
  <2>1. n \in Cells /\ n # c /\ c \in Neighbors(n)
    BY NeighborsMutual DEF Neighbors
  <2>2. CASE c = cell
    <3>1. board[n] # g
      BY <1>3, <1>5, <2>2, AroundSays
    <3> QED BY <1>9, <2>1, <2>2, <3>1
  <2>3. CASE n = cell
    <3>1. board[c] # g
      BY <1>3, <1>5, <2>1, <2>3, AroundSays
    <3> QED BY <1>9, <2>1, <2>3, <3>1
  <2>4. CASE c # cell /\ n # cell
    BY <1>9, <2>1, <2>4 DEF SearchInv, NoClash
  <2> QED BY <2>2, <2>3, <2>4
<1>18. TablesKept'
  <2> SUFFICES ASSUME solver = "cache" PROVE TablesOf(board)' /\ FramesKept'
    BY DEF TablesKept
  <2>1. \A i \in 1..(d - 1) : /\ spaces'[i] = spaces[i] /\ board'[spaces[i]] = board[spaces[i]]
                              /\ frames'[i] = frames[i]
    <3>1. \A i \in 1..(d - 1) : i \in 1..Len(spaces) /\ i # d
      BY <1>4
    <3> QED BY <1>1, <1>7, <1>11, <3>1
  <2>2. d - 1 \in 0..Held /\ d - 1 \in Nat
    BY <1>4, <1>5
  <2>3. \A k \in 1..(d - 1) :
           frames'[k].modified =
             {n \in Neighbors(spaces'[k]) : frames'[k].guess \notin Occupied(Reached(k - 1)', n)}
    <3> DEFINE e == d - 1
    <3>1. e \in 0..Held /\ \A i \in 1..e : /\ spaces'[i] = spaces[i] /\ board'[spaces[i]] = board[spaces[i]]
                                           /\ frames'[i] = frames[i]
      BY <2>1, <2>2
    <3> HIDE DEF e
    <3>2. \A k \in 1..e :
           frames'[k].modified =
             {n \in Neighbors(spaces'[k]) : frames'[k].guess \notin Occupied(Reached(k - 1)', n)}
      BY <1>1, <3>1, FramesStay
    <3> QED BY <3>2 DEF e
  <2>4. ASSUME NEW k \in 1..d, k = d PROVE Reached(k - 1)' = board
    <3>1. Reached(k - 1)' = [c \in Cells |-> IF \E i \in 1..(k - 1) : spaces[i] = c THEN board'[c] ELSE puzzle[c]]
      BY <1>1 DEF Reached
    <3>2. ASSUME NEW c \in Cells
          PROVE  board[c] = IF \E i \in 1..(k - 1) : spaces[i] = c THEN board'[c] ELSE puzzle[c]
      <4>1. board[c] = IF \E i \in 1..(k - 1) : spaces[i] = c THEN board[c] ELSE puzzle[c]
        BY <1>5, <2>4, ReachedHeld
      <4>2. (\E i \in 1..(k - 1) : spaces[i] = c) => board'[c] = board[c]
        BY <2>1, <2>4
      <4> QED BY <4>1, <4>2
    <3>3. board = [c \in Cells |-> board[c]]
      BY <1>4 DEF Board
    <3> QED BY <3>1, <3>2, <3>3
  <2>5. ASSUME NEW k \in 1..d, k = d
        PROVE  frames'[k].modified =
                 {n \in Neighbors(spaces'[k]) : frames'[k].guess \notin Occupied(Reached(k - 1)', n)}
    <3>1. frames'[k].modified = StruckFor(board, spaces[k], g) /\ frames'[k].guess = g
      BY <1>6, <1>7, <2>5 DEF mod
    <3>2. Reached(k - 1)' = board /\ spaces'[k] = spaces[k]
      BY <1>1, <2>4, <2>5
    <3> QED BY <3>1, <3>2 DEF StruckFor
  <2>6. \A k \in 1..d : k \in 1..(d - 1) \/ k = d
    BY <1>4
  <2>7. ASSUME NEW k \in 1..Held'
        PROVE  frames'[k].modified =
                 {n \in Neighbors(spaces'[k]) : frames'[k].guess \notin Occupied(Reached(k - 1)', n)}
    <3>1. k \in 1..d
      BY <1>8
    <3> HIDE DEF d
    <3> QED BY <2>3, <2>5, <2>6, <3>1
  <2> QED BY <1>12, <2>7 DEF FramesKept
<1>19. Refuted'
  <2> SUFFICES ASSUME NEW s \in [Cells -> Values], Completes(s, puzzle) PROVE RefutedFor(s)'
    BY <1>1 DEF Refuted
  <2>1. RefutedFor(s)
    BY DEF SearchInv, Refuted
  <2>2. ASSUME NEW k \in 1..d, Agrees(s, k - 1)' PROVE s[spaces[k]] >= frames'[k].guess
    <3>1. \A i \in 1..(k - 1) : i \in 1..(d - 1)
      BY <1>4
    <3>2. Agrees(s, k - 1)
      BY <1>1, <1>7, <2>2, <3>1 DEF Agrees
    <3>3. CASE k # d
      <4>1. k \in 1..(d - 1)
        BY <1>4, <3>3
      <4> QED BY <1>7, <2>1, <3>2, <4>1 DEF RefutedFor
    <3>4. CASE k = d
      <4>1. s[cell] >= frames[d].guess /\ s[cell] # frames[d].guess
        BY <1>1, <2>1, <3>2, <3>4 DEF RefutedFor
      <4>2. s[cell] \in Values /\ s[cell] \in Nat /\ g \in Nat /\ frames[d].guess \in Nat
        BY <1>4, NumType DEF Values
      <4>3. s[cell] > frames[d].guess
        BY <4>1, <4>2
      <4>4. s[cell] \notin Around(board, cell)
        BY <1>1, <3>2, <3>4, NoneAround
      <4>5. ~(s[cell] < g)
        BY <1>3, <4>2, <4>3, <4>4
      <4> QED BY <1>6, <1>7, <3>4, <4>2, <4>5
    <3> QED BY <3>3, <3>4
  <2> QED BY <1>1, <1>7, <2>2 DEF RefutedFor
<1> QED BY <1>13, <1>14, <1>15, <1>16, <1>17, <1>18, <1>19 DEF SearchInv

LEMMA UnholdKeeps ==
  ASSUME SearchInv, solver' = solver, Search!Unhold
  PROVE  SearchInv'
<1> DEFINE d == Len(frames)
           cell == spaces[d]
           g == frames[d].guess
           m == frames[d].modified
<1>1. /\ at = "back" /\ at' = "loop"
      /\ board' = [board EXCEPT ![cell] = 0]
      /\ solver = "cache" =>
           /\ occupied' = [c \in Cells |->
                IF c \in m \cup {cell} THEN occupied[c] \ {g} ELSE occupied[c]]
           /\ arity' = [c \in Cells |-> IF c \in m THEN arity[c] + 1 ELSE arity[c]]
      /\ solver # "cache" => UNCHANGED <<occupied, arity>>
      /\ UNCHANGED <<puzzle, spaces, frames, result>>
  BY UnholdSays
<1>2. /\ d \in 1..Len(spaces) /\ Len(spaces) \in Nat /\ d \in Nat
      /\ cell \in Cells /\ puzzle[cell] = 0 /\ board \in Board /\ puzzle \in Board
      /\ spaces \in Seq(Cells)
  BY <1>1, Basics DEF SearchInv, Types
<1>3. Held = d /\ Held' = d - 1
  BY <1>1, <1>2 DEF Held
<1>4. board[cell] = g /\ g \in Values /\ g # 0
  <2>1. d \in 1..Held
    BY <1>2, <1>3
  <2> QED BY <2>1, NumType DEF SearchInv, Filled, Values
<1>5. \A i \in 1..Len(spaces) : spaces[i] \in Cells /\ (i # d => spaces[i] # cell)
  BY <1>2 DEF SearchInv, Arranged
<1> HIDE DEF cell, g, m
<1>6. /\ board' \in Board /\ board'[cell] = 0
      /\ \A c \in Cells \ {cell} : board'[c] = board[c]
  <2>1. 0 \in 0..NUM
    BY NumType
  <2> QED BY <1>1, <1>2, <2>1 DEF Board
<1>7. board = Put(board', cell, g)
  BY <1>2, <1>4, <1>6 DEF Put, Board
<1>8. g \notin Around(board', cell)
  <2>1. ASSUME NEW n \in Neighbors(cell) PROVE board'[n] # g
    <3>1. n \in Cells /\ n # cell
      BY DEF Neighbors
    <3>2. board[n] # board[cell]
      BY <1>2, <1>4 DEF SearchInv, NoClash
    <3> QED BY <1>4, <1>6, <3>1, <3>2
  <2> QED BY <2>1, AroundSays
<1>9. \A i \in 1..Len(spaces) : i # d => board'[spaces[i]] = board[spaces[i]]
  BY <1>5, <1>6
<1>10. ASSUME NEW k \in 1..Len(frames), k = d PROVE Reached(k - 1) = board'
  <2>1. Reached(k - 1) = [c \in Cells |-> IF \E i \in 1..(k - 1) : spaces[i] = c THEN board[c] ELSE puzzle[c]]
    BY DEF Reached
  <2>2. ASSUME NEW c \in Cells
        PROVE  board'[c] = IF \E i \in 1..(k - 1) : spaces[i] = c THEN board[c] ELSE puzzle[c]
    <3>1. board[c] = IF \E i \in 1..k : spaces[i] = c THEN board[c] ELSE puzzle[c]
      BY <1>3, <1>10, ReachedHeld
    <3>2. CASE c = cell
      <4>1. ~ \E i \in 1..(k - 1) : spaces[i] = c
        <5>1. \A i \in 1..(k - 1) : i \in 1..Len(spaces) /\ i # d
          BY <1>2, <1>10
        <5> QED BY <1>5, <3>2, <5>1
      <4> QED BY <1>2, <1>6, <3>2, <4>1
    <3>3. CASE c # cell
      <4>1. (\E i \in 1..k : spaces[i] = c) <=> \E i \in 1..(k - 1) : spaces[i] = c
        <5>1. \A i \in 1..k : i \in 1..(k - 1) \/ i = d
          BY <1>2, <1>10
        <5>2. \A i \in 1..(k - 1) : i \in 1..k
          BY <1>2, <1>10
        <5> QED BY <3>3, <5>1, <5>2 DEF cell
      <4> QED BY <1>6, <3>1, <3>3, <4>1
    <3> QED BY <3>2, <3>3
  <2>3. board' = [c \in Cells |-> board'[c]]
    BY <1>6 DEF Board
  <2> QED BY <2>1, <2>2, <2>3
<1>11. solver = "cache" => m = StruckFor(board', cell, g)
  <2> SUFFICES ASSUME solver = "cache" PROVE m = StruckFor(board', cell, g)
    OBVIOUS
  <2>1. PICK k \in 1..Len(frames) : k = d
    BY <1>2
  <2>2. frames[k].modified =
          {n \in Neighbors(spaces[k]) : frames[k].guess \notin Occupied(Reached(k - 1), n)}
    BY <1>3, <2>1 DEF SearchInv, TablesKept, FramesKept
  <2>3. Reached(k - 1) = board'
    BY <1>10, <2>1
  <2> QED BY <2>1, <2>2, <2>3 DEF StruckFor, m, g, cell
<1>12. solver = "cache" => TablesOf(board)'
  <2> SUFFICES ASSUME solver = "cache", NEW c \in Cells
               PROVE  occupied'[c] = Occupied(board', c) /\ arity'[c] = NUM - Cardinality(Around(board', c))
    BY DEF TablesOf
  <2> DEFINE b == board'
             q == Put(b, cell, g)
             st == StruckFor(b, cell, g)
  <2>1. b \in Board /\ b[cell] = 0 /\ g \notin Around(b, cell)
    BY <1>6, <1>8
  <2> HIDE DEF b
  <2>2. /\ Occupied(b, c) = IF c \in st \cup {cell} THEN Occupied(q, c) \ {g} ELSE Occupied(q, c)
        /\ Cardinality(Around(q, c)) =
             IF c \in st THEN Cardinality(Around(b, c)) + 1 ELSE Cardinality(Around(b, c))
    BY <1>2, <1>4, <2>1, TablesPut
  <2>3. Cardinality(Around(b, c)) \in Nat
    BY <2>1, AroundType, NumType
  <2> HIDE DEF q, st
  <2>4. board = q /\ st = m
    BY <1>7, <1>11 DEF q, st, b
  <2>5. occupied[c] = Occupied(q, c) /\ arity[c] = NUM - Cardinality(Around(q, c))
    BY <2>4 DEF SearchInv, TablesKept, TablesOf
  <2>6. /\ occupied'[c] = IF c \in m \cup {cell} THEN occupied[c] \ {g} ELSE occupied[c]
        /\ arity'[c] = IF c \in m THEN arity[c] + 1 ELSE arity[c]
    BY <1>1
  <2>7. occupied'[c] = Occupied(b, c)
    BY <2>2, <2>4, <2>5, <2>6
  <2>8. arity'[c] = NUM - Cardinality(Around(b, c))
    BY <2>2, <2>3, <2>4, <2>5, <2>6, NumType
  <2> QED BY <2>7, <2>8 DEF b
<1>13. Types'
  <2>1. occupied' \in [Cells -> SUBSET Values] /\ arity' \in [Cells -> 0..NUM]
    <3>1. CASE solver # "cache"
      BY <1>1, <3>1 DEF SearchInv, Types
    <3>2. CASE solver = "cache"
      <4>1. \A c \in Cells : Occupied(board', c) \subseteq Values
        BY <1>6, AroundType, BoardHolds DEF Occupied
      <4>2. \A c \in Cells : NUM - Cardinality(Around(board', c)) \in 0..NUM
        BY <1>6, AroundType, NumType
      <4>3. \A c \in Cells : occupied'[c] \in SUBSET Values /\ arity'[c] \in 0..NUM
        BY <1>12, <3>2, <4>1, <4>2 DEF TablesOf
      <4>4. occupied' = [c \in Cells |-> occupied'[c]] /\ arity' = [c \in Cells |-> arity'[c]]
        BY <1>1, <3>2
      <4> QED BY <4>3, <4>4
    <3> QED BY <3>1, <3>2
  <2> QED BY <1>1, <1>6, <2>1 DEF SearchInv, Types
<1>14. Depth'
  BY <1>1, <1>2 DEF SearchInv, Depth
<1>15. Arranged'
  BY <1>1 DEF SearchInv, Arranged
<1>16. Filled'
  <2>1. ASSUME NEW c \in Cells \ Blanks(puzzle) PROVE board'[c] = puzzle[c]
    <3>1. c # cell
      BY <1>2 DEF Blanks
    <3> QED BY <1>6, <3>1 DEF SearchInv, Filled
  <2>2. ASSUME NEW i \in 1..(d - 1) PROVE board'[spaces[i]] = frames[i].guess /\ frames[i].guess \in Values
    <3>1. i \in 1..Held /\ i \in 1..Len(spaces) /\ i # d
      BY <1>2, <1>3
    <3> QED BY <1>9, <3>1 DEF SearchInv, Filled
  <2>3. ASSUME NEW i \in d..Len(spaces) PROVE board'[spaces[i]] = 0
    <3>1. CASE i = d
      BY <1>6, <3>1 DEF cell
    <3>2. CASE i # d
      <4>1. i \in (Held + 1)..Len(spaces) /\ i \in 1..Len(spaces)
        BY <1>2, <1>3, <3>2
      <4> QED BY <1>9, <3>2, <4>1 DEF SearchInv, Filled
    <3> QED BY <3>1, <3>2
  <2>4. Held' + 1 = d /\ Held' = d - 1
    BY <1>2, <1>3
  <2> QED BY <1>1, <2>1, <2>2, <2>3, <2>4 DEF Filled
<1>17. NoClash'
  <2> SUFFICES ASSUME NEW c \in Cells, board'[c] # 0, NEW n \in Neighbors(c) PROVE board'[n] # board'[c]
    BY DEF NoClash
  <2>1. n \in Cells /\ c # cell /\ board'[c] = board[c]
    BY <1>6 DEF Neighbors
  <2> QED BY <1>6, <2>1 DEF SearchInv, NoClash
<1>18. TablesKept'
  <2> SUFFICES ASSUME solver = "cache" PROVE TablesOf(board)' /\ FramesKept'
    BY DEF TablesKept
  <2> DEFINE e == d - 1
  <2>1. \A i \in 1..e : /\ spaces'[i] = spaces[i] /\ board'[spaces[i]] = board[spaces[i]]
                        /\ frames'[i] = frames[i]
    <3>1. \A i \in 1..e : i \in 1..Len(spaces) /\ i # d
      BY <1>2
    <3> QED BY <1>1, <1>9, <3>1
  <2>2. e \in 0..Held
    BY <1>2, <1>3
  <2> HIDE DEF e
  <2>3. \A k \in 1..e :
           frames'[k].modified =
             {n \in Neighbors(spaces'[k]) : frames'[k].guess \notin Occupied(Reached(k - 1)', n)}
    BY <1>1, <2>1, <2>2, FramesStay
  <2>4. Held' = e
    BY <1>3 DEF e
  <2> QED BY <1>12, <2>3, <2>4 DEF FramesKept
<1>19. Refuted'
  <2> SUFFICES ASSUME NEW s \in [Cells -> Values], Completes(s, puzzle) PROVE RefutedFor(s)'
    BY <1>1 DEF Refuted
  <2>1. RefutedFor(s)
    BY DEF SearchInv, Refuted
  <2> QED BY <1>1, <2>1 DEF RefutedFor, Agrees
<1> QED BY <1>13, <1>14, <1>15, <1>16, <1>17, <1>18, <1>19 DEF SearchInv

LEMMA FailKeeps ==
  ASSUME SearchInv, solver' = solver, Search!Fail
  PROVE  SearchInv'
<1> DEFINE d == Len(frames)
           cell == spaces[d]
           e == d - 1
<1>1. /\ at = "loop" /\ at' = (IF Len(frames') = 0 THEN "done" ELSE "back")
      /\ frames' \in Seq(Frame) /\ Len(frames') = e
      /\ \A i \in 1..e : frames'[i] = frames[i]
      /\ \A v \in Values : v > frames[d].guess => v \in Around(board, cell)
      /\ UNCHANGED <<puzzle, board, spaces, occupied, arity, result>>
  BY FailSays
<1>2. /\ d \in 1..Len(spaces) /\ Len(spaces) \in Nat /\ d \in Nat /\ e \in Nat
      /\ cell \in Cells /\ frames[d].guess \in 0..NUM
  BY <1>1, Basics
<1>3. Held = e /\ Held' = e
  BY <1>1 DEF Held
<1>4. ~result
  BY <1>1 DEF SearchInv, Depth
<1>5. Types'
  BY <1>1 DEF SearchInv, Types
<1>6. Depth'
  BY <1>1, <1>2, <1>4 DEF Depth
<1>7. Arranged' /\ NoClash'
  BY <1>1 DEF SearchInv, Arranged, NoClash
<1>8. Filled'
  <2>1. \A i \in 1..e : board[spaces[i]] = frames[i].guess /\ frames[i].guess \in Values
    BY <1>3 DEF SearchInv, Filled
  <2>2. \A i \in (e + 1)..Len(spaces) : board[spaces[i]] = 0
    BY <1>3 DEF SearchInv, Filled
  <2>3. \A c \in Cells \ Blanks(puzzle) : board[c] = puzzle[c]
    BY DEF SearchInv, Filled
  <2> HIDE DEF e
  <2> QED BY <1>1, <1>3, <2>1, <2>2, <2>3 DEF Filled
<1>9. TablesKept'
  <2> SUFFICES ASSUME solver = "cache" PROVE TablesOf(board)' /\ FramesKept'
    BY DEF TablesKept
  <2>1. TablesOf(board)'
    BY <1>1 DEF SearchInv, TablesKept, TablesOf
  <2>2. e \in 0..Held
    BY <1>2, <1>3
  <2> HIDE DEF e
  <2>3. \A k \in 1..e :
           frames'[k].modified =
             {n \in Neighbors(spaces'[k]) : frames'[k].guess \notin Occupied(Reached(k - 1)', n)}
    BY <1>1, <2>2, FramesStay
  <2> QED BY <1>3, <2>1, <2>3 DEF FramesKept
<1>10. Refuted'
  <2> SUFFICES ASSUME NEW s \in [Cells -> Values], Completes(s, puzzle) PROVE RefutedFor(s)'
    BY <1>1 DEF Refuted
  <2>1. RefutedFor(s)
    BY DEF SearchInv, Refuted
  <2>2. ~ Agrees(s, e)
    <3> SUFFICES ASSUME Agrees(s, e) PROVE FALSE
      OBVIOUS
    <3>1. s[cell] >= frames[d].guess /\ s[cell] # frames[d].guess
      BY <1>1, <1>2, <2>1 DEF RefutedFor
    <3>2. s[cell] \in Values /\ s[cell] \in Nat /\ frames[d].guess \in Nat
      BY <1>2, NumType DEF Values
    <3>3. s[cell] \in Around(board, cell)
      BY <1>1, <3>1, <3>2
    <3> QED BY <1>1, <3>3, NoneAround
  <2>3. ~(e = 0)
    <3>1. Agrees(s, 0)
      BY DEF Agrees
    <3> HIDE DEF e
    <3> QED BY <2>2, <3>1
  <2>4. ASSUME NEW k \in 1..e, Agrees(s, k - 1)'
        PROVE  s[spaces[k]] >= frames[k].guess /\ (k = e => s[spaces[k]] # frames[k].guess)
    <3>1. \A i \in 1..(k - 1) : i \in 1..e
      BY <1>2
    <3>2. Agrees(s, k - 1)
      BY <1>1, <2>4, <3>1 DEF Agrees
    <3>3. k \in 1..d
      BY <1>2
    <3>4. s[spaces[k]] >= frames[k].guess
      BY <2>1, <3>2, <3>3 DEF RefutedFor
    <3>5. k = e => s[spaces[k]] # frames[k].guess
      <4> SUFFICES ASSUME k = e, s[spaces[k]] = frames[k].guess PROVE FALSE
        OBVIOUS
      <4>1. \A i \in 1..e : i \in 1..(k - 1) \/ i = k
        BY <1>2
      <4>2. Agrees(s, e)
        BY <3>2, <4>1 DEF Agrees
      <4> QED BY <2>2, <4>2
    <3> QED BY <3>4, <3>5
  <2> HIDE DEF e
  <2> QED BY <1>1, <2>3, <2>4 DEF RefutedFor
<1> QED BY <1>5, <1>6, <1>7, <1>8, <1>9, <1>10 DEF SearchInv

(* find_spaces() lists each blank cell once. *)
LEMMA BlanksListed ==
  ASSUME NEW p \in Board
  PROVE  /\ Search!BlankCells(p) \in Seq(Cells)
         /\ Len(Search!BlankCells(p)) = Cardinality(Blanks(p))
         /\ Cardinality(Blanks(p)) \in Nat
         /\ \A i \in 1..Cardinality(Blanks(p)) : Search!BlankCells(p)[i] \in Blanks(p)
         /\ \A i, j \in 1..Cardinality(Blanks(p)) :
              Search!BlankCells(p)[i] = Search!BlankCells(p)[j] => i = j
         /\ \A c \in Blanks(p) : \E i \in 1..Cardinality(Blanks(p)) : Search!BlankCells(p)[i] = c
<1> DEFINE S == Blanks(p)
           n == Cardinality(S)
           list == Search!BlankCells(p)
<1>1. IsFiniteSet(S) /\ S \subseteq Cells /\ S \subseteq Nat
  <2>1. NUM * NUM - 1 \in Int /\ 0 \in Int
    BY NumType
  <2>2. IsFiniteSet(Cells)
    BY <2>1, FS_Interval DEF Cells
  <2>3. S \in SUBSET Cells
    BY DEF Blanks
  <2>4. Cells \subseteq Nat
    BY <2>1 DEF Cells
  <2> QED BY <2>2, <2>3, <2>4, FS_Subset
<1>2. list = Ascending(S)
  BY SameBoard DEF Search!BlankCells
<1> HIDE DEF list, S
<1>3. /\ n \in Nat /\ list \in [1..n -> S]
      /\ \A i, j \in 1..n : i < j <=> list[i] < list[j]
      /\ \A c \in S : \E i \in 1..n : list[i] = c
  BY <1>1, <1>2, Listed
<1> HIDE DEF n
<1>4. list \in [1..n -> Cells]
  BY <1>1, <1>3
<1>5. list \in Seq(Cells) /\ Len(list) = n
  BY <1>3, <1>4
<1>6. ASSUME NEW i \in 1..n, NEW j \in 1..n, list[i] = list[j] PROVE i = j
  <2>1. list[i] \in Nat
    BY <1>1, <1>3
  <2>2. ~(i < j) /\ ~(j < i)
    BY <1>3, <1>6, <2>1
  <2> QED BY <1>3, <2>2
<1> QED BY <1>3, <1>5, <1>6 DEF list, S, n

LEMMA SearchStarts ==
  ASSUME NEW p \in Consistent, NEW s \in Search!Solvers, Search!Init(p, s)
  PROVE  SearchInv
<1>1. /\ solver = s /\ puzzle = p /\ board = p
      /\ spaces = Search!BlankCells(p)
      /\ occupied = [c \in Cells |-> Occupied(p, c)]
      /\ arity = [c \in Cells |-> NUM - Cardinality(Around(p, c))]
      /\ frames = <<>> /\ at = "call" /\ result = FALSE
  BY SameBoard, SameAround DEF Search!Init, Occupied
<1>2. p \in Board
  BY ConsistentAssumption
<1>3. frames \in Seq(Frame) /\ Len(frames) = 0 /\ Held = 0
  BY <1>1 DEF Held
<1>4. /\ spaces \in Seq(Cells) /\ Len(spaces) \in Nat
      /\ \A i \in 1..Len(spaces) : spaces[i] \in Blanks(p)
      /\ \A i, j \in 1..Len(spaces) : spaces[i] = spaces[j] => i = j
      /\ \A c \in Blanks(p) : \E i \in 1..Len(spaces) : spaces[i] = c
  BY <1>1, <1>2, BlanksListed
<1>5. Types
  <2>1. \A c \in Cells : Occupied(p, c) \in SUBSET Values
    BY <1>2, AroundType, BoardHolds DEF Occupied
  <2>2. \A c \in Cells : NUM - Cardinality(Around(p, c)) \in 0..NUM
    BY <1>2, AroundType, NumType
  <2> QED BY <1>1, <1>2, <1>3, <1>4, <2>1, <2>2 DEF Types, Search!Solvers
<1>6. Depth
  BY <1>1, <1>3, <1>4 DEF Depth
<1>7. Arranged
  BY <1>1, <1>4 DEF Arranged
<1>8. Filled
  BY <1>1, <1>3, <1>4 DEF Filled, Blanks
<1>9. NoClash
  <2>1. \A c \in Cells \ Blanks(p) : \A n \in Neighbors(c) : p[n] # p[c]
    BY ConsistentAssumption
  <2> QED BY <1>1, <2>1 DEF NoClash, Blanks
<1>10. TablesKept
  BY <1>1, <1>3 DEF TablesKept, TablesOf, FramesKept
<1>11. Refuted
  BY <1>1, <1>3 DEF Refuted, RefutedFor
<1> QED BY <1>5, <1>6, <1>7, <1>8, <1>9, <1>10, <1>11 DEF SearchInv

LEMMA InvInit == Init => Inv
<1> SUFFICES ASSUME Init, solver # "dancing_links" PROVE SearchInv
  BY DEF Inv
<1>1. \E p \in Consistent, s \in Search!Solvers : Search!Init(p, s)
  BY DEF Init
<1> QED BY <1>1, SearchStarts

LEMMA InvNext == Inv /\ [Next]_vars => Inv'
<1> SUFFICES ASSUME Inv, [Next]_vars, solver' # "dancing_links" PROVE SearchInv'
  BY DEF Inv
<1>1. solver' = solver
  BY DEF Next, vars, Search!Next, Search!Found, Search!Enter, Search!Hold, Search!Unhold, Search!Fail
<1>2. SearchInv
  BY <1>1 DEF Inv
<1>3. CASE Search!Next
  <2>1. CASE Search!Found
    BY <1>1, <1>2, <2>1, FoundKeeps
  <2>2. CASE Search!Enter
    BY <1>1, <1>2, <2>2, EnterKeeps
  <2>3. CASE Search!Hold
    BY <1>1, <1>2, <2>3, HoldKeeps
  <2>4. CASE Search!Unhold
    BY <1>1, <1>2, <2>4, UnholdKeeps
  <2>5. CASE Search!Fail
    BY <1>1, <1>2, <2>5, FailKeeps
  <2> QED BY <1>3, <2>1, <2>2, <2>3, <2>4, <2>5 DEF Search!Next
<1>4. CASE UNCHANGED vars
  <2>1. UNCHANGED <<solver, puzzle, board, spaces, occupied, arity, frames, at, result>>
    BY <1>4 DEF vars, links, search
  <2>2. Types' /\ Depth' /\ Arranged' /\ NoClash'
    BY <1>2, <2>1 DEF SearchInv, Types, Depth, Arranged, NoClash
  <2>3. Held' = Held
    BY <2>1 DEF Held
  <2>4. Filled'
    BY <1>2, <2>1, <2>3 DEF SearchInv, Filled
  <2>5. TablesKept'
    BY <1>2, <2>1, <2>3 DEF SearchInv, TablesKept, TablesOf, FramesKept, Reached
  <2>6. Refuted'
    <3> SUFFICES ASSUME NEW s \in [Cells -> Values], Completes(s, puzzle) PROVE RefutedFor(s)'
      BY <2>1 DEF Refuted
    <3>1. RefutedFor(s)
      BY <1>2 DEF SearchInv, Refuted
    <3> QED BY <2>1, <3>1 DEF RefutedFor, Agrees
  <2> QED BY <2>2, <2>4, <2>5, <2>6 DEF SearchInv
<1> QED BY <1>1, <1>3, <1>4 DEF Next

LEMMA Invariance == Spec => []Inv
<1> QED BY InvInit, InvNext, PTL DEF Spec

-----------------------------------------------------------------------------
(* Theorems. *)

(* Every variable of the three searches keeps its type, for any size of box. *)
THEOREM SearchTypes == Spec => [](solver # "dancing_links" => Search!TypeOK)
<1>1. Inv => (solver # "dancing_links" => Search!TypeOK)
  BY SameTypes DEF Inv, SearchInv
<1> QED BY <1>1, Invariance, PTL

(* spaces stays an arrangement of the blank cells although find_min_arity  *)
(* reorders it in every call: those of the calls in progress hold a guess  *)
(* no neighbour has, the others are blank.                                 *)
THEOREM SpacesStaySplit == Spec => []SpacesSplit
<1>1. ASSUME Inv, solver # "dancing_links" PROVE Search!SpacesSplit
  <2> DEFINE n == Len(spaces)
             h == Held
             rest == SubSeq(spaces, h + 1, n)
  <2>1. SearchInv
    BY <1>1 DEF Inv
  <2>2. /\ spaces \in Seq(Cells) /\ n \in Nat /\ h \in Nat /\ h <= n
        /\ \A i \in 1..n : spaces[i] \in Cells /\ puzzle[spaces[i]] = 0
    BY <2>1, Basics DEF SearchInv, Types, Depth
  <2>3. Search!Held = h /\ Search!Blanks(puzzle) = Blanks(puzzle) /\ Search!Blanks(board) = Blanks(board)
    BY SameHeld, SameBoard
  <2>4. Search!ToSet(spaces) = Blanks(puzzle)
    <3>1. \A c : c \in Search!ToSet(spaces) <=> \E i \in 1..n : spaces[i] = c
      BY <2>2 DEF Search!ToSet
    <3> QED BY <2>1, <3>1 DEF SearchInv, Arranged, Blanks
  <2>5. n = Cardinality(Blanks(puzzle))
    <3> DEFINE f == [i \in 1..n |-> spaces[i]]
    <3>1. f \in [1..n -> Blanks(puzzle)]
      BY <2>1, <2>2 DEF SearchInv, Arranged
    <3>2. f \in Injection(1..n, Blanks(puzzle)) /\ f \in Surjection(1..n, Blanks(puzzle))
      BY <2>1, <3>1 DEF SearchInv, Arranged, Injection, IsInjective, Surjection
    <3>3. ExistsBijection(1..n, Blanks(puzzle))
      BY <3>2 DEF ExistsBijection, Bijection
    <3> HIDE DEF n
    <3> QED BY <2>2, <3>3, FS_CountingElements
  <2>6. Search!ToSet(rest) = Blanks(board)
    <3>1. \A i \in (h + 1)..n : spaces[i] \in Cells
      BY <2>2
    <3> DEFINE b == h + 1
    <3>2. b \in Int /\ n \in Int /\ \A i \in b..n : spaces[i] \in Cells
      BY <2>2, <3>1
    <3> HIDE DEF n, h, b
    <3>3. /\ SubSeq(spaces, b, n) \in Seq(Cells)
          /\ Len(SubSeq(spaces, b, n)) = IF b <= n THEN n - b + 1 ELSE 0
          /\ \A i \in 1..(n - b + 1) : SubSeq(spaces, b, n)[i] = spaces[b + i - 1]
      BY <3>2, SubSeqProperties
    <3>4. /\ rest \in Seq(Cells) /\ Len(rest) = n - h
          /\ \A i \in 1..(n - h) : rest[i] = spaces[h + i]
      <4>1. n - b + 1 = n - h /\ \A i \in 1..(n - h) : b + i - 1 = h + i
        BY <2>2 DEF b
      <4> QED BY <2>2, <3>3, <4>1 DEF b
    <3> HIDE DEF rest
    <3>5. \A c : c \in Search!ToSet(rest) <=> \E i \in 1..(n - h) : spaces[h + i] = c
      BY <2>2, <3>4 DEF Search!ToSet
    <3>6. \A c : c \in Search!ToSet(rest) <=> \E i \in (h + 1)..n : spaces[i] = c
      <4>1. \A i \in (h + 1)..n : i - h \in 1..(n - h) /\ h + (i - h) = i
        BY <2>2
      <4>2. \A i \in 1..(n - h) : h + i \in (h + 1)..n
        BY <2>2
      <4> QED BY <3>5, <4>1, <4>2
    <3>7. ASSUME NEW c \in Blanks(board) PROVE \E i \in (h + 1)..n : spaces[i] = c
      <4>1. c \in Cells /\ board[c] = 0
        BY DEF Blanks
      <4>2. puzzle[c] = 0
        BY <2>1, <4>1 DEF SearchInv, Filled, Blanks
      <4>3. PICK i \in 1..n : spaces[i] = c
        BY <2>1, <4>1, <4>2 DEF SearchInv, Arranged, Blanks, n
      <4>4. ~(i <= h)
        <5>1. \A j \in 1..h : board[spaces[j]] \in Values
          BY <2>1 DEF SearchInv, Filled, h
        <5>2. 0 \notin Values
          BY NumType DEF Values
        <5> QED BY <2>2, <4>1, <4>3, <5>1, <5>2
      <4> QED BY <2>2, <4>3, <4>4
    <3>8. ASSUME NEW i \in (h + 1)..n PROVE spaces[i] \in Blanks(board)
      BY <2>1, <3>1 DEF SearchInv, Filled, Blanks, h, n
    <3> QED BY <3>6, <3>7, <3>8
  <2>7. ASSUME NEW i \in 1..h PROVE board[spaces[i]] \notin Search!Around(board, spaces[i])
    <3>1. spaces[i] \in Cells
      BY <2>2
    <3>2. board[spaces[i]] # 0
      BY <2>1, NumType DEF SearchInv, Filled, Values
    <3>3. \A m \in Neighbors(spaces[i]) : board[m] # board[spaces[i]]
      BY <2>1, <3>1, <3>2 DEF SearchInv, NoClash
    <3> QED BY <3>3, SameAround, AroundSays
  <2>8. Search!Cardinality(Blanks(puzzle)) = Cardinality(Blanks(puzzle))
    BY SameBoard
  <2> QED BY <2>3, <2>4, <2>5, <2>6, <2>7, <2>8 DEF Search!SpacesSplit
<1>2. Inv => SpacesSplit
  BY <1>1 DEF SpacesSplit
<1> QED BY <1>2, Invariance, PTL

(* After any number of guesses and retreats the tables say of every blank  *)
(* cell what its neighbours hold, and how many values that leaves.         *)
THEOREM CacheStaysExact == Spec => []CacheExact
<1>1. ASSUME Inv, solver # "dancing_links", solver = "cache", NEW c \in Blanks(board)
      PROVE  occupied[c] = Around(board, c) /\ arity[c] = NUM - Cardinality(Around(board, c))
  <2>1. c \in Cells /\ board[c] = 0
    BY DEF Blanks
  <2>2. occupied[c] = Occupied(board, c) /\ arity[c] = NUM - Cardinality(Around(board, c))
    BY <1>1, <2>1 DEF Inv, SearchInv, TablesKept, TablesOf
  <2> QED BY <2>1, <2>2 DEF Occupied
<1>2. ASSUME Inv, solver # "dancing_links" PROVE Search!CacheExact
  <2>1. /\ Search!Blanks(board) = Blanks(board) /\ Search!NUM = NUM
        /\ \A c : Search!Around(board, c) = Around(board, c)
        /\ \A S : Search!Cardinality(S) = Cardinality(S)
    BY SameBoard, SameAround
  <2> QED BY <1>1, <1>2, <2>1 DEF Search!CacheExact
<1>3. Inv => CacheExact
  BY <1>2 DEF CacheExact
<1> QED BY <1>3, Invariance, PTL

(* The three searches decide every consistent puzzle: true comes with a     *)
(* board that completes it, false only for one that nothing completes, and  *)
(* leaves the board as it was.                                              *)
THEOREM SearchDecides == Spec => [](solver # "dancing_links" => VerdictRight)
<1>1. ASSUME SearchInv, at = "done", result PROVE Completes(board, puzzle)
  <2>1. Len(frames) = Len(spaces) /\ Held = Len(spaces)
    BY <1>1 DEF SearchInv, Depth, Held
  <2>2. ASSUME NEW c \in Cells PROVE board[c] \in Values
    <3>1. CASE puzzle[c] # 0
      <4>1. board[c] = puzzle[c] /\ puzzle \in Board
        BY <1>1, <3>1 DEF SearchInv, Filled, Blanks, Types
      <4> QED BY <3>1, <4>1, BoardHolds
    <3>2. CASE puzzle[c] = 0
      <4>1. PICK i \in 1..Len(spaces) : spaces[i] = c
        BY <1>1, <3>2 DEF SearchInv, Arranged, Blanks
      <4> QED BY <1>1, <2>1, <4>1 DEF SearchInv, Filled
    <3> QED BY <3>1, <3>2
  <2>3. board \in [Cells -> Values]
    BY <1>1, <2>2 DEF SearchInv, Types, Board
  <2>4. ASSUME NEW c \in Cells, NEW n \in Neighbors(c) PROVE board[n] # board[c]
    BY <1>1, <2>2, NumType DEF SearchInv, NoClash, Values
  <2>5. Solved(board)
    BY <2>3, <2>4, SolvedApart
  <2>6. \A c \in Cells : puzzle[c] # 0 => board[c] = puzzle[c]
    BY <1>1 DEF SearchInv, Filled, Blanks
  <2> QED BY <2>5, <2>6 DEF Completes
<1>2. ASSUME SearchInv, at = "done", ~result PROVE board = puzzle /\ ~Solvable(puzzle)
  <2>1. Len(frames) = 0 /\ Held = 0 /\ board \in Board /\ puzzle \in Board
    BY <1>2 DEF SearchInv, Depth, Held, Types
  <2>2. \A c \in Cells : board[c] = puzzle[c]
    BY <1>2, <2>1, ReachedHeld
  <2>3. board = puzzle
    BY <2>1, <2>2 DEF Board
  <2>4. ~Solvable(puzzle)
    <3> SUFFICES ASSUME Solvable(puzzle) PROVE FALSE
      OBVIOUS
    <3>1. PICK filled \in [Blanks(puzzle) -> Values] :
            Solved([c \in Cells |-> IF puzzle[c] = 0 THEN filled[c] ELSE puzzle[c]])
      BY DEF Solvable
    <3> DEFINE s == [c \in Cells |-> IF puzzle[c] = 0 THEN filled[c] ELSE puzzle[c]]
    <3>2. ASSUME NEW c \in Cells PROVE (IF puzzle[c] = 0 THEN filled[c] ELSE puzzle[c]) \in Values
      <4>1. puzzle[c] = 0 => c \in Blanks(puzzle)
        BY DEF Blanks
      <4> QED BY <2>1, <4>1, BoardHolds
    <3>3. s \in [Cells -> Values]
      BY <3>2
    <3>4. Completes(s, puzzle)
      BY <3>1 DEF Completes
    <3> HIDE DEF s
    <3>5. RefutedFor(s)
      BY <1>2, <3>3, <3>4 DEF SearchInv, Refuted
    <3> QED BY <1>2, <3>5 DEF RefutedFor
  <2> QED BY <2>3, <2>4
<1>3. Inv => (solver # "dancing_links" => VerdictRight)
  BY <1>1, <1>2 DEF Inv, VerdictRight
<1> QED BY <1>3, Invariance, PTL

(* The assertions of the searches: before a guess the cell is blank; after *)
(* a call that returned false it still holds the guess, and every neighbour *)
(* the guess was struck out for still has it struck out.                    *)
AssertsHold ==
  LET cell == spaces[Len(frames)]
      top  == frames[Len(frames)]
  IN  /\ at = "loop" => board[cell] = 0
      /\ at = "back" => /\ board[cell] = top.guess
                        /\ solver = "cache" => \A n \in top.modified : top.guess \in occupied[n]

(* No assertion of the three searches ever fails. *)
THEOREM SearchAsserts == Spec => [](solver # "dancing_links" => AssertsHold)
<1>1. ASSUME SearchInv PROVE AssertsHold
  <2> DEFINE d == Len(frames)
  <2>1. ASSUME at = "loop" PROVE board[spaces[d]] = 0
    <3>1. d \in (Held + 1)..Len(spaces)
      BY <1>1, <2>1, Basics DEF Held
    <3> QED BY <1>1, <3>1 DEF SearchInv, Filled
  <2>2. ASSUME at = "back" PROVE d \in 1..Held /\ board[spaces[d]] = frames[d].guess /\ frames[d].guess \in Values
    <3>1. d \in 1..Held
      BY <1>1, <2>2, Basics DEF Held
    <3> QED BY <1>1, <3>1 DEF SearchInv, Filled
  <2>3. ASSUME at = "back", solver = "cache", NEW n \in frames[d].modified
        PROVE  frames[d].guess \in occupied[n]
    <3>1. frames[d].modified =
            {m \in Neighbors(spaces[d]) : frames[d].guess \notin Occupied(Reached(d - 1), m)}
      BY <1>1, <2>2, <2>3 DEF SearchInv, TablesKept, FramesKept
    <3>2. n \in Neighbors(spaces[d]) /\ n \in Cells
      BY <3>1 DEF Neighbors
    <3>3. spaces[d] \in Cells /\ spaces[d] \in Neighbors(n)
      BY <1>1, <2>3, <3>2, Basics, NeighborsMutual
    <3>4. frames[d].guess \in Around(board, n)
      BY <2>2, <2>3, <3>3, AroundSays, NumType DEF Values
    <3> QED BY <1>1, <2>3, <3>2, <3>4 DEF SearchInv, TablesKept, TablesOf, Occupied
  <2> QED BY <2>1, <2>2, <2>3 DEF AssertsHold
<1>2. Inv => (solver # "dancing_links" => AssertsHold)
  BY <1>1 DEF Inv
<1> QED BY <1>2, Invariance, PTL

-----------------------------------------------------------------------------
(* The dancing links: loops along a link. *)

LEMMA SameLinks ==
  /\ \A S : Links!Cardinality(S) = Cardinality(S)
  /\ \A S : Links!Ascending(S) = Ascending(S)
<1>1. \A S : Links!Cardinality(S) = Cardinality(S)
  BY DEF Links!Cardinality, Cardinality
<1>2. \A S : Links!Ascending(S) = Ascending(S)
  BY DEF Links!Ascending, Ascending, Links!Cardinality, Cardinality
<1> QED BY <1>1, <1>2

(* n steps of a loop over the values of S. *)
Steps(step, n, S) == \A i \in 1..n : \A x \in S : step[i][x] \in S

(* What they compute one after the other. *)
Iterated(f, step, n, m, S) ==
  f \in [0..n -> S] /\ f[0] = m /\ \A i \in 1..n : f[i] = step[i][f[i - 1]]

LEMMA Iterates ==
  ASSUME NEW S, NEW n \in Nat, NEW m \in S, NEW step, Steps(step, n, S)
  PROVE  \E f : Iterated(f, step, n, m, S)
<1> DEFINE Upto(k, f) == f[0] = m /\ \A i \in 1..k : f[i] = step[i][f[i - 1]]
           Bad == {k \in 0..n : ~ \E f \in [0..k -> S] : Upto(k, f)}
<1>1. Bad = {}
  <2> SUFFICES ASSUME Bad # {} PROVE FALSE
    OBVIOUS
  <2>1. Bad \subseteq Nat
    OBVIOUS
  <2>2. PICK k \in Bad : \A l \in Bad : k <= l
    BY <2>1, WellOrdered
  <2>3. k # 0
    <3>1. [i \in 0..0 |-> m] \in [0..0 -> S] /\ Upto(0, [i \in 0..0 |-> m])
      OBVIOUS
    <3> QED BY <2>2, <3>1, ZenonT(30)
  <2>4. k \in 1..n /\ k - 1 \in 0..n /\ k - 1 \notin Bad
    <3>1. k \in 0..n
      BY <2>2
    <3>2. k \in 1..n /\ k - 1 \in 0..n /\ ~(k <= k - 1)
      BY <2>3, <3>1
    <3> HIDE DEF Bad
    <3> QED BY <2>2, <3>2
  <2>5. PICK f \in [0..(k - 1) -> S] : Upto(k - 1, f)
    BY <2>4
  <2> DEFINE g == [i \in 0..k |-> IF i = k THEN step[k][f[k - 1]] ELSE f[i]]
  <2>6. step[k][f[k - 1]] \in S
    BY <2>4, <2>5 DEF Steps
  <2>7. g \in [0..k -> S]
    BY <2>4, <2>5, <2>6
  <2>8. Upto(k, g)
    <3>1. g[0] = m
      BY <2>4, <2>5
    <3>2. ASSUME NEW i \in 1..k PROVE g[i] = step[i][g[i - 1]]
      <4>1. CASE i = k
        BY <2>4, <4>1
      <4>2. CASE i # k
        <5>1. i \in 1..(k - 1) /\ i \in 0..k /\ i - 1 \in 0..k /\ i - 1 # k
          BY <2>4, <4>2
        <5> QED BY <2>5, <4>2, <5>1
      <4> QED BY <4>1, <4>2
    <3> QED BY <3>1, <3>2
  <2> HIDE DEF g
  <2> QED BY <2>2, <2>7, <2>8
<1>2. n \notin Bad /\ n \in 0..n
  BY <1>1
<1> QED BY <1>2 DEF Iterated

(* A field of the nodes of N that leads to nodes. *)
IsLink(link, N) == link \in [N -> N]

(* s walks L steps along link from c before it is at c again. *)
Walk(s, L, link, c) ==
  /\ s[0] = c /\ s[L + 1] = c
  /\ \A i \in 0..L : s[i + 1] = link[s[i]]
  /\ \A i \in 1..L : s[i] # c

(* The nodes of a walk along a link are those the walk lists. *)
LEMMA ChainListed ==
  ASSUME NEW N, IsFiniteSet(N), NEW c \in N, NEW link, IsLink(link, N),
         NEW L \in Nat, L < Cardinality(N), NEW s, Walk(s, L, link, c)
  PROVE  Links!Chain(link, c) = [i \in 1..L |-> s[i]]
<1> DEFINE n == Cardinality(N)
           Recur(f) == f = [i \in 0..n |-> IF i = 0 THEN c ELSE link[f[i - 1]]]
           node == CHOOSE f : Recur(f)
           Ends(i) == node[i] = c /\ \A j \in 1..(i - 1) : node[j] # c
           end == CHOOSE i \in (0..n) \ {0} : Ends(i)
<1>0. n \in Nat /\ L < n /\ DOMAIN link = N /\ Links!Cardinality(N) = n
  BY FS_CardinalityType, SameLinks DEF IsLink
<1>8. /\ s[0] = c /\ s[L + 1] = c
      /\ \A i \in 0..L : s[i + 1] = link[s[i]]
      /\ \A i \in 1..L : s[i] # c
  BY DEF Walk
<1> HIDE DEF n
<1>1. Recur(node)
  <2> DEFINE step == [i \in 1..n |-> link]
  <2>1. \A i \in 1..n : step[i] = link
    OBVIOUS
  <2> HIDE DEF step
  <2>2. PICK f : Iterated(f, step, n, c, N)
    <3>1. Steps(step, n, N)
      BY <2>1 DEF Steps, IsLink
    <3> QED BY <1>0, <3>1, Iterates
  <2>3. f \in [0..n -> N] /\ \A i \in 0..n : f[i] = IF i = 0 THEN c ELSE link[f[i - 1]]
    BY <1>0, <2>1, <2>2 DEF Iterated
  <2>4. Recur(f)
    BY <2>3
  <2> QED BY <2>4
<1>2. /\ node[0] = c /\ \A i \in 1..n : node[i] = link[node[i - 1]]
      /\ DOMAIN node = 0..n
  <2> HIDE DEF node
  <2> QED BY <1>0, <1>1
<1>3. Links!Chain(link, c) = [i \in 1..(end - 1) |-> node[i]]
  <2>1. Links!Chain(link, c) =
          [i \in 1..((CHOOSE j \in DOMAIN node \ {0} : Ends(j)) - 1) |-> node[i]]
    BY <1>0 DEF Links!Chain
  <2> HIDE DEF node
  <2> QED BY <1>2, <2>1
<1> HIDE DEF node
<1>4. \A i \in 0..(L + 1) : node[i] = s[i]
  <2> DEFINE Bad == {i \in 0..(L + 1) : node[i] # s[i]}
  <2> SUFFICES ASSUME Bad # {} PROVE FALSE
    OBVIOUS
  <2>1. Bad \subseteq Nat
    OBVIOUS
  <2>2. PICK k \in Bad : \A l \in Bad : k <= l
    BY <2>1, WellOrdered
  <2>3. k # 0
    BY <1>8, <1>2, <2>2
  <2>4. k - 1 \in 0..L /\ k - 1 \notin Bad /\ k \in 1..n
    BY <1>0, <2>2, <2>3
  <2>5. node[k - 1] = s[k - 1] /\ s[k - 1 + 1] = link[s[k - 1]]
    BY <1>8, <2>4
  <2> QED BY <1>2, <2>2, <2>4, <2>5
<1>5. L + 1 \in (0..n) \ {0} /\ Ends(L + 1)
  BY <1>0, <1>8, <1>4
<1>6. ASSUME NEW i \in (0..n) \ {0}, Ends(i) PROVE i = L + 1
  <2>1. ~(i < L + 1)
    BY <1>8, <1>4, <1>6
  <2>2. ~(L + 1 < i)
    BY <1>5, <1>6
  <2> QED BY <2>1, <2>2
<1>7. end = L + 1
  <2> HIDE DEF Ends
  <2> QED BY <1>5, <1>6
<1> HIDE DEF end
<1> QED BY <1>3, <1>4, <1>7

-----------------------------------------------------------------------------
(* Rings: the order of the numbers, closed. *)

(* After and Before by what lies between. *)
LEMMA AfterMeans ==
  ASSUME NEW A, A \subseteq Nat, NEW n \in A, NEW m
  PROVE  m = Links!After(A, n) <=>
           /\ m \in A
           /\ \/ n < m /\ \A x \in A : x <= n \/ m <= x
              \/ \A x \in A : x <= n /\ m <= x
<1> DEFINE later == {x \in A : x > n}
<1>1. CASE later = {}
  <2>1. Links!After(A, n) = Links!Min(A)
    BY <1>1 DEF Links!After
  <2>2. \E x \in A : \A y \in A : x <= y
    BY WellOrdered
  <2>3. Links!Min(A) \in A /\ \A y \in A : Links!Min(A) <= y
    BY <2>2 DEF Links!Min
  <2>4. \A x \in A : x <= n
    BY <1>1
  <2>5. ASSUME m = Links!Min(A) PROVE m \in A /\ \A x \in A : x <= n /\ m <= x
    BY <2>3, <2>4, <2>5
  <2>6. ASSUME m \in A, n < m PROVE FALSE
    BY <2>4, <2>6
  <2>7. ASSUME m \in A, \A x \in A : x <= n /\ m <= x PROVE m = Links!Min(A)
    <3>1. Links!Min(A) \in Nat /\ m \in Nat /\ Links!Min(A) <= m /\ m <= Links!Min(A)
      BY <2>3, <2>7
    <3> QED BY <3>1
  <2> QED BY <2>1, <2>5, <2>6, <2>7
<1>2. CASE later # {}
  <2>1. Links!After(A, n) = Links!Min(later)
    BY <1>2 DEF Links!After
  <2>2. later \subseteq Nat
    OBVIOUS
  <2>3. \E x \in later : \A y \in later : x <= y
    BY <1>2, <2>2, WellOrdered
  <2> DEFINE k == Links!Min(later)
  <2>4. k \in later /\ \A y \in later : k <= y
    BY <2>3 DEF Links!Min
  <2> HIDE DEF k
  <2>5. k \in A /\ n < k /\ \A x \in A : x <= n \/ k <= x
    BY <2>4
  <2>6. ASSUME m \in A, n < m, \A x \in A : x <= n \/ m <= x PROVE m = k
    BY <2>5, <2>6
  <2>7. ASSUME \A x \in A : x <= n PROVE FALSE
    BY <2>5, <2>7
  <2> QED BY <2>1, <2>5, <2>6, <2>7 DEF k
<1> QED BY <1>1, <1>2

LEMMA AfterFound ==
  ASSUME NEW A, A \subseteq Nat, NEW n \in A, NEW m \in A,
         \/ n < m /\ \A x \in A : x <= n \/ m <= x
         \/ \A x \in A : x <= n /\ m <= x
  PROVE  Links!After(A, n) = m
BY AfterMeans

LEMMA Greatest ==
  ASSUME NEW T, T \subseteq Nat, T # {}, IsFiniteSet(T)
  PROVE  \E x \in T : \A y \in T : y <= x
<1> DEFINE n == Cardinality(T)
           list == Ascending(T)
<1>1. /\ n \in Nat /\ list \in [1..n -> T]
      /\ \A i, j \in 1..n : i < j <=> list[i] < list[j]
      /\ \A c \in T : \E i \in 1..n : list[i] = c
  BY Listed
<1> HIDE DEF n, list
<1>2. n \in 1..n /\ list[n] \in T
  <2>1. PICK c \in T : TRUE
    OBVIOUS
  <2>2. PICK i \in 1..n : list[i] = c
    BY <1>1
  <2> QED BY <1>1, <2>2
<1>3. ASSUME NEW y \in T PROVE y <= list[n]
  <2>1. PICK i \in 1..n : list[i] = y
    BY <1>1
  <2>2. ~(n < i) /\ ~(list[n] < list[i])
    BY <1>1, <1>2, <2>1
  <2>3. y \in Nat /\ list[n] \in Nat
    BY <1>2
  <2> QED BY <2>1, <2>2, <2>3
<1> QED BY <1>2, <1>3

LEMMA BeforeMeans ==
  ASSUME NEW A, A \subseteq Nat, IsFiniteSet(A), NEW n \in A, NEW m
  PROVE  m = Links!Before(A, n) <=>
           /\ m \in A
           /\ \/ m < n /\ \A x \in A : x <= m \/ n <= x
              \/ \A x \in A : n <= x /\ x <= m
<1> DEFINE earlier == {x \in A : x < n}
<1>1. CASE earlier = {}
  <2>1. Links!Before(A, n) = Links!Max(A)
    BY <1>1 DEF Links!Before
  <2>2. \E x \in A : \A y \in A : x >= y
    <3>1. \E x \in A : \A y \in A : y <= x
      BY Greatest
    <3> QED BY <3>1
  <2>3. Links!Max(A) \in A /\ \A y \in A : Links!Max(A) >= y
    BY <2>2 DEF Links!Max
  <2>4. \A x \in A : n <= x
    BY <1>1
  <2>5. ASSUME m = Links!Max(A) PROVE m \in A /\ \A x \in A : n <= x /\ x <= m
    BY <2>3, <2>4, <2>5
  <2>6. ASSUME m \in A, m < n PROVE FALSE
    BY <2>4, <2>6
  <2>7. ASSUME m \in A, \A x \in A : n <= x /\ x <= m PROVE m = Links!Max(A)
    <3>1. Links!Max(A) \in Nat /\ m \in Nat /\ Links!Max(A) >= m /\ Links!Max(A) <= m
      BY <2>3, <2>7
    <3> QED BY <3>1
  <2> QED BY <2>1, <2>5, <2>6, <2>7
<1>2. CASE earlier # {}
  <2>1. Links!Before(A, n) = Links!Max(earlier)
    BY <1>2 DEF Links!Before
  <2>2. earlier \subseteq Nat /\ IsFiniteSet(earlier)
    <3>1. earlier \in SUBSET A
      OBVIOUS
    <3> QED BY <3>1, FS_Subset
  <2>3. \E x \in earlier : \A y \in earlier : x >= y
    <3>1. \E x \in earlier : \A y \in earlier : y <= x
      BY <1>2, <2>2, Greatest
    <3> QED BY <3>1, <2>2
  <2> DEFINE k == Links!Max(earlier)
  <2>4. k \in earlier /\ \A y \in earlier : k >= y
    BY <2>3 DEF Links!Max
  <2> HIDE DEF k
  <2>5. k \in A /\ k < n /\ \A x \in A : x <= k \/ n <= x
    BY <2>4
  <2>6. ASSUME m \in A, m < n, \A x \in A : x <= m \/ n <= x PROVE m = k
    BY <2>5, <2>6
  <2>7. ASSUME \A x \in A : n <= x PROVE FALSE
    BY <2>5, <2>7
  <2> QED BY <2>1, <2>5, <2>6, <2>7 DEF k
<1> QED BY <1>1, <1>2

LEMMA BeforeIs ==
  ASSUME NEW A, A \subseteq Nat, IsFiniteSet(A), NEW n \in A
  PROVE  /\ Links!Before(A, n) \in A
         /\ \/ Links!Before(A, n) < n /\ \A x \in A : x <= Links!Before(A, n) \/ n <= x
            \/ \A x \in A : n <= x /\ x <= Links!Before(A, n)
<1>1. PICK m : m = Links!Before(A, n)
  OBVIOUS
<1>2. /\ m \in A
      /\ \/ m < n /\ \A x \in A : x <= m \/ n <= x
         \/ \A x \in A : n <= x /\ x <= m
  BY <1>1, BeforeMeans
<1> QED BY <1>1, <1>2

(* The two directions of a ring are opposite. *)
LEMMA Mutual ==
  ASSUME NEW A, A \subseteq Nat, IsFiniteSet(A), NEW k \in A, NEW m \in A
  PROVE  Links!After(A, k) = m <=> k = Links!Before(A, m)
<1>1. m = Links!After(A, k) <=>
        \/ k < m /\ \A x \in A : x <= k \/ m <= x
        \/ \A x \in A : x <= k /\ m <= x
  BY AfterMeans
<1>2. k = Links!Before(A, m) <=>
        \/ k < m /\ \A x \in A : x <= k \/ m <= x
        \/ \A x \in A : m <= x /\ x <= k
  BY BeforeMeans
<1> QED BY <1>1, <1>2

LEMMA Opposite ==
  ASSUME NEW A, A \subseteq Nat, IsFiniteSet(A), NEW n \in A
  PROVE  /\ Links!After(A, n) \in A /\ Links!Before(A, n) \in A
         /\ Links!Before(A, Links!After(A, n)) = n
         /\ Links!After(A, Links!Before(A, n)) = n
<1>1. Links!After(A, n) \in A
  BY AfterMeans
<1>2. Links!Before(A, n) \in A
  BY BeforeMeans
<1>3. Links!Before(A, Links!After(A, n)) = n
  BY <1>1, Mutual
<1>4. Links!After(A, Links!Before(A, n)) = n
  BY <1>2, Mutual
<1> QED BY <1>1, <1>2, <1>3, <1>4

(* A ring without one of its nodes. *)
LEMMA AfterWithout ==
  ASSUME NEW A, A \subseteq Nat, IsFiniteSet(A), NEW j \in A, NEW n \in A \ {j}
  PROVE  Links!After(A \ {j}, n) =
           IF Links!After(A, n) = j THEN Links!After(A, j) ELSE Links!After(A, n)
<1> DEFINE B == A \ {j}
           a == Links!After(A, n)
           b == Links!After(A, j)
<1>1. B \subseteq Nat /\ n \in B
  OBVIOUS
<1>2. ASSUME NEW m
      PROVE  m = Links!After(B, n) <=>
               /\ m \in B
               /\ \/ n < m /\ \A x \in B : x <= n \/ m <= x
                  \/ \A x \in B : x <= n /\ m <= x
  <2> HIDE DEF B
  <2> QED BY <1>1, AfterMeans
<1>3. /\ a \in A
      /\ \/ n < a /\ \A x \in A : x <= n \/ a <= x
         \/ \A x \in A : x <= n /\ a <= x
  BY AfterMeans, ZenonT(30)
<1>4. /\ b \in A
      /\ \/ j < b /\ \A x \in A : x <= j \/ b <= x
         \/ \A x \in A : x <= j /\ b <= x
  BY AfterMeans, ZenonT(30)
<1> HIDE DEF a, b
<1>5. CASE a # j
  <2>1. a \in B
    BY <1>3, <1>5
  <2>2. a = Links!After(B, n)
    BY <1>2, <1>3, <2>1
  <2> QED BY <1>5, <2>2 DEF a
<1>6. CASE a = j
  <2>1. b # j
    BY <1>4
  <2>2. b \in B
    BY <1>4, <2>1
  <2>3. \/ n < b /\ \A x \in B : x <= n \/ b <= x
        \/ \A x \in B : x <= n /\ b <= x
    BY <1>1, <1>3, <1>4, <1>6, <2>2
  <2>4. b = Links!After(B, n)
    BY <1>2, <2>2, <2>3
  <2> QED BY <1>6, <2>4 DEF a, b
<1> QED BY <1>5, <1>6

LEMMA BeforeWithout ==
  ASSUME NEW A, A \subseteq Nat, IsFiniteSet(A), NEW j \in A, NEW n \in A \ {j}
  PROVE  Links!Before(A \ {j}, n) =
           IF Links!Before(A, n) = j THEN Links!Before(A, j) ELSE Links!Before(A, n)
<1> DEFINE B == A \ {j}
           a == Links!Before(A, n)
           b == Links!Before(A, j)
<1>1. B \subseteq Nat /\ n \in B /\ IsFiniteSet(B)
  <2>1. B \in SUBSET A
    OBVIOUS
  <2> QED BY <2>1, FS_Subset
<1>2. ASSUME NEW m
      PROVE  m = Links!Before(B, n) <=>
               /\ m \in B
               /\ \/ m < n /\ \A x \in B : x <= m \/ n <= x
                  \/ \A x \in B : n <= x /\ x <= m
  <2> HIDE DEF B
  <2> QED BY <1>1, BeforeMeans
<1>3. /\ a \in A
      /\ \/ a < n /\ \A x \in A : x <= a \/ n <= x
         \/ \A x \in A : n <= x /\ x <= a
  BY BeforeIs
<1>4. /\ b \in A
      /\ \/ b < j /\ \A x \in A : x <= b \/ j <= x
         \/ \A x \in A : j <= x /\ x <= b
  BY BeforeIs
<1> HIDE DEF a, b
<1>5. CASE a # j
  <2>1. a \in B
    BY <1>3, <1>5
  <2>2. a = Links!Before(B, n)
    BY <1>2, <1>3, <2>1
  <2> QED BY <1>5, <2>2 DEF a
<1>6. CASE a = j
  <2>1. b # j
    BY <1>4
  <2>2. b \in B
    BY <1>4, <2>1
  <2>3. \/ b < n /\ \A x \in B : x <= b \/ n <= x
        \/ \A x \in B : n <= x /\ x <= b
    BY <1>1, <1>3, <1>4, <1>6, <2>2
  <2>4. b = Links!Before(B, n)
    BY <1>2, <2>2, <2>3
  <2> QED BY <1>6, <2>4 DEF a, b
<1> QED BY <1>5, <1>6

(* The nodes of a ring whose first one is c. *)
Ring(A, c) == A \subseteq Nat /\ IsFiniteSet(A) /\ c \in A /\ \A x \in A : c <= x

(* Its other nodes, in order. *)
Rest(A, c)  == Ascending(A \ {c})
Count(A, c) == Cardinality(A \ {c})
Back(A, c)  == [i \in 1..Count(A, c) |-> Rest(A, c)[Count(A, c) + 1 - i]]

LEMMA RestListed ==
  ASSUME NEW A, NEW c, Ring(A, c)
  PROVE  /\ Count(A, c) \in Nat /\ Cardinality(A) = Count(A, c) + 1
         /\ Rest(A, c) \in [1..Count(A, c) -> A \ {c}]
         /\ \A i, j \in 1..Count(A, c) : i < j <=> Rest(A, c)[i] < Rest(A, c)[j]
         /\ \A x \in A \ {c} : \E i \in 1..Count(A, c) : Rest(A, c)[i] = x
<1> DEFINE B == A \ {c}
<1> USE DEF Ring
<1>1. IsFiniteSet(B) /\ Cardinality(A) = Cardinality(B) + 1
  <2>1. IsFiniteSet(B) /\ Cardinality(B) = Cardinality(A) - 1
    BY FS_RemoveElement
  <2>2. Cardinality(A) \in Nat
    BY FS_CardinalityType
  <2> QED BY <2>1, <2>2
<1>2. B \subseteq Nat
  OBVIOUS
<1>3. Rest(A, c) = Ascending(B) /\ Count(A, c) = Cardinality(B)
  BY DEF Rest, Count
<1> HIDE DEF B
<1>4. /\ Cardinality(B) \in Nat
      /\ Ascending(B) \in [1..Cardinality(B) -> B]
      /\ \A i, j \in 1..Cardinality(B) : i < j <=> Ascending(B)[i] < Ascending(B)[j]
      /\ \A x \in B : \E i \in 1..Cardinality(B) : Ascending(B)[i] = x
  BY <1>1, <1>2, Listed
<1> QED BY <1>1, <1>3, <1>4 DEF B

LEMMA RestLinked ==
  ASSUME NEW A, NEW c, Ring(A, c)
  PROVE  /\ Count(A, c) > 0 => /\ Links!After(A, c) = Rest(A, c)[1]
                               /\ Links!Before(A, Rest(A, c)[1]) = c
         /\ Count(A, c) > 0 => /\ Links!After(A, Rest(A, c)[Count(A, c)]) = c
                               /\ Links!Before(A, c) = Rest(A, c)[Count(A, c)]
         /\ Count(A, c) = 0 => Links!After(A, c) = c /\ Links!Before(A, c) = c
         /\ \A i \in 1..(Count(A, c) - 1) :
              /\ Links!After(A, Rest(A, c)[i]) = Rest(A, c)[i + 1]
              /\ Links!Before(A, Rest(A, c)[i + 1]) = Rest(A, c)[i]
<1> DEFINE L == Count(A, c)
           list == Rest(A, c)
<1>0. A \subseteq Nat /\ IsFiniteSet(A) /\ c \in A /\ \A x \in A : c <= x
  BY DEF Ring
<1>1. L \in Nat
  BY RestListed
<1>2. \A i \in 1..L : list[i] \in A /\ list[i] \in Nat /\ list[i] # c
  <2>1. list \in [1..L -> A \ {c}]
    BY RestListed
  <2> HIDE DEF L, list
  <2> QED BY <1>0, <2>1
<1>3. \A x \in A : x # c => \E i \in 1..L : list[i] = x
  <2> SUFFICES ASSUME NEW x \in A \ {c} PROVE \E i \in 1..L : list[i] = x
    OBVIOUS
  <2> QED BY RestListed
<1>4. \A i, j \in 1..L : i < j <=> list[i] < list[j]
  BY RestListed
<1> HIDE DEF L, list
<1>5. \A i, j \in 1..L : i <= j => list[i] <= list[j]
  <2> SUFFICES ASSUME NEW i \in 1..L, NEW j \in 1..L, i <= j PROVE list[i] <= list[j]
    OBVIOUS
  <2>1. ~(j < i)
    BY <1>1
  <2>2. ~(list[j] < list[i])
    BY <1>4, <2>1
  <2>3. list[i] \in Nat /\ list[j] \in Nat
    BY <1>2
  <2> QED BY <2>2, <2>3
<1>6. c \in Nat /\ \A x \in A : x \in Nat
  BY <1>0
<1>7. ASSUME L > 0 PROVE Links!After(A, c) = list[1]
  <2>1. 1 \in 1..L
    BY <1>1, <1>7
  <2>2. list[1] \in A /\ list[1] \in Nat /\ list[1] # c /\ c <= list[1]
    BY <1>0, <1>2, <2>1
  <2>3. ASSUME NEW x \in A PROVE x <= c \/ list[1] <= x
    <3>1. CASE x = c
      BY <1>6, <3>1
    <3>2. CASE x # c
      <4>1. PICK i \in 1..L : list[i] = x
        BY <1>3, <3>2
      <4>2. 1 <= i
        OBVIOUS
      <4> QED BY <1>5, <2>1, <4>1, <4>2
    <3> QED BY <3>1, <3>2
  <2>4. c < list[1]
    BY <1>6, <2>2
  <2> QED BY <2>2, <2>3, <2>4, <1>0, AfterFound
<1>8. ASSUME L > 0 PROVE Links!After(A, list[L]) = c
  <2>1. L \in 1..L
    BY <1>1, <1>8
  <2>2. list[L] \in A
    BY <1>2, <2>1
  <2>3. ASSUME NEW x \in A PROVE x <= list[L] /\ c <= x
    <3>1. CASE x = c
      BY <1>0, <1>2, <2>1, <3>1
    <3>2. CASE x # c
      <4>1. PICK i \in 1..L : list[i] = x
        BY <1>3, <3>2
      <4>2. i <= L
        BY <1>1
      <4> QED BY <1>0, <1>5, <2>1, <4>1, <4>2
    <3> QED BY <3>1, <3>2
  <2> QED BY <2>2, <2>3, <1>0, AfterFound
<1>9. ASSUME L = 0 PROVE Links!After(A, c) = c /\ Links!Before(A, c) = c
  <2>1. \A x \in A : x = c
    BY <1>3, <1>9
  <2>2. Links!After(A, c) \in A /\ Links!Before(A, c) \in A
    BY <1>0, Opposite
  <2> QED BY <2>1, <2>2
<1>10. ASSUME NEW i \in 1..(L - 1) PROVE Links!After(A, list[i]) = list[i + 1]
  <2>1. i \in 1..L /\ i + 1 \in 1..L /\ i < i + 1
    BY <1>1
  <2>2. list[i] \in A /\ list[i + 1] \in A /\ list[i] < list[i + 1] /\ list[i] \in Nat
    BY <1>2, <1>4, <2>1
  <2>3. ASSUME NEW x \in A PROVE x <= list[i] \/ list[i + 1] <= x
    <3>1. CASE x = c
      BY <1>0, <1>2, <2>1, <3>1
    <3>2. CASE x # c
      <4>1. PICK j \in 1..L : list[j] = x
        BY <1>3, <3>2
      <4>2. j <= i \/ i + 1 <= j
        BY <1>1, <4>1
      <4> QED BY <1>5, <2>1, <4>1, <4>2
    <3> QED BY <3>1, <3>2
  <2> QED BY <2>2, <2>3, <1>0, AfterFound
<1>11. ASSUME L > 0
      PROVE  Links!Before(A, c) = list[L] /\ Links!Before(A, list[1]) = c
  <2>1. 1 \in 1..L /\ L \in 1..L
    BY <1>1, <1>11
  <2>2. c \in A /\ list[1] \in A /\ list[L] \in A /\ A \subseteq Nat /\ IsFiniteSet(A)
    BY <1>0, <1>2, <2>1
  <2>3. Links!After(A, c) = list[1] /\ Links!After(A, list[L]) = c
    BY <1>7, <1>8, <1>11
  <2>4. Links!Before(A, list[1]) = c
    <3>1. PICK k \in A : k = list[1]
      BY <2>2
    <3>2. Links!After(A, c) = k
      BY <2>3, <3>1
    <3>3. c = Links!Before(A, k)
      BY <2>2, <3>2, Mutual
    <3> QED BY <3>1, <3>3
  <2>5. Links!Before(A, c) = list[L]
    BY <2>2, <2>3, Mutual, ZenonT(30)
  <2> QED BY <2>4, <2>5
<1>12. ASSUME NEW i \in 1..(L - 1) PROVE Links!Before(A, list[i + 1]) = list[i]
  <2>1. i \in 1..L /\ i + 1 \in 1..L
    BY <1>1
  <2>2. list[i] \in A /\ list[i + 1] \in A
    BY <1>2, <2>1
  <2> QED BY <1>10, <2>2, <1>0, Mutual
<1> QED BY <1>7, <1>8, <1>9, <1>10, <1>11, <1>12 DEF L, list

(* A loop along the links of a ring visits the rest of it in order; one    *)
(* against them in the opposite order.                                     *)
LEMMA RingChain ==
  ASSUME NEW N, N \subseteq Nat, IsFiniteSet(N), NEW A \in SUBSET N,
         NEW c, Ring(A, c), NEW link \in [N -> N], \A n \in A : link[n] = Links!After(A, n)
  PROVE  Links!Chain(link, c) = Rest(A, c)
<1> DEFINE list == Rest(A, c)
           L == Count(A, c)
           s == [i \in 0..(L + 1) |-> IF i \in 1..L THEN list[i] ELSE c]
<1>1. c \in A /\ IsFiniteSet(A) /\ Cardinality(A) <= Cardinality(N) /\ Cardinality(N) \in Nat
  BY FS_Subset, FS_CardinalityType DEF Ring
<1>2. L \in Nat /\ Cardinality(A) = L + 1 /\ list \in [1..L -> A \ {c}]
  BY RestListed
<1>3. /\ L > 0 => Links!After(A, c) = list[1] /\ Links!After(A, list[L]) = c
      /\ L = 0 => Links!After(A, c) = c
      /\ \A i \in 1..(L - 1) : Links!After(A, list[i]) = list[i + 1]
  BY RestLinked
<1> HIDE DEF list, L
<1>4. c \in N /\ \A i \in 1..L : list[i] \in A /\ list[i] \in N /\ list[i] # c
  BY <1>1, <1>2
<1>5. /\ s \in [0..(L + 1) -> N]
      /\ \A i \in 1..L : s[i] = list[i] /\ i \in 0..(L + 1)
      /\ s[0] = c /\ s[L + 1] = c
  BY <1>2, <1>4
<1> HIDE DEF s
<1>6. ASSUME NEW i \in 0..L PROVE s[i + 1] = link[s[i]]
  <2>1. CASE i = 0 /\ L = 0
    BY <1>1, <1>3, <1>5, <2>1
  <2>2. CASE i = 0 /\ L > 0
    <3>1. 1 \in 1..L
      BY <1>2, <2>2
    <3> QED BY <1>1, <1>3, <1>5, <2>2, <3>1
  <2>3. CASE i > 0 /\ i = L
    <3>1. L \in 1..L
      BY <1>2, <2>3
    <3> QED BY <1>1, <1>3, <1>4, <1>5, <2>3, <3>1
  <2>4. CASE i \in 1..(L - 1)
    <3>1. i \in 1..L /\ i + 1 \in 1..L
      BY <1>2, <2>4
    <3> QED BY <1>1, <1>3, <1>4, <1>5, <2>4, <3>1
  <2> QED BY <1>2, <2>1, <2>2, <2>3, <2>4
<1>7. \A i \in 1..L : s[i] # c
  BY <1>4, <1>5
<1>8. L < Cardinality(N)
  <2>1. L \in Nat /\ Cardinality(N) \in Nat /\ L + 1 <= Cardinality(N)
    BY <1>1, <1>2
  <2> QED BY <2>1
<1>9. Links!Chain(link, c) = [i \in 1..L |-> s[i]]
  <2>1. Walk(s, L, link, c)
    BY <1>5, <1>6, <1>7 DEF Walk
  <2>2. IsLink(link, N)
    BY DEF IsLink
  <2> QED BY <1>2, <1>4, <1>8, <2>1, <2>2, ChainListed
<1> QED BY <1>2, <1>5, <1>9 DEF list

LEMMA RingBack ==
  ASSUME NEW N, N \subseteq Nat, IsFiniteSet(N), NEW A \in SUBSET N,
         NEW c, Ring(A, c), NEW link \in [N -> N], \A n \in A : link[n] = Links!Before(A, n)
  PROVE  Links!Chain(link, c) = Back(A, c)
<1> DEFINE list == Rest(A, c)
           L == Count(A, c)
           s == [i \in 0..(L + 1) |-> IF i \in 1..L THEN list[L + 1 - i] ELSE c]
<1>1. c \in A /\ IsFiniteSet(A) /\ Cardinality(A) <= Cardinality(N) /\ Cardinality(N) \in Nat
  BY FS_Subset, FS_CardinalityType DEF Ring
<1>2. L \in Nat /\ Cardinality(A) = L + 1 /\ list \in [1..L -> A \ {c}]
  BY RestListed
<1>3. /\ L > 0 => Links!Before(A, c) = list[L] /\ Links!Before(A, list[1]) = c
      /\ L = 0 => Links!Before(A, c) = c
      /\ \A i \in 1..(L - 1) : Links!Before(A, list[i + 1]) = list[i]
  BY RestLinked
<1> HIDE DEF list, L
<1>4. c \in N /\ \A i \in 1..L : list[i] \in A /\ list[i] \in N /\ list[i] # c
  BY <1>1, <1>2
<1>0. \A i \in 1..L : L + 1 - i \in 1..L
  BY <1>2
<1>5. /\ s \in [0..(L + 1) -> N]
      /\ \A i \in 1..L : s[i] = list[L + 1 - i] /\ i \in 0..(L + 1)
      /\ s[0] = c /\ s[L + 1] = c
  BY <1>0, <1>2, <1>4
<1> HIDE DEF s
<1>6. ASSUME NEW i \in 0..L PROVE s[i + 1] = link[s[i]]
  <2>1. CASE i = 0 /\ L = 0
    BY <1>1, <1>3, <1>5, <2>1
  <2>2. CASE i = 0 /\ L > 0
    <3>1. 1 \in 1..L /\ L + 1 - 1 = L
      BY <1>2, <2>2
    <3> QED BY <1>1, <1>3, <1>5, <2>2, <3>1
  <2>3. CASE i > 0 /\ i = L
    <3>1. L \in 1..L /\ L + 1 - L = 1 /\ 1 \in 1..L
      BY <1>2, <2>3
    <3> QED BY <1>1, <1>3, <1>4, <1>5, <2>3, <3>1, ZenonT(30)
  <2>4. CASE i \in 1..(L - 1)
    <3>1. /\ i \in 1..L /\ i + 1 \in 1..L /\ L + 1 - i \in 1..L
          /\ L - i \in 1..(L - 1) /\ L + 1 - (i + 1) = L - i /\ (L - i) + 1 = L + 1 - i
      BY <1>2, <2>4
    <3>2. Links!Before(A, list[L + 1 - i]) = list[L - i]
      BY <1>3, <3>1
    <3> QED BY <1>4, <1>5, <3>1, <3>2
  <2> QED BY <1>2, <2>1, <2>2, <2>3, <2>4
<1>7. \A i \in 1..L : s[i] # c
  BY <1>0, <1>4, <1>5
<1>8. L < Cardinality(N)
  <2>1. L \in Nat /\ Cardinality(N) \in Nat /\ L + 1 <= Cardinality(N)
    BY <1>1, <1>2
  <2> QED BY <2>1
<1>9. Links!Chain(link, c) = [i \in 1..L |-> s[i]]
  <2>1. Walk(s, L, link, c)
    BY <1>5, <1>6, <1>7 DEF Walk
  <2>2. IsLink(link, N)
    BY DEF IsLink
  <2> QED BY <1>2, <1>4, <1>8, <2>1, <2>2, ChainListed
<1>10. [i \in 1..L |-> s[i]] = [i \in 1..L |-> list[L + 1 - i]]
  BY <1>5
<1> QED BY <1>9, <1>10 DEF list, L, Back

(* The loop over the rest of a row of four nodes. *)
LEMMA RowChain ==
  ASSUME NEW N, IsFiniteSet(N), NEW link \in [N -> N],
         NEW a \in N, NEW b \in N, NEW c \in N, NEW d \in N,
         a # b, a # c, a # d, b # c, b # d, c # d,
         link[a] = b, link[b] = c, link[c] = d, link[d] = a
  PROVE  Links!Chain(link, a) = <<b, c, d>>
<1> DEFINE s == [i \in 0..4 |-> IF i = 1 THEN b ELSE IF i = 2 THEN c ELSE IF i = 3 THEN d ELSE a]
<1>1. 3 < Cardinality(N)
  <2>1. Cardinality(N) \in Nat
    BY FS_CardinalityType
  <2>2. IsFiniteSet({a, b}) /\ Cardinality({a, b}) = 2
    <3>1. {a, b} = {a} \cup {b} /\ b \notin {a}
      OBVIOUS
    <3>2. IsFiniteSet({a}) /\ Cardinality({a}) = 1
      BY FS_Singleton
    <3> QED BY <3>1, <3>2, FS_AddElement
  <2>3. IsFiniteSet({a, b, c}) /\ Cardinality({a, b, c}) = 3
    <3>1. {a, b, c} = {a, b} \cup {c} /\ c \notin {a, b}
      OBVIOUS
    <3>2. Cardinality({a, b} \cup {c}) = Cardinality({a, b}) + 1 /\ IsFiniteSet({a, b} \cup {c})
      BY <2>2, <3>1, FS_AddElement
    <3> QED BY <2>2, <3>1, <3>2
  <2>4. IsFiniteSet({a, b, c, d}) /\ Cardinality({a, b, c, d}) = 4
    <3>1. {a, b, c, d} = {a, b, c} \cup {d} /\ d \notin {a, b, c}
      OBVIOUS
    <3>2. Cardinality({a, b, c} \cup {d}) = Cardinality({a, b, c}) + 1 /\ IsFiniteSet({a, b, c} \cup {d})
      BY <2>3, <3>1, FS_AddElement
    <3> QED BY <2>3, <3>1, <3>2
  <2>5. {a, b, c, d} \in SUBSET N
    OBVIOUS
  <2>6. Cardinality({a, b, c, d}) <= Cardinality(N)
    BY <2>5, FS_Subset
  <2> QED BY <2>1, <2>4, <2>6
<1>2. 3 \in Nat /\ s \in [0..(3 + 1) -> N] /\ s[0] = a /\ s[3 + 1] = a
  OBVIOUS
<1>3. \A i \in 0..3 : s[i + 1] = link[s[i]]
  OBVIOUS
<1>4. \A i \in 1..3 : s[i] # a
  OBVIOUS
<1>5. s[1] = b /\ s[2] = c /\ s[3] = d
  OBVIOUS
<1> HIDE DEF s
<1>6. Links!Chain(link, a) = [i \in 1..3 |-> s[i]]
  <2>1. Walk(s, 3, link, a)
    BY <1>2, <1>3, <1>4 DEF Walk
  <2>2. IsLink(link, N)
    BY DEF IsLink
  <2> QED BY <1>1, <1>2, <2>1, <2>2, ChainListed, SMTT(30)
<1>7. [i \in 1..3 |-> s[i]] = <<b, c, d>>
  BY <1>5
<1> QED BY <1>6, <1>7

-----------------------------------------------------------------------------
(* Meshes, and taking a node out of one. *)

(* The meshes with the nodes, names, columns and rows of s. *)
Nodes(s)  == DOMAIN s.name
Heads(s)  == DOMAIN s.size
InRows(s) == Nodes(s) \ Heads(s)

Meshes(s) ==
  [name : {s.name}, col : {s.col},
   right : [Nodes(s) -> Nodes(s)], left : [Nodes(s) -> Nodes(s)],
   down : [Nodes(s) -> Nodes(s)], up : [Nodes(s) -> Nodes(s)],
   size : [Heads(s) -> Int]]

SameRows(m, s) == \A n \in InRows(s) : m.right[n] = s.right[n] /\ m.left[n] = s.left[n]

Like(s) == {m \in Meshes(s) : SameRows(m, s)}

(* Every node behind the columns is below one of them. *)
Hung(s) ==
  /\ Nodes(s) \subseteq Nat /\ IsFiniteSet(Nodes(s))
  /\ Heads(s) \subseteq Nodes(s) /\ 0 \in Heads(s)
  /\ s.col \in [Nodes(s) -> Heads(s)]
  /\ \A c \in Heads(s) : s.col[c] = c
  /\ \A n \in InRows(s) : s.col[n] # 0 /\ s.col[n] < n

LEMMA MeshTypes ==
  ASSUME NEW s, Hung(s), NEW m \in Meshes(s)
  PROVE  /\ m.right \in [Nodes(s) -> Nodes(s)] /\ m.left \in [Nodes(s) -> Nodes(s)]
         /\ m.down \in [Nodes(s) -> Nodes(s)] /\ m.up \in [Nodes(s) -> Nodes(s)]
         /\ m.size \in [Heads(s) -> Int]
         /\ m.col = s.col /\ m.name = s.name
BY DEF Meshes

Unlinked(s, m, j, o) ==
  /\ o \in Meshes(s)
  /\ o.up = [m.up EXCEPT ![m.down[j]] = m.up[j]]
  /\ o.down = [m.down EXCEPT ![m.up[j]] = m.down[j]]
  /\ o.size = [m.size EXCEPT ![s.col[j]] = m.size[s.col[j]] - 1]
  /\ o.right = m.right /\ o.left = m.left

LEMMA UnlinkIs ==
  ASSUME NEW s, Hung(s), NEW m \in Meshes(s), NEW j \in Nodes(s)
  PROVE  Unlinked(s, m, j, Links!Unlink(m, j))
<1> DEFINE up   == [m.up EXCEPT ![m.down[j]] = m.up[j]]
           down == [m.down EXCEPT ![m.up[j]] = m.down[j]]
           size == [m.size EXCEPT ![m.col[j]] = @ - 1]
<1>1. Links!Unlink(m, j) = [m EXCEPT !.up = up, !.down = down, !.size = size]
  BY DEF Links!Unlink
<1>2. /\ m.down \in [Nodes(s) -> Nodes(s)] /\ m.up \in [Nodes(s) -> Nodes(s)]
      /\ m.size \in [Heads(s) -> Int] /\ m.col = s.col /\ s.col[j] \in Heads(s)
  BY MeshTypes DEF Hung
<1>3. /\ up \in [Nodes(s) -> Nodes(s)] /\ down \in [Nodes(s) -> Nodes(s)]
      /\ size \in [Heads(s) -> Int] /\ size = [m.size EXCEPT ![s.col[j]] = m.size[s.col[j]] - 1]
  BY <1>2
<1> HIDE DEF up, down, size
<1>4. [m EXCEPT !.up = up, !.down = down, !.size = size] \in Meshes(s)
  BY <1>3 DEF Meshes
<1>5. \A x : x = [m EXCEPT !.up = up, !.down = down, !.size = size] =>
        x.up = up /\ x.down = down /\ x.size = size /\ x.right = m.right /\ x.left = m.left
  BY DEF Meshes
<1> QED BY <1>1, <1>3, <1>4, <1>5 DEF up, down, Unlinked

Relinked(s, m, j, o) ==
  /\ o \in Meshes(s)
  /\ o.up = [m.up EXCEPT ![m.down[j]] = j]
  /\ o.down = [m.down EXCEPT ![m.up[j]] = j]
  /\ o.size = [m.size EXCEPT ![s.col[j]] = m.size[s.col[j]] + 1]
  /\ o.right = m.right /\ o.left = m.left

LEMMA RelinkIs ==
  ASSUME NEW s, Hung(s), NEW m \in Meshes(s), NEW j \in Nodes(s)
  PROVE  Relinked(s, m, j, Links!Relink(m, j))
<1> DEFINE up   == [m.up EXCEPT ![m.down[j]] = j]
           down == [m.down EXCEPT ![m.up[j]] = j]
           size == [m.size EXCEPT ![m.col[j]] = @ + 1]
<1>1. Links!Relink(m, j) = [m EXCEPT !.up = up, !.down = down, !.size = size]
  BY DEF Links!Relink
<1>2. /\ m.down \in [Nodes(s) -> Nodes(s)] /\ m.up \in [Nodes(s) -> Nodes(s)]
      /\ m.size \in [Heads(s) -> Int] /\ m.col = s.col /\ s.col[j] \in Heads(s)
  BY MeshTypes DEF Hung
<1>3. /\ up \in [Nodes(s) -> Nodes(s)] /\ down \in [Nodes(s) -> Nodes(s)]
      /\ size \in [Heads(s) -> Int] /\ size = [m.size EXCEPT ![s.col[j]] = m.size[s.col[j]] + 1]
  BY <1>2
<1> HIDE DEF up, down, size
<1>4. [m EXCEPT !.up = up, !.down = down, !.size = size] \in Meshes(s)
  BY <1>3 DEF Meshes
<1>5. \A x : x = [m EXCEPT !.up = up, !.down = down, !.size = size] =>
        x.up = up /\ x.down = down /\ x.size = size /\ x.right = m.right /\ x.left = m.left
  BY DEF Meshes
<1> QED BY <1>1, <1>3, <1>4, <1>5 DEF up, down, Relinked

(* Meshes of the same links are the same. *)
LEMMA MeshesEqual ==
  ASSUME NEW s, NEW m \in Meshes(s), NEW o \in Meshes(s),
         m.right = o.right, m.left = o.left, m.down = o.down, m.up = o.up, m.size = o.size
  PROVE  m = o
BY DEF Meshes

(* uncover's links put back what cover's took out, if both neighbours led  *)
(* to the node.                                                            *)
LEMMA RelinkUndoes ==
  ASSUME NEW s, Hung(s), NEW m \in Meshes(s), NEW j \in Nodes(s),
         m.up[m.down[j]] = j, m.down[m.up[j]] = j
  PROVE  Links!Relink(Links!Unlink(m, j), j) = m
<1> DEFINE o == Links!Unlink(m, j)
           r == Links!Relink(o, j)
           c == s.col[j]
<1>1. /\ o \in Meshes(s)
      /\ o.up = [m.up EXCEPT ![m.down[j]] = m.up[j]]
      /\ o.down = [m.down EXCEPT ![m.up[j]] = m.down[j]]
      /\ o.size = [m.size EXCEPT ![c] = m.size[c] - 1]
      /\ o.right = m.right /\ o.left = m.left
  <2>1. Unlinked(s, m, j, o)
    BY UnlinkIs
  <2> HIDE DEF o
  <2> QED BY <2>1 DEF Unlinked
<1> HIDE DEF o
<1>2. /\ r \in Meshes(s)
      /\ r.up = [o.up EXCEPT ![o.down[j]] = j]
      /\ r.down = [o.down EXCEPT ![o.up[j]] = j]
      /\ r.size = [o.size EXCEPT ![c] = o.size[c] + 1]
      /\ r.right = o.right /\ r.left = o.left
  <2>1. Relinked(s, o, j, r)
    BY <1>1, RelinkIs
  <2> HIDE DEF r
  <2> QED BY <2>1 DEF Relinked
<1> HIDE DEF r
<1>3. /\ m.down \in [Nodes(s) -> Nodes(s)] /\ m.up \in [Nodes(s) -> Nodes(s)]
      /\ m.size \in [Heads(s) -> Int]
  BY MeshTypes
<1>4. c \in Heads(s)
  BY DEF Hung
<1> HIDE DEF c
<1>5. o.down[j] = m.down[j] /\ o.up[j] = m.up[j]
  BY <1>1, <1>3
<1>6. r.up = m.up
  BY <1>1, <1>2, <1>3, <1>5
<1>7. r.down = m.down
  BY <1>1, <1>2, <1>3, <1>5
<1>8. r.size = m.size
  <2>1. o.size[c] = m.size[c] - 1 /\ m.size[c] \in Int
    BY <1>1, <1>3, <1>4
  <2>2. r.size = [o.size EXCEPT ![c] = m.size[c]]
    BY <1>2, <2>1
  <2> QED BY <1>1, <1>3, <1>4, <2>2
<1>9. r = m
  BY <1>1, <1>2, <1>6, <1>7, <1>8, MeshesEqual
<1> QED BY <1>9 DEF r, o

(* The same operation for every node of a sequence. *)
UnlinkAll(m, t)  == Links!Applied(Links!Unlink, m, t)
RelinkAll(m, t)  == Links!Applied(Links!Relink, m, t)
CoverAll(m, t)   == Links!Applied(Links!Cover, m, t)
UncoverAll(m, t) == Links!Applied(Links!Uncover, m, t)

LEMMA ThreeUnlinked ==
  ASSUME NEW m, NEW x, NEW y, NEW z
  PROVE  UnlinkAll(m, <<x, y, z>>) = Links!Unlink(Links!Unlink(Links!Unlink(m, x), y), z)
<1> DEFINE t == <<x, y, z>>
           Recur(f) == f = [i \in 0..3 |-> IF i = 0 THEN m ELSE Links!Unlink(f[i - 1], t[i])]
           g == [i \in 0..3 |-> IF i = 0 THEN m ELSE IF i = 1 THEN Links!Unlink(m, x)
                                ELSE IF i = 2 THEN Links!Unlink(Links!Unlink(m, x), y)
                                ELSE Links!Unlink(Links!Unlink(Links!Unlink(m, x), y), z)]
           f == CHOOSE f : Recur(f)
<1>1. Len(t) = 3
  OBVIOUS
<1>2. UnlinkAll(m, t) = f[3]
  BY <1>1 DEF UnlinkAll, Links!Applied
<1>3. \A i \in 0..3 : g[i] = IF i = 0 THEN m ELSE Links!Unlink(g[i - 1], t[i])
  OBVIOUS
<1>4. Recur(g)
  BY <1>3
<1>5. Recur(f)
  <2> HIDE DEF Recur, g
  <2> QED BY <1>4
<1> HIDE DEF f
<1>6. f[0] = m /\ f[1] = Links!Unlink(f[0], x) /\ f[2] = Links!Unlink(f[1], y) /\ f[3] = Links!Unlink(f[2], z)
  BY <1>5
<1> QED BY <1>2, <1>6

LEMMA ThreeRelinked ==
  ASSUME NEW m, NEW x, NEW y, NEW z
  PROVE  RelinkAll(m, <<x, y, z>>) = Links!Relink(Links!Relink(Links!Relink(m, x), y), z)
<1> DEFINE t == <<x, y, z>>
           Recur(f) == f = [i \in 0..3 |-> IF i = 0 THEN m ELSE Links!Relink(f[i - 1], t[i])]
           g == [i \in 0..3 |-> IF i = 0 THEN m ELSE IF i = 1 THEN Links!Relink(m, x)
                                ELSE IF i = 2 THEN Links!Relink(Links!Relink(m, x), y)
                                ELSE Links!Relink(Links!Relink(Links!Relink(m, x), y), z)]
           f == CHOOSE f : Recur(f)
<1>1. Len(t) = 3
  OBVIOUS
<1>2. RelinkAll(m, t) = f[3]
  BY <1>1 DEF RelinkAll, Links!Applied
<1>3. \A i \in 0..3 : g[i] = IF i = 0 THEN m ELSE Links!Relink(g[i - 1], t[i])
  OBVIOUS
<1>4. Recur(g)
  BY <1>3
<1>5. Recur(f)
  <2> HIDE DEF Recur, g
  <2> QED BY <1>4
<1> HIDE DEF f
<1>6. f[0] = m /\ f[1] = Links!Relink(f[0], x) /\ f[2] = Links!Relink(f[1], y) /\ f[3] = Links!Relink(f[2], z)
  BY <1>5
<1> QED BY <1>2, <1>6

LEMMA ThreeCovered ==
  ASSUME NEW m, NEW x, NEW y, NEW z
  PROVE  CoverAll(m, <<x, y, z>>) = Links!Cover(Links!Cover(Links!Cover(m, x), y), z)
<1> DEFINE t == <<x, y, z>>
           Recur(f) == f = [i \in 0..3 |-> IF i = 0 THEN m ELSE Links!Cover(f[i - 1], t[i])]
           g == [i \in 0..3 |-> IF i = 0 THEN m ELSE IF i = 1 THEN Links!Cover(m, x)
                                ELSE IF i = 2 THEN Links!Cover(Links!Cover(m, x), y)
                                ELSE Links!Cover(Links!Cover(Links!Cover(m, x), y), z)]
           f == CHOOSE f : Recur(f)
<1>1. Len(t) = 3
  OBVIOUS
<1>2. CoverAll(m, t) = f[3]
  BY <1>1 DEF CoverAll, Links!Applied
<1>3. \A i \in 0..3 : g[i] = IF i = 0 THEN m ELSE Links!Cover(g[i - 1], t[i])
  OBVIOUS
<1>4. Recur(g)
  BY <1>3
<1>5. Recur(f)
  <2> HIDE DEF Recur, g
  <2> QED BY <1>4
<1> HIDE DEF f
<1>6. f[0] = m /\ f[1] = Links!Cover(f[0], x) /\ f[2] = Links!Cover(f[1], y) /\ f[3] = Links!Cover(f[2], z)
  BY <1>5
<1> QED BY <1>2, <1>6

LEMMA ThreeUncovered ==
  ASSUME NEW m, NEW x, NEW y, NEW z
  PROVE  UncoverAll(m, <<x, y, z>>) = Links!Uncover(Links!Uncover(Links!Uncover(m, x), y), z)
<1> DEFINE t == <<x, y, z>>
           Recur(f) == f = [i \in 0..3 |-> IF i = 0 THEN m ELSE Links!Uncover(f[i - 1], t[i])]
           g == [i \in 0..3 |-> IF i = 0 THEN m ELSE IF i = 1 THEN Links!Uncover(m, x)
                                ELSE IF i = 2 THEN Links!Uncover(Links!Uncover(m, x), y)
                                ELSE Links!Uncover(Links!Uncover(Links!Uncover(m, x), y), z)]
           f == CHOOSE f : Recur(f)
<1>1. Len(t) = 3
  OBVIOUS
<1>2. UncoverAll(m, t) = f[3]
  BY <1>1 DEF UncoverAll, Links!Applied
<1>3. \A i \in 0..3 : g[i] = IF i = 0 THEN m ELSE Links!Uncover(g[i - 1], t[i])
  OBVIOUS
<1>4. Recur(g)
  BY <1>3
<1>5. Recur(f)
  <2> HIDE DEF Recur, g
  <2> QED BY <1>4
<1> HIDE DEF f
<1>6. f[0] = m /\ f[1] = Links!Uncover(f[0], x) /\ f[2] = Links!Uncover(f[1], y) /\ f[3] = Links!Uncover(f[2], z)
  BY <1>5
<1> QED BY <1>2, <1>6

-----------------------------------------------------------------------------
(* Rows and columns. *)

(* a, b, c and d are the nodes of a row of s, in the order of its links. *)
IsRow(s, a, b, c, d) ==
  /\ a \in InRows(s) /\ b \in InRows(s) /\ c \in InRows(s) /\ d \in InRows(s)
  /\ s.col[a] # s.col[b] /\ s.col[a] # s.col[c] /\ s.col[a] # s.col[d]
  /\ s.col[b] # s.col[c] /\ s.col[b] # s.col[d] /\ s.col[c] # s.col[d]
  /\ s.right[a] = b /\ s.right[b] = c /\ s.right[c] = d /\ s.right[d] = a
  /\ s.left[b] = a /\ s.left[c] = b /\ s.left[d] = c /\ s.left[a] = d

Others(s, a) == {s.right[a], s.right[s.right[a]], s.right[s.right[s.right[a]]]}

(* Hung, and every node belongs to a row whose columns differ. *)
Woven(s) ==
  /\ Hung(s)
  /\ \A a \in InRows(s) : IsRow(s, a, s.right[a], s.right[s.right[a]], s.right[s.right[s.right[a]]])

LEMMA RowsTurn ==
  ASSUME NEW s, NEW a, NEW b, NEW c, NEW d, IsRow(s, a, b, c, d)
  PROVE  IsRow(s, b, c, d, a) /\ Others(s, a) = {b, c, d}
BY DEF IsRow, Others

(* A node is in the row of another if that is in its row. *)
LEMMA RowsMutual ==
  ASSUME NEW s, Woven(s), NEW a \in InRows(s), NEW b \in Others(s, a)
  PROVE  /\ b \in InRows(s) /\ a \in Others(s, b) /\ s.col[a] # s.col[b] /\ a # b
         /\ {a} \cup Others(s, a) = {b} \cup Others(s, b)
<1> DEFINE x == s.right[a]
           y == s.right[x]
           z == s.right[y]
<1>1. IsRow(s, a, x, y, z)
  BY DEF Woven
<1> HIDE DEF x, y, z
<1>2. IsRow(s, x, y, z, a) /\ IsRow(s, y, z, a, x) /\ IsRow(s, z, a, x, y)
  BY <1>1, RowsTurn
<1>3. /\ Others(s, a) = {x, y, z} /\ Others(s, x) = {y, z, a}
      /\ Others(s, y) = {z, a, x} /\ Others(s, z) = {a, x, y}
  BY <1>1, <1>2, RowsTurn
<1>4. CASE b = x
  BY <1>1, <1>3, <1>4 DEF IsRow
<1>5. CASE b = y
  BY <1>1, <1>3, <1>5 DEF IsRow
<1>6. CASE b = z
  BY <1>1, <1>3, <1>6 DEF IsRow
<1> QED BY <1>3, <1>4, <1>5, <1>6

LEMMA RowOutIs ==
  ASSUME NEW s, Hung(s), NEW m \in Like(s),
         NEW a, NEW b, NEW c, NEW d, IsRow(s, a, b, c, d)
  PROVE  /\ Links!Chain(m.right, a) = <<b, c, d>>
         /\ Links!Chain(m.left, a) = <<d, c, b>>
         /\ Links!RowOut(m, a) = Links!Unlink(Links!Unlink(Links!Unlink(m, b), c), d)
         /\ Links!RowIn(m, a) = Links!Relink(Links!Relink(Links!Relink(m, d), c), b)
<1> DEFINE N == Nodes(s)
           r == m.right
           l == m.left
<1>1. r \in [N -> N] /\ l \in [N -> N] /\ IsFiniteSet(N)
  BY MeshTypes DEF Hung, Like
<1>2. a \in InRows(s) /\ b \in InRows(s) /\ c \in InRows(s) /\ d \in InRows(s)
  BY DEF IsRow
<1>3. a \in N /\ b \in N /\ c \in N /\ d \in N
  BY <1>2 DEF InRows
<1>4. a # b /\ a # c /\ a # d /\ b # c /\ b # d /\ c # d
  BY DEF IsRow
<1>5. \A n \in InRows(s) : r[n] = s.right[n] /\ l[n] = s.left[n]
  BY DEF Like, SameRows
<1>6. r[a] = b /\ r[b] = c /\ r[c] = d /\ r[d] = a
  BY <1>2, <1>5 DEF IsRow
<1>7. l[a] = d /\ l[d] = c /\ l[c] = b /\ l[b] = a
  BY <1>2, <1>5 DEF IsRow
<1> HIDE DEF r, l, N
<1>8. Links!Chain(r, a) = <<b, c, d>>
  BY <1>1, <1>3, <1>4, <1>6, RowChain
<1>9. Links!Chain(l, a) = <<d, c, b>>
  BY <1>1, <1>3, <1>4, <1>7, RowChain
<1>10. Links!RowOut(m, a) = Links!Unlink(Links!Unlink(Links!Unlink(m, b), c), d)
  <2>1. Links!RowOut(m, a) = UnlinkAll(m, Links!Chain(r, a))
    BY DEF Links!RowOut, UnlinkAll, r
  <2> QED BY <1>8, <2>1, ThreeUnlinked
<1>11. Links!RowIn(m, a) = Links!Relink(Links!Relink(Links!Relink(m, d), c), b)
  <2>1. Links!RowIn(m, a) = RelinkAll(m, Links!Chain(l, a))
    BY DEF Links!RowIn, RelinkAll, l
  <2> QED BY <1>9, <2>1, ThreeRelinked
<1> QED BY <1>8, <1>9, <1>10, <1>11 DEF r, l

-----------------------------------------------------------------------------
(* Unlinking a node of a ring. *)

(* The nodes of A are linked in their order, and size counts them. *)
RingAt(m, A, d) ==
  /\ \A n \in A : m.down[n] = Links!After(A, n) /\ m.up[n] = Links!Before(A, n)
  /\ m.size[d] = Cardinality(A) - 1

InColumn(s, X, d) == {n \in X : s.col[n] = d}

(* So are, for every column of D, its nodes among X. *)
Rings(s, m, X, D) == \A d \in D : RingAt(m, InColumn(s, X, d), d)

LEMMA UnlinkHere ==
  ASSUME NEW s, Hung(s), NEW m \in Meshes(s), NEW A \in SUBSET Nodes(s), NEW j \in A,
         RingAt(m, A, s.col[j])
  PROVE  /\ RingAt(Links!Unlink(m, j), A \ {j}, s.col[j])
         /\ Links!Relink(Links!Unlink(m, j), j) = m
<1> DEFINE o == Links!Unlink(m, j)
           d == s.col[j]
<1>1. A \subseteq Nat /\ IsFiniteSet(A) /\ Cardinality(A) \in Nat
  BY FS_Subset, FS_CardinalityType DEF Hung
<1>2. j \in Nodes(s)
  OBVIOUS
<1>3. \A n \in A : m.down[n] = Links!After(A, n) /\ m.up[n] = Links!Before(A, n)
  BY DEF RingAt
<1>4. m.up[m.down[j]] = j /\ m.down[m.up[j]] = j
  <2>1. /\ Links!After(A, j) \in A /\ Links!Before(A, j) \in A
        /\ Links!Before(A, Links!After(A, j)) = j /\ Links!After(A, Links!Before(A, j)) = j
    BY <1>1, Opposite
  <2> QED BY <1>3, <2>1
<1>5. Links!Relink(o, j) = m
  BY <1>2, <1>4, RelinkUndoes
<1>6. Unlinked(s, m, j, o)
  BY <1>2, UnlinkIs
<1>7. /\ m.down \in [Nodes(s) -> Nodes(s)] /\ m.up \in [Nodes(s) -> Nodes(s)]
      /\ m.size \in [Heads(s) -> Int]
  BY MeshTypes
<1>8. d \in Heads(s)
  BY <1>2 DEF Hung
<1> HIDE DEF o, d
<1>9. ASSUME NEW n \in A \ {j}
      PROVE  o.down[n] = Links!After(A \ {j}, n) /\ o.up[n] = Links!Before(A \ {j}, n)
  <2>1. o.down[n] = IF n = m.up[j] THEN m.down[j] ELSE m.down[n]
    BY <1>6, <1>7 DEF Unlinked
  <2>2. o.up[n] = IF n = m.down[j] THEN m.up[j] ELSE m.up[n]
    BY <1>6, <1>7 DEF Unlinked
  <2>3. Links!After(A, n) = j <=> n = Links!Before(A, j)
    BY <1>1, Mutual
  <2>4. Links!Before(A, n) = j <=> n = Links!After(A, j)
    BY <1>1, Mutual
  <2>5. Links!After(A \ {j}, n) =
          IF Links!After(A, n) = j THEN Links!After(A, j) ELSE Links!After(A, n)
    BY <1>1, AfterWithout
  <2>6. Links!Before(A \ {j}, n) =
          IF Links!Before(A, n) = j THEN Links!Before(A, j) ELSE Links!Before(A, n)
    BY <1>1, BeforeWithout
  <2> QED BY <1>3, <2>1, <2>2, <2>3, <2>4, <2>5, <2>6
<1>10. o.size[d] = Cardinality(A \ {j}) - 1
  <2>1. Cardinality(A \ {j}) = Cardinality(A) - 1
    BY <1>1, FS_RemoveElement
  <2>2. o.size[d] = m.size[d] - 1 /\ m.size[d] = Cardinality(A) - 1
    BY <1>6, <1>7, <1>8 DEF Unlinked, RingAt, d
  <2> QED BY <1>1, <2>1, <2>2
<1>11. RingAt(o, A \ {j}, d)
  BY <1>9, <1>10 DEF RingAt
<1> QED BY <1>5, <1>11 DEF o, d

LEMMA UnlinkThere ==
  ASSUME NEW s, Hung(s), NEW m \in Meshes(s),
         NEW A \in SUBSET Nodes(s), NEW j \in A, RingAt(m, A, s.col[j]),
         NEW B \in SUBSET Nodes(s), NEW d, d # s.col[j], RingAt(m, B, d), A \cap B = {},
         d \in Heads(s)
  PROVE  RingAt(Links!Unlink(m, j), B, d)
<1> DEFINE o == Links!Unlink(m, j)
<1>1. A \subseteq Nat /\ IsFiniteSet(A)
  BY FS_Subset DEF Hung
<1>2. j \in Nodes(s)
  OBVIOUS
<1>3. m.down[j] \in A /\ m.up[j] \in A
  <2>1. Links!After(A, j) \in A /\ Links!Before(A, j) \in A
    BY <1>1, Opposite
  <2> QED BY <2>1 DEF RingAt
<1>6. Unlinked(s, m, j, o)
  BY <1>2, UnlinkIs
<1>7. /\ m.down \in [Nodes(s) -> Nodes(s)] /\ m.up \in [Nodes(s) -> Nodes(s)]
      /\ m.size \in [Heads(s) -> Int]
  BY MeshTypes
<1> HIDE DEF o
<1>8. \A n \in B : o.down[n] = m.down[n] /\ o.up[n] = m.up[n]
  BY <1>3, <1>6, <1>7 DEF Unlinked
<1>9. o.size[d] = m.size[d]
  BY <1>6, <1>7 DEF Unlinked
<1> QED BY <1>8, <1>9 DEF RingAt, o

LEMMA UnlinkKeeps ==
  ASSUME NEW s, Hung(s), NEW m \in Meshes(s), NEW D \in SUBSET Heads(s),
         NEW X \in SUBSET Nodes(s), Rings(s, m, X, D), NEW j \in X, s.col[j] \in D
  PROVE  /\ Rings(s, Links!Unlink(m, j), X \ {j}, D)
         /\ Links!Relink(Links!Unlink(m, j), j) = m
<1> DEFINE o == Links!Unlink(m, j)
           e == s.col[j]
           A == InColumn(s, X, e)
<1>1. A \in SUBSET Nodes(s) /\ j \in A
  BY DEF InColumn
<1>2. RingAt(m, A, e)
  BY DEF Rings
<1>3. RingAt(o, A \ {j}, e) /\ Links!Relink(o, j) = m
  BY <1>1, <1>2, UnlinkHere
<1>4. ASSUME NEW d \in D, d # e PROVE RingAt(o, InColumn(s, X, d), d)
  <2>1. InColumn(s, X, d) \in SUBSET Nodes(s) /\ A \cap InColumn(s, X, d) = {} /\ d \in Heads(s)
    BY <1>4 DEF InColumn
  <2>2. RingAt(m, InColumn(s, X, d), d)
    BY DEF Rings
  <2> HIDE DEF A
  <2> QED BY <1>1, <1>2, <1>4, <2>1, <2>2, UnlinkThere
<1>5. InColumn(s, X \ {j}, e) = A \ {j}
  BY DEF InColumn
<1>6. \A d \in D : d # e => InColumn(s, X \ {j}, d) = InColumn(s, X, d)
  BY DEF InColumn
<1> HIDE DEF o, e, A
<1>7. Rings(s, o, X \ {j}, D)
  BY <1>3, <1>4, <1>5, <1>6 DEF Rings
<1> QED BY <1>3, <1>7 DEF o

-----------------------------------------------------------------------------
(* Taking a row out and putting it back. *)

LEMMA UnlinkLike ==
  ASSUME NEW s, Hung(s), NEW m \in Like(s), NEW j \in InRows(s)
  PROVE  /\ Links!Unlink(m, j) \in Like(s) /\ Links!Relink(m, j) \in Like(s)
         /\ Links!Unlink(m, j).right = m.right /\ Links!Unlink(m, j).left = m.left
         /\ Links!Relink(m, j).right = m.right /\ Links!Relink(m, j).left = m.left
<1>1. m \in Meshes(s) /\ SameRows(m, s) /\ j \in Nodes(s)
  BY DEF Like, InRows
<1>2. Unlinked(s, m, j, Links!Unlink(m, j)) /\ Relinked(s, m, j, Links!Relink(m, j))
  BY <1>1, UnlinkIs, RelinkIs
<1> QED BY <1>1, <1>2 DEF Unlinked, Relinked, Like, SameRows

(* The nodes of a row are taken out and put back without another change to *)
(* the rows and the ring of columns.                                       *)
LEMMA RowOutLike ==
  ASSUME NEW s, Woven(s), NEW m \in Like(s), NEW a \in InRows(s)
  PROVE  /\ Links!RowOut(m, a) \in Like(s) /\ Links!RowIn(m, a) \in Like(s)
         /\ Links!RowOut(m, a).right = m.right /\ Links!RowOut(m, a).left = m.left
         /\ Links!RowIn(m, a).right = m.right /\ Links!RowIn(m, a).left = m.left
<1> DEFINE b == s.right[a]
           c == s.right[b]
           d == s.right[c]
<1>1. Hung(s) /\ IsRow(s, a, b, c, d)
  BY DEF Woven
<1> HIDE DEF b, c, d
<1>2. b \in InRows(s) /\ c \in InRows(s) /\ d \in InRows(s)
  BY <1>1 DEF IsRow
<1> DEFINE m1 == Links!Unlink(m, b)
           m2 == Links!Unlink(m1, c)
           m3 == Links!Unlink(m2, d)
           o1 == Links!Relink(m, d)
           o2 == Links!Relink(o1, c)
           o3 == Links!Relink(o2, b)
<1>3. Links!RowOut(m, a) = m3 /\ Links!RowIn(m, a) = o3
  BY <1>1, RowOutIs
<1>4. m1 \in Like(s) /\ m1.right = m.right /\ m1.left = m.left
  BY <1>1, <1>2, UnlinkLike
<1> HIDE DEF m1
<1>5. m2 \in Like(s) /\ m2.right = m.right /\ m2.left = m.left
  BY <1>1, <1>2, <1>4, UnlinkLike
<1> HIDE DEF m2
<1>6. m3 \in Like(s) /\ m3.right = m.right /\ m3.left = m.left
  BY <1>1, <1>2, <1>5, UnlinkLike
<1>7. o1 \in Like(s) /\ o1.right = m.right /\ o1.left = m.left
  BY <1>1, <1>2, UnlinkLike
<1> HIDE DEF o1
<1>8. o2 \in Like(s) /\ o2.right = m.right /\ o2.left = m.left
  BY <1>1, <1>2, <1>7, UnlinkLike
<1> HIDE DEF o2
<1>9. o3 \in Like(s) /\ o3.right = m.right /\ o3.left = m.left
  BY <1>1, <1>2, <1>8, UnlinkLike
<1> HIDE DEF m3, o3
<1> QED BY <1>3, <1>6, <1>9

LEMMA RowOutKeeps ==
  ASSUME NEW s, Woven(s), NEW m \in Like(s), NEW D \in SUBSET Heads(s),
         NEW X \in SUBSET Nodes(s), Rings(s, m, X, D),
         NEW a \in InRows(s), Others(s, a) \subseteq X, \A b \in Others(s, a) : s.col[b] \in D
  PROVE  /\ Rings(s, Links!RowOut(m, a), X \ Others(s, a), D)
         /\ Links!RowIn(Links!RowOut(m, a), a) = m
<1> DEFINE b == s.right[a]
           c == s.right[b]
           d == s.right[c]
<1>1. Hung(s) /\ IsRow(s, a, b, c, d) /\ Others(s, a) = {b, c, d}
  BY DEF Woven, Others
<1> HIDE DEF b, c, d
<1>2. /\ b \in InRows(s) /\ c \in InRows(s) /\ d \in InRows(s)
      /\ b # c /\ b # d /\ c # d
  BY <1>1 DEF IsRow
<1>3. b \in X /\ c \in X /\ d \in X /\ s.col[b] \in D /\ s.col[c] \in D /\ s.col[d] \in D
  BY <1>1
<1> DEFINE m1 == Links!Unlink(m, b)
           m2 == Links!Unlink(m1, c)
           m3 == Links!Unlink(m2, d)
           X1 == X \ {b}
           X2 == X1 \ {c}
           X3 == X2 \ {d}
<1>4. Links!RowOut(m, a) = m3
  BY <1>1, RowOutIs
<1>5. /\ m \in Meshes(s) /\ X1 \in SUBSET Nodes(s) /\ X2 \in SUBSET Nodes(s)
      /\ c \in X1 /\ d \in X2 /\ X3 = X \ {b, c, d}
  BY <1>2, <1>3 DEF Like
<1> HIDE DEF X1, X2, X3
<1>6. m1 \in Like(s) /\ Rings(s, m1, X1, D) /\ Links!Relink(m1, b) = m
  <2>1. Rings(s, m1, X1, D) /\ Links!Relink(m1, b) = m
    BY <1>1, <1>3, <1>5, UnlinkKeeps DEF X1
  <2> QED BY <1>1, <1>2, <2>1, UnlinkLike
<1> HIDE DEF m1
<1>7. m2 \in Like(s) /\ Rings(s, m2, X2, D) /\ Links!Relink(m2, c) = m1
  <2>1. m1 \in Meshes(s)
    BY <1>6 DEF Like
  <2>2. Rings(s, m2, X2, D) /\ Links!Relink(m2, c) = m1
    BY <1>1, <1>3, <1>5, <1>6, <2>1, UnlinkKeeps DEF X2
  <2> QED BY <1>1, <1>2, <1>6, <2>2, UnlinkLike
<1> HIDE DEF m2
<1>8. m3 \in Like(s) /\ Rings(s, m3, X3, D) /\ Links!Relink(m3, d) = m2
  <2>1. m2 \in Meshes(s)
    BY <1>7 DEF Like
  <2>2. Rings(s, m3, X3, D) /\ Links!Relink(m3, d) = m2
    BY <1>1, <1>3, <1>5, <1>7, <2>1, UnlinkKeeps DEF X3
  <2> QED BY <1>1, <1>2, <1>7, <2>2, UnlinkLike
<1> HIDE DEF m3
<1>9. Links!RowIn(m3, a) = Links!Relink(Links!Relink(Links!Relink(m3, d), c), b)
  BY <1>1, <1>8, RowOutIs
<1>10. Links!RowIn(m3, a) = m
  BY <1>6, <1>7, <1>8, <1>9
<1> QED BY <1>1, <1>4, <1>5, <1>8, <1>10

-----------------------------------------------------------------------------
(* Columns: cover and uncover. *)

(* The two outer loops: the rows of a column. *)
RowsOut(m, t) == Links!Applied(Links!RowOut, m, t)
RowsIn(m, t)  == Links!Applied(Links!RowIn, m, t)

(* L row nodes one after the other. *)
RowList(s, t, L) == L \in Nat /\ t \in [1..L -> InRows(s)]

(* The meshes between two of the rows. *)
OutStages(s, h, m, t, L) ==
  /\ h \in [0..L -> Like(s)] /\ h[0] = m
  /\ \A i \in 1..L : h[i] = Links!RowOut(h[i - 1], t[i])

InStages(s, h, m, t, L) ==
  /\ h \in [0..L -> Like(s)] /\ h[0] = m
  /\ \A i \in 1..L : h[i] = Links!RowIn(h[i - 1], t[i])

LEMMA RowsOutStaged ==
  ASSUME NEW s, Woven(s), NEW m \in Like(s), NEW t, NEW L, RowList(s, t, L)
  PROVE  \E h : OutStages(s, h, m, t, L) /\ RowsOut(m, t) = h[L]
<1> DEFINE step == [i \in 1..L |-> [x \in Like(s) |-> Links!RowOut(x, t[i])]]
           Recur(f) == f = [i \in 0..L |-> IF i = 0 THEN m ELSE Links!RowOut(f[i - 1], t[i])]
           h == CHOOSE f : Recur(f)
<1>1. L \in Nat /\ Len(t) = L /\ \A i \in 1..L : t[i] \in InRows(s)
  BY DEF RowList
<1>2. \A i \in 1..L : \A x \in Like(s) : step[i][x] = Links!RowOut(x, t[i])
  OBVIOUS
<1> HIDE DEF step
<1>3. Steps(step, L, Like(s))
  <2>1. \A i \in 1..L : \A x \in Like(s) : Links!RowOut(x, t[i]) \in Like(s)
    BY <1>1, RowOutLike
  <2> QED BY <1>2, <2>1 DEF Steps
<1>4. PICK f : Iterated(f, step, L, m, Like(s))
  BY <1>1, <1>3, Iterates
<1>5. f \in [0..L -> Like(s)] /\ \A i \in 0..L : f[i] = IF i = 0 THEN m ELSE Links!RowOut(f[i - 1], t[i])
  <2>1. f \in [0..L -> Like(s)] /\ f[0] = m /\ \A i \in 1..L : f[i] = step[i][f[i - 1]]
    BY <1>4 DEF Iterated
  <2> QED BY <1>1, <1>2, <2>1
<1>6. Recur(f)
  BY <1>5
<1>7. Recur(h)
  <2> HIDE DEF Recur
  <2> QED BY <1>6
<1>8. RowsOut(m, t) = h[L]
  BY <1>1 DEF RowsOut, Links!Applied
<1> HIDE DEF h
<1>9. h[0] = m /\ (\A i \in 1..L : h[i] = Links!RowOut(h[i - 1], t[i])) /\ DOMAIN h = 0..L
  BY <1>1, <1>7
<1>10. ASSUME NEW k \in 0..L PROVE h[k] \in Like(s)
  <2> DEFINE Bad == {i \in 0..L : h[i] \notin Like(s)}
  <2> SUFFICES ASSUME Bad # {} PROVE FALSE
    OBVIOUS
  <2>1. Bad \subseteq Nat
    OBVIOUS
  <2>2. PICK j \in Bad : \A l \in Bad : j <= l
    BY <2>1, WellOrdered
  <2>3. j \in 1..L
    BY <1>1, <1>9, <2>2
  <2>4. j - 1 \in 0..L /\ j - 1 \notin Bad
    BY <1>1, <2>2, <2>3
  <2>5. h[j - 1] \in Like(s)
    BY <2>4
  <2>6. h[j] \in Like(s)
    BY <1>1, <1>9, <2>3, <2>5, RowOutLike
  <2> QED BY <2>2, <2>6
<1>11. h = [i \in 0..L |-> h[i]]
  <2> HIDE DEF Recur
  <2>1. h = [i \in 0..L |-> IF i = 0 THEN m ELSE Links!RowOut(h[i - 1], t[i])]
    BY <1>7 DEF Recur
  <2> QED BY <2>1
<1>12. h \in [0..L -> Like(s)]
  BY <1>10, <1>11
<1>13. OutStages(s, h, m, t, L)
  BY <1>9, <1>12 DEF OutStages
<1> QED BY <1>8, <1>13

LEMMA RowsInStaged ==
  ASSUME NEW s, Woven(s), NEW m \in Like(s), NEW t, NEW L, RowList(s, t, L)
  PROVE  \E h : InStages(s, h, m, t, L) /\ RowsIn(m, t) = h[L]
<1> DEFINE step == [i \in 1..L |-> [x \in Like(s) |-> Links!RowIn(x, t[i])]]
           Recur(f) == f = [i \in 0..L |-> IF i = 0 THEN m ELSE Links!RowIn(f[i - 1], t[i])]
           h == CHOOSE f : Recur(f)
<1>1. L \in Nat /\ Len(t) = L /\ \A i \in 1..L : t[i] \in InRows(s)
  BY DEF RowList
<1>2. \A i \in 1..L : \A x \in Like(s) : step[i][x] = Links!RowIn(x, t[i])
  OBVIOUS
<1> HIDE DEF step
<1>3. Steps(step, L, Like(s))
  <2>1. \A i \in 1..L : \A x \in Like(s) : Links!RowIn(x, t[i]) \in Like(s)
    BY <1>1, RowOutLike
  <2> QED BY <1>2, <2>1 DEF Steps
<1>4. PICK f : Iterated(f, step, L, m, Like(s))
  BY <1>1, <1>3, Iterates
<1>5. f \in [0..L -> Like(s)] /\ \A i \in 0..L : f[i] = IF i = 0 THEN m ELSE Links!RowIn(f[i - 1], t[i])
  <2>1. f \in [0..L -> Like(s)] /\ f[0] = m /\ \A i \in 1..L : f[i] = step[i][f[i - 1]]
    BY <1>4 DEF Iterated
  <2> QED BY <1>1, <1>2, <2>1
<1>6. Recur(f)
  BY <1>5
<1>7. Recur(h)
  <2> HIDE DEF Recur
  <2> QED BY <1>6
<1>8. RowsIn(m, t) = h[L]
  BY <1>1 DEF RowsIn, Links!Applied
<1> HIDE DEF h
<1>9. h[0] = m /\ (\A i \in 1..L : h[i] = Links!RowIn(h[i - 1], t[i])) /\ DOMAIN h = 0..L
  BY <1>1, <1>7
<1>10. ASSUME NEW k \in 0..L PROVE h[k] \in Like(s)
  <2> DEFINE Bad == {i \in 0..L : h[i] \notin Like(s)}
  <2> SUFFICES ASSUME Bad # {} PROVE FALSE
    OBVIOUS
  <2>1. Bad \subseteq Nat
    OBVIOUS
  <2>2. PICK j \in Bad : \A l \in Bad : j <= l
    BY <2>1, WellOrdered
  <2>3. j \in 1..L
    BY <1>1, <1>9, <2>2
  <2>4. j - 1 \in 0..L /\ j - 1 \notin Bad
    BY <1>1, <2>2, <2>3
  <2>5. h[j - 1] \in Like(s)
    BY <2>4
  <2>6. h[j] \in Like(s)
    BY <1>1, <1>9, <2>3, <2>5, RowOutLike
  <2> QED BY <2>2, <2>6
<1>11. h = [i \in 0..L |-> h[i]]
  <2> HIDE DEF Recur
  <2>1. h = [i \in 0..L |-> IF i = 0 THEN m ELSE Links!RowIn(h[i - 1], t[i])]
    BY <1>7 DEF Recur
  <2> QED BY <2>1
<1>12. h \in [0..L -> Like(s)]
  BY <1>10, <1>11
<1>13. InStages(s, h, m, t, L)
  BY <1>9, <1>12 DEF InStages
<1> QED BY <1>8, <1>13

-----------------------------------------------------------------------------
(* The first two assignments of cover and the last two of uncover. *)

HeadOut(m, c) == [m EXCEPT !.left[m.right[c]] = m.left[c], !.right[m.left[c]] = m.right[c]]
HeadIn(m, c)  == [m EXCEPT !.left[m.right[c]] = c, !.right[m.left[c]] = c]

HeadLinked(m, A) == \A n \in A : m.right[n] = Links!After(A, n) /\ m.left[n] = Links!Before(A, n)

HeadTaken(s, m, A, c) ==
  LET o == HeadOut(m, c)
  IN  /\ o \in Like(s) /\ HeadLinked(o, A \ {c})
      /\ o.down = m.down /\ o.up = m.up /\ o.size = m.size
      /\ HeadIn(o, c) = m

LEMMA HeadOutIs ==
  ASSUME NEW s, Hung(s), NEW m \in Like(s), NEW A \in SUBSET Heads(s), HeadLinked(m, A),
         NEW c \in A
  PROVE  HeadTaken(s, m, A, c)
<1> DEFINE o == HeadOut(m, c)
           right == [m.right EXCEPT ![m.left[c]] = m.right[c]]
           left  == [m.left EXCEPT ![m.right[c]] = m.left[c]]
<1>1. A \subseteq Nat /\ IsFiniteSet(A)
  BY FS_Subset DEF Hung
<1>2. /\ m \in Meshes(s) /\ SameRows(m, s) /\ c \in Nodes(s) /\ A \subseteq Nodes(s)
  BY DEF Like, Hung
<1>3. m.right \in [Nodes(s) -> Nodes(s)] /\ m.left \in [Nodes(s) -> Nodes(s)]
  BY <1>2, MeshTypes
<1>4. m.right[c] \in A /\ m.left[c] \in A /\ m.left[m.right[c]] = c /\ m.right[m.left[c]] = c
  <2>1. /\ Links!After(A, c) \in A /\ Links!Before(A, c) \in A
        /\ Links!Before(A, Links!After(A, c)) = c /\ Links!After(A, Links!Before(A, c)) = c
    BY <1>1, Opposite
  <2> QED BY <2>1 DEF HeadLinked
<1>5. right \in [Nodes(s) -> Nodes(s)] /\ left \in [Nodes(s) -> Nodes(s)]
  BY <1>2, <1>3
<1>6. o = [m EXCEPT !.left = left, !.right = right]
  BY DEF HeadOut
<1>7. \A n \in Nodes(s) : /\ right[n] = IF n = m.left[c] THEN m.right[c] ELSE m.right[n]
                         /\ left[n] = IF n = m.right[c] THEN m.left[c] ELSE m.left[n]
  BY <1>3
<1> HIDE DEF left, right, o
<1>8. /\ o \in Meshes(s) /\ o.right = right /\ o.left = left
      /\ o.down = m.down /\ o.up = m.up /\ o.size = m.size
  BY <1>2, <1>5, <1>6 DEF Meshes
<1>9. o \in Like(s)
  <2>1. \A n \in InRows(s) : n \in Nodes(s) /\ n \notin A
    BY DEF InRows
  <2>2. SameRows(o, s)
    BY <1>2, <1>4, <1>7, <1>8, <2>1 DEF SameRows
  <2> QED BY <1>8, <2>2 DEF Like
<1>10. ASSUME NEW n \in A \ {c}
       PROVE  o.right[n] = Links!After(A \ {c}, n) /\ o.left[n] = Links!Before(A \ {c}, n)
  <2>1. n \in Nodes(s) /\ n \in A
    BY <1>2
  <2>2. m.right[n] = Links!After(A, n) /\ m.left[n] = Links!Before(A, n)
    BY <2>1 DEF HeadLinked
  <2>3. m.right[c] = Links!After(A, c) /\ m.left[c] = Links!Before(A, c)
    BY DEF HeadLinked
  <2>4. Links!After(A, n) = c <=> n = Links!Before(A, c)
    BY <1>1, <2>1, Mutual
  <2>5. Links!After(A, c) = n <=> c = Links!Before(A, n)
    BY <1>1, <2>1, Mutual
  <2>6. Links!After(A \ {c}, n) =
          IF Links!After(A, n) = c THEN Links!After(A, c) ELSE Links!After(A, n)
    BY <1>1, AfterWithout
  <2>7. Links!Before(A \ {c}, n) =
          IF Links!Before(A, n) = c THEN Links!Before(A, c) ELSE Links!Before(A, n)
    BY <1>1, BeforeWithout
  <2> QED BY <1>7, <1>8, <2>1, <2>2, <2>3, <2>4, <2>5, <2>6, <2>7
<1>11. HeadIn(o, c) = m
  <2>1. o.right[c] = m.right[c] /\ o.left[c] = m.left[c]
    BY <1>2, <1>3, <1>7, <1>8
  <2> DEFINE oright == [o.right EXCEPT ![m.left[c]] = c]
             oleft  == [o.left EXCEPT ![m.right[c]] = c]
  <2>2. HeadIn(o, c) = [o EXCEPT !.left = oleft, !.right = oright]
    BY <2>1 DEF HeadIn
  <2>3. oright = m.right
    BY <1>2, <1>3, <1>4, <1>8 DEF right
  <2>4. oleft = m.left
    BY <1>2, <1>3, <1>4, <1>8 DEF left
  <2> HIDE DEF oright, oleft
  <2>5. [o EXCEPT !.left = m.left, !.right = m.right] = m
    BY <1>2, <1>8 DEF Meshes
  <2> QED BY <2>2, <2>3, <2>4, <2>5
<1> QED BY <1>8, <1>9, <1>10, <1>11 DEF HeadTaken, HeadLinked, o

RowColumns(s, a) == {s.col[j] : j \in {a} \cup Others(s, a)}

(* The nodes that have all the columns of their row among H, and H itself. *)
Live(s, H)     == {a \in InRows(s) : RowColumns(s, a) \subseteq H}
Standing(s, H) == H \cup Live(s, H)

(* The mesh is the part of s that the columns H leave. *)
Exact(s, m, H) ==
  /\ m \in Like(s) /\ H \subseteq Heads(s) \ {0}
  /\ HeadLinked(m, {0} \cup H)
  /\ Rings(s, m, Standing(s, H), H)

(* The ring of an open column is the column and the live nodes below it. *)
OpenColumn(s, H, c) == InColumn(s, Standing(s, H), c)

LEMMA ColumnRing ==
  ASSUME NEW s, Woven(s), NEW H \in SUBSET (Heads(s) \ {0}), NEW c \in H
  PROVE  /\ OpenColumn(s, H, c) \in SUBSET Nodes(s) /\ Ring(OpenColumn(s, H, c), c)
         /\ \A a \in OpenColumn(s, H, c) \ {c} : a \in Live(s, H) /\ a \in InRows(s) /\ s.col[a] = c
         /\ \A a \in Live(s, H) : s.col[a] = c => a \in OpenColumn(s, H, c) /\ a # c
<1>1. Hung(s)
  BY DEF Woven
<1>2. OpenColumn(s, H, c) \in SUBSET Nodes(s)
  BY <1>1 DEF OpenColumn, InColumn, Standing, Live, InRows, Hung
<1>3. \A a \in H : a \in Heads(s) /\ s.col[a] = a
  BY <1>1 DEF Hung
<1>4. \A a \in OpenColumn(s, H, c) \ {c} : a \in Live(s, H) /\ a \in InRows(s) /\ s.col[a] = c
  BY <1>3 DEF OpenColumn, InColumn, Standing, Live
<1>5. \A a \in Live(s, H) : s.col[a] = c => a \in OpenColumn(s, H, c) /\ a # c
  BY DEF OpenColumn, InColumn, Standing, Live, InRows
<1>6. c \in OpenColumn(s, H, c)
  BY <1>3 DEF OpenColumn, InColumn, Standing
<1>7. ASSUME NEW a \in OpenColumn(s, H, c) PROVE c <= a
  <2>1. CASE a = c
    BY <1>1, <1>2, <1>6, <2>1 DEF Hung
  <2>2. CASE a # c
    <3>1. a \in InRows(s) /\ s.col[a] = c
      BY <1>4, <2>2
    <3>2. c < a /\ c \in Nat /\ a \in Nat
      BY <1>1, <1>2, <1>6, <3>1 DEF Hung
    <3> QED BY <3>2
  <2> QED BY <2>1, <2>2
<1>8. IsFiniteSet(OpenColumn(s, H, c)) /\ OpenColumn(s, H, c) \subseteq Nat
  BY <1>1, <1>2, FS_Subset DEF Hung
<1> QED BY <1>2, <1>4, <1>5, <1>6, <1>7, <1>8 DEF Ring

(* What is left of the nodes standing after the rows of i nodes of t. *)
Left(s, X, t, i) == X \ UNION {Others(s, t[k]) : k \in 1..i}

(* The rows of the nodes of one column are disjoint. *)
LEMMA RowsApart ==
  ASSUME NEW s, Woven(s), NEW a \in InRows(s), NEW b \in InRows(s),
         s.col[a] = s.col[b], NEW x, x \in Others(s, a), x \in Others(s, b)
  PROVE  a = b
<1>1. a \in Others(s, x) /\ b \in Others(s, x) /\ x \in InRows(s)
  BY RowsMutual
<1>2. a # b => b \in Others(s, a)
  <2>1. {a} \cup Others(s, a) = {x} \cup Others(s, x)
    BY RowsMutual
  <2> QED BY <1>1, <2>1
<1> QED BY <1>2, RowsMutual

(* The stages of cover: every row taken out leaves rings, and its nodes can *)
(* be put back.                                                             *)
CoverStages(s, m, H, c, h) ==
  LET A == OpenColumn(s, H, c)
      t == Rest(A, c)
      L == Count(A, c)
  IN  /\ OutStages(s, h, HeadOut(m, c), t, L)
      /\ Links!Cover(m, c) = h[L]
      /\ \A i \in 0..L : /\ Rings(s, h[i], Left(s, Standing(s, H), t, i), H)
                        /\ h[i].right = HeadOut(m, c).right /\ h[i].left = HeadOut(m, c).left
      /\ \A i \in 1..L : Links!RowIn(h[i], t[i]) = h[i - 1]

LEMMA ColumnListed ==
  ASSUME NEW s, Woven(s), NEW H \in SUBSET (Heads(s) \ {0}), NEW c \in H
  PROVE  /\ RowList(s, Rest(OpenColumn(s, H, c), c), Count(OpenColumn(s, H, c), c))
         /\ \A i \in 1..Count(OpenColumn(s, H, c), c) :
              /\ Rest(OpenColumn(s, H, c), c)[i] \in Live(s, H)
              /\ s.col[Rest(OpenColumn(s, H, c), c)[i]] = c
         /\ \A i, j \in 1..Count(OpenColumn(s, H, c), c) :
              Rest(OpenColumn(s, H, c), c)[i] = Rest(OpenColumn(s, H, c), c)[j] => i = j
         /\ \A a \in Live(s, H) : s.col[a] = c =>
              \E i \in 1..Count(OpenColumn(s, H, c), c) : Rest(OpenColumn(s, H, c), c)[i] = a
<1> DEFINE A == OpenColumn(s, H, c)
           t == Rest(A, c)
           L == Count(A, c)
<1>1. Ring(A, c)
  BY ColumnRing
<1>2. /\ \A a \in A \ {c} : a \in Live(s, H) /\ a \in InRows(s) /\ s.col[a] = c
      /\ \A a \in Live(s, H) : s.col[a] = c => a \in A /\ a # c
  BY ColumnRing
<1> HIDE DEF A
<1>3. /\ L \in Nat /\ t \in [1..L -> A \ {c}]
      /\ \A i, j \in 1..L : i < j <=> t[i] < t[j]
      /\ \A x \in A \ {c} : \E i \in 1..L : t[i] = x
  BY <1>1, RestListed
<1> HIDE DEF t, L
<1>4. RowList(s, t, L)
  BY <1>2, <1>3 DEF RowList
<1>5. ASSUME NEW i \in 1..L, NEW j \in 1..L, t[i] = t[j] PROVE i = j
  <2>1. t[i] \in Nat
    BY <1>1, <1>3 DEF Ring
  <2>2. ~(i < j) /\ ~(j < i)
    BY <1>3, <1>5, <2>1
  <2> QED BY <1>3, <2>2
<1>6. \A i \in 1..L : t[i] \in Live(s, H) /\ s.col[t[i]] = c
  BY <1>2, <1>3
<1>7. ASSUME NEW a \in Live(s, H), s.col[a] = c PROVE \E i \in 1..L : t[i] = a
  BY <1>2, <1>3, <1>7
<1> QED BY <1>4, <1>5, <1>6, <1>7 DEF t, L, A

LEMMA CoverStaged ==
  ASSUME NEW s, Woven(s), NEW m, NEW H, Exact(s, m, H), NEW c \in H
  PROVE  \E h : CoverStages(s, m, H, c, h)
<1> DEFINE A == OpenColumn(s, H, c)
           t == Rest(A, c)
           L == Count(A, c)
           X == Standing(s, H)
           o == HeadOut(m, c)
<1>1. /\ Hung(s) /\ m \in Like(s) /\ H \in SUBSET (Heads(s) \ {0}) /\ HeadLinked(m, {0} \cup H)
      /\ Rings(s, m, X, H)
  BY DEF Woven, Exact
<1>2. /\ A \in SUBSET Nodes(s) /\ Ring(A, c)
  BY <1>1, ColumnRing
<1>3. /\ RowList(s, t, L)
      /\ \A i \in 1..L : t[i] \in Live(s, H) /\ s.col[t[i]] = c
      /\ \A i, j \in 1..L : t[i] = t[j] => i = j
  BY <1>1, ColumnListed
<1>4. o \in Like(s) /\ o.down = m.down /\ o.up = m.up /\ o.size = m.size
  <2>1. PICK K \in SUBSET Heads(s) : K = {0} \cup H
    BY <1>1 DEF Hung
  <2>2. c \in K /\ HeadLinked(m, K)
    BY <1>1, <2>1
  <2>3. HeadTaken(s, m, K, c)
    BY <1>1, <2>2, HeadOutIs
  <2> QED BY <2>3 DEF HeadTaken
<1>5. RingAt(m, A, c)
  BY <1>1 DEF Rings, OpenColumn
<1>6. Links!Chain(m.down, c) = t
  <2>1. Nodes(s) \subseteq Nat /\ IsFiniteSet(Nodes(s))
    BY <1>1 DEF Hung
  <2>2. m.down \in [Nodes(s) -> Nodes(s)]
    BY <1>1, MeshTypes DEF Like
  <2>3. \A n \in A : m.down[n] = Links!After(A, n)
    BY <1>5 DEF RingAt
  <2> HIDE DEF A
  <2> QED BY <1>2, <2>1, <2>2, <2>3, RingChain
<1>7. Links!Cover(m, c) = RowsOut(o, t)
  BY <1>6 DEF Links!Cover, RowsOut, HeadOut
<1>8. PICK h : OutStages(s, h, o, t, L) /\ RowsOut(o, t) = h[L]
  BY <1>3, <1>4, RowsOutStaged
<1>9. L \in Nat /\ \A i \in 1..L : t[i] \in InRows(s)
  BY <1>3 DEF RowList
<1>10. X \in SUBSET Nodes(s)
  BY <1>1 DEF Standing, Live, InRows, Hung
<1>11. Rings(s, o, X, H)
  BY <1>1, <1>4 DEF Rings, RingAt
<1> HIDE DEF A, t, L, X, o
<1>12. /\ h \in [0..L -> Like(s)] /\ h[0] = o
       /\ \A i \in 1..L : h[i] = Links!RowOut(h[i - 1], t[i])
  BY <1>8 DEF OutStages
<1> DEFINE Fine(i) == /\ Rings(s, h[i], Left(s, X, t, i), H)
                      /\ h[i].right = o.right /\ h[i].left = o.left
<1>13. Fine(0)
  <2>1. Left(s, X, t, 0) = X
    BY DEF Left
  <2> QED BY <1>11, <1>12, <2>1
<1>14. ASSUME NEW i \in 1..L, Fine(i - 1)
       PROVE  Fine(i) /\ Links!RowIn(h[i], t[i]) = h[i - 1]
  <2> DEFINE Y == Left(s, X, t, i - 1)
             a == t[i]
             g == h[i - 1]
  <2>1. g \in Like(s) /\ h[i] = Links!RowOut(g, a) /\ a \in InRows(s) /\ s.col[a] = c
    BY <1>3, <1>9, <1>12
  <2>2. Y \in SUBSET Nodes(s)
    BY <1>10 DEF Left
  <2>3. ASSUME NEW b \in Others(s, a) PROVE b \in Y /\ s.col[b] \in H
    <3>1. b \in InRows(s) /\ {a} \cup Others(s, a) = {b} \cup Others(s, b)
      BY <2>1, RowsMutual
    <3>2. RowColumns(s, a) \subseteq H
      BY <1>3 DEF Live
    <3>3. RowColumns(s, b) = RowColumns(s, a) /\ s.col[b] \in RowColumns(s, a)
      BY <3>1 DEF RowColumns
    <3>4. b \in X
      BY <3>1, <3>2, <3>3 DEF X, Standing, Live
    <3>5. ASSUME NEW k \in 1..(i - 1), b \in Others(s, t[k]) PROVE FALSE
      <4>1. k \in 1..L /\ k # i
        BY <1>9
      <4>2. t[k] \in InRows(s) /\ s.col[t[k]] = c
        BY <1>3, <1>9, <4>1
      <4>3. t[k] = a
        BY <2>1, <3>5, <4>2, RowsApart
      <4> QED BY <1>3, <4>1, <4>3
    <3> QED BY <3>2, <3>3, <3>4, <3>5 DEF Left
  <2>4. H \in SUBSET Heads(s)
    BY <1>1
  <2>5. Rings(s, g, Y, H)
    BY <1>14
  <2> HIDE DEF Y, a, g
  <2>6. Rings(s, Links!RowOut(g, a), Y \ Others(s, a), H) /\ Links!RowIn(Links!RowOut(g, a), a) = g
    BY <2>1, <2>2, <2>3, <2>4, <2>5, RowOutKeeps
  <2>7. Links!RowOut(g, a).right = g.right /\ Links!RowOut(g, a).left = g.left
    BY <2>1, RowOutLike
  <2>8. Left(s, X, t, i) = Y \ Others(s, a)
    <3>1. 1..i = (1..(i - 1)) \cup {i}
      BY <1>9
    <3> QED BY <3>1 DEF Left, Y, a
  <2> QED BY <1>14, <2>1, <2>6, <2>7, <2>8 DEF g, a
<1>15. \A i \in 0..L : Fine(i)
  <2> DEFINE Bad == {i \in 0..L : ~Fine(i)}
  <2> HIDE DEF Fine
  <2> SUFFICES ASSUME Bad # {} PROVE FALSE
    OBVIOUS
  <2>1. Bad \subseteq Nat
    OBVIOUS
  <2>2. PICK j \in Bad : \A l \in Bad : j <= l
    BY <2>1, WellOrdered
  <2>3. j # 0
    BY <1>13, <2>2
  <2>4. j \in 1..L /\ j - 1 \in 0..L /\ j - 1 \notin Bad
    BY <1>9, <2>2, <2>3
  <2>5. Fine(j - 1)
    BY <2>4
  <2> QED BY <1>14, <2>2, <2>4, <2>5
<1>16. \A i \in 1..L : Links!RowIn(h[i], t[i]) = h[i - 1]
  <2> SUFFICES ASSUME NEW i \in 1..L PROVE Links!RowIn(h[i], t[i]) = h[i - 1]
    OBVIOUS
  <2>1. Fine(i - 1)
    BY <1>9, <1>15
  <2> QED BY <1>14, <2>1
<1>17. Links!Cover(m, c) = h[L]
  BY <1>7, <1>8
<1> HIDE DEF Fine
<1>18. CoverStages(s, m, H, c, h)
  BY <1>8, <1>15, <1>16, <1>17 DEF CoverStages, Fine, A, t, L, X, o
<1> QED BY <1>18

(* A node in the row of a live node is live. *)
LEMMA RowLives ==
  ASSUME NEW s, Woven(s), NEW a \in InRows(s), NEW b \in Others(s, a)
  PROVE  /\ b \in InRows(s) /\ RowColumns(s, b) = RowColumns(s, a)
         /\ s.col[a] \in RowColumns(s, a) /\ s.col[b] \in RowColumns(s, a)
<1>1. b \in InRows(s) /\ {a} \cup Others(s, a) = {b} \cup Others(s, b)
  BY RowsMutual
<1> QED BY <1>1 DEF RowColumns

(* What cover leaves standing: the other columns, and the rows without a   *)
(* node in the one covered.                                                *)
LEMMA LeftStanding ==
  ASSUME NEW s, Woven(s), NEW H \in SUBSET (Heads(s) \ {0}), NEW c \in H,
         NEW t, t = Rest(OpenColumn(s, H, c), c), NEW L, L = Count(OpenColumn(s, H, c), c)
  PROVE  /\ InColumn(s, Left(s, Standing(s, H), t, L), c) = OpenColumn(s, H, c)
         /\ \A d \in H \ {c} : InColumn(s, Left(s, Standing(s, H), t, L), d) = OpenColumn(s, H \ {c}, d)
<1> DEFINE X == Standing(s, H)
           Y == Left(s, X, t, L)
<1>1. Hung(s)
  BY DEF Woven
<1>2. /\ \A i \in 1..L : t[i] \in Live(s, H) /\ s.col[t[i]] = c
      /\ \A a \in Live(s, H) : s.col[a] = c => \E i \in 1..L : t[i] = a
  BY ColumnListed
<1>3. ASSUME NEW i \in 1..L, NEW b \in Others(s, t[i])
      PROVE  b \in InRows(s) /\ s.col[b] # c /\ c \in RowColumns(s, b)
  <2>1. t[i] \in InRows(s) /\ s.col[t[i]] = c
    BY <1>2 DEF Live
  <2>2. b \in InRows(s) /\ s.col[b] # c
    BY <2>1, RowsMutual
  <2> QED BY <2>1, <2>2, RowLives
<1>4. ASSUME NEW n, s.col[n] = c, n \in X PROVE n \in Y
  BY <1>3, <1>4 DEF Left
<1>5. ASSUME NEW n, n \in Y PROVE n \in X
  BY <1>5 DEF Left
<1>6. InColumn(s, Y, c) = OpenColumn(s, H, c)
  <2> HIDE DEF X, Y
  <2> QED BY <1>4, <1>5 DEF InColumn, OpenColumn, X
<1>7. ASSUME NEW d \in H \ {c}, NEW n \in Y, s.col[n] = d PROVE n \in Standing(s, H \ {c})
  <2>1. n \in X /\ \A i \in 1..L : n \notin Others(s, t[i])
    BY DEF Left
  <2>2. CASE n \in H
    <3>1. s.col[n] = n
      BY <1>1, <2>2 DEF Hung
    <3> QED BY <1>7, <2>2, <3>1 DEF Standing
  <2>3. CASE n \in Live(s, H)
    <3>1. n \in InRows(s) /\ RowColumns(s, n) \subseteq H
      BY <2>3 DEF Live
    <3>2. ASSUME c \in RowColumns(s, n) PROVE FALSE
      <4>1. PICK j \in {n} \cup Others(s, n) : s.col[j] = c
        BY <3>2 DEF RowColumns
      <4>2. j \in Others(s, n)
        BY <1>7, <4>1
      <4>3. j \in InRows(s) /\ RowColumns(s, j) = RowColumns(s, n) /\ n \in Others(s, j)
        BY <3>1, <4>2, RowLives, RowsMutual
      <4>4. j \in Live(s, H)
        BY <3>1, <4>3 DEF Live
      <4>5. PICK i \in 1..L : t[i] = j
        BY <1>2, <4>1, <4>4
      <4> QED BY <2>1, <4>3, <4>5
    <3>3. RowColumns(s, n) \subseteq H \ {c}
      BY <3>1, <3>2
    <3> QED BY <3>1, <3>3 DEF Standing, Live
  <2> QED BY <2>1, <2>2, <2>3 DEF Standing
<1>8. ASSUME NEW d \in H \ {c}, NEW n \in Standing(s, H \ {c}), s.col[n] = d PROVE n \in Y
  <2>1. n \in X
    BY DEF Standing, Live
  <2>2. ASSUME NEW i \in 1..L, n \in Others(s, t[i]) PROVE FALSE
    <3>1. n \in InRows(s) /\ c \in RowColumns(s, n)
      BY <1>3, <2>2
    <3>2. n \notin H
      BY <3>1 DEF InRows
    <3> QED BY <3>1, <3>2 DEF Standing, Live
  <2> QED BY <2>1, <2>2 DEF Left
<1>9. \A d \in H \ {c} : InColumn(s, Y, d) = OpenColumn(s, H \ {c}, d)
  <2> HIDE DEF Y
  <2> QED BY <1>7, <1>8 DEF InColumn, OpenColumn
<1> QED BY <1>6, <1>9

(* cover leaves the part of the mesh without its column, and the column    *)
(* itself as it was.                                                       *)
LEMMA CoverExact ==
  ASSUME NEW s, Woven(s), NEW m, NEW H, Exact(s, m, H), NEW c \in H
  PROVE  /\ Exact(s, Links!Cover(m, c), H \ {c})
         /\ RingAt(Links!Cover(m, c), OpenColumn(s, H, c), c)
<1> DEFINE A == OpenColumn(s, H, c)
           t == Rest(A, c)
           L == Count(A, c)
           o == HeadOut(m, c)
           r == Links!Cover(m, c)
<1>1. /\ Hung(s) /\ m \in Like(s) /\ H \in SUBSET (Heads(s) \ {0}) /\ HeadLinked(m, {0} \cup H)
  BY DEF Woven, Exact
<1>2. PICK h : CoverStages(s, m, H, c, h)
  BY CoverStaged
<1>3. L \in Nat
  BY <1>1, ColumnListed DEF RowList
<1>4. /\ OutStages(s, h, o, t, L) /\ r = h[L]
      /\ \A i \in 0..L : /\ Rings(s, h[i], Left(s, Standing(s, H), t, i), H)
                        /\ h[i].right = o.right /\ h[i].left = o.left
  BY <1>2 DEF CoverStages
<1>5. /\ InColumn(s, Left(s, Standing(s, H), t, L), c) = A
      /\ \A d \in H \ {c} : InColumn(s, Left(s, Standing(s, H), t, L), d) = OpenColumn(s, H \ {c}, d)
  BY <1>1, LeftStanding
<1> HIDE DEF A, t, L, o, r
<1>6. r \in Like(s) /\ Rings(s, r, Left(s, Standing(s, H), t, L), H) /\ r.right = o.right /\ r.left = o.left
  BY <1>3, <1>4 DEF OutStages
<1>7. RingAt(r, A, c)
  BY <1>5, <1>6 DEF Rings
<1>8. Rings(s, r, Standing(s, H \ {c}), H \ {c})
  BY <1>5, <1>6 DEF Rings, OpenColumn
<1>9. HeadLinked(r, {0} \cup (H \ {c}))
  <2>1. PICK K \in SUBSET Heads(s) : K = {0} \cup H
    BY <1>1 DEF Hung
  <2>2. HeadTaken(s, m, K, c)
    BY <1>1, <2>1, HeadOutIs
  <2>3. HeadLinked(o, K \ {c})
    BY <2>2 DEF HeadTaken, o
  <2>4. K \ {c} = {0} \cup (H \ {c})
    BY <1>1, <2>1
  <2> QED BY <1>6, <2>3, <2>4 DEF HeadLinked
<1>10. H \ {c} \subseteq Heads(s) \ {0}
  BY <1>1
<1> QED BY <1>6, <1>7, <1>8, <1>9, <1>10 DEF Exact, A, r

(* uncover restores every link. *)
LEMMA UncoverUndoes ==
  ASSUME NEW s, Woven(s), NEW m, NEW H, Exact(s, m, H), NEW c \in H
  PROVE  Links!Uncover(Links!Cover(m, c), c) = m
<1> DEFINE A == OpenColumn(s, H, c)
           t == Rest(A, c)
           L == Count(A, c)
           o == HeadOut(m, c)
           r == Links!Cover(m, c)
           u == [i \in 1..L |-> t[L + 1 - i]]
<1>1. Hung(s) /\ m \in Like(s) /\ H \in SUBSET (Heads(s) \ {0}) /\ HeadLinked(m, {0} \cup H)
  BY DEF Woven, Exact
<1>2. PICK h : CoverStages(s, m, H, c, h)
  BY CoverStaged
<1>3. L \in Nat /\ t \in [1..L -> InRows(s)]
  BY <1>1, ColumnListed DEF RowList
<1>4. /\ OutStages(s, h, o, t, L) /\ r = h[L]
      /\ \A i \in 0..L : h[i].right = o.right /\ h[i].left = o.left
      /\ \A i \in 1..L : Links!RowIn(h[i], t[i]) = h[i - 1]
  BY <1>2 DEF CoverStages
<1>5. RingAt(r, A, c) /\ A \in SUBSET Nodes(s) /\ Ring(A, c)
  BY <1>1, CoverExact, ColumnRing
<1>6. r \in Like(s) /\ h[0] = o /\ r.right = o.right /\ r.left = o.left
  BY <1>3, <1>4 DEF OutStages
<1>7. Links!Chain(r.up, c) = u
  <2>1. Nodes(s) \subseteq Nat /\ IsFiniteSet(Nodes(s))
    BY <1>1 DEF Hung
  <2>2. r.up \in [Nodes(s) -> Nodes(s)]
    BY <1>1, <1>6, MeshTypes DEF Like
  <2>3. \A n \in A : r.up[n] = Links!Before(A, n)
    BY <1>5 DEF RingAt
  <2>4. u = Back(A, c)
    BY DEF Back
  <2> HIDE DEF A, r, u
  <2> QED BY <1>5, <2>1, <2>2, <2>3, <2>4, RingBack
<1>8. RowList(s, u, L)
  <2> HIDE DEF t, L
  <2>1. \A i \in 1..L : L + 1 - i \in 1..L
    BY <1>3
  <2>2. u \in [1..L -> InRows(s)]
    BY <1>3, <2>1
  <2> QED BY <1>3, <2>2 DEF RowList
<1> HIDE DEF A, t, L, o, r
<1>9. \A i \in 1..L : u[i] = t[L + 1 - i]
  OBVIOUS
<1> HIDE DEF u
<1>10. PICK g : InStages(s, g, r, u, L) /\ RowsIn(r, u) = g[L]
  BY <1>6, <1>8, RowsInStaged
<1>11. g[0] = r /\ \A i \in 1..L : g[i] = Links!RowIn(g[i - 1], u[i])
  BY <1>10 DEF InStages
<1>12. \A i \in 0..L : g[i] = h[L - i]
  <2> DEFINE Bad == {i \in 0..L : g[i] # h[L - i]}
  <2> SUFFICES ASSUME Bad # {} PROVE FALSE
    OBVIOUS
  <2>1. Bad \subseteq Nat
    OBVIOUS
  <2>2. PICK j \in Bad : \A l \in Bad : j <= l
    BY <2>1, WellOrdered
  <2>3. j # 0
    BY <1>3, <1>4, <1>11, <2>2
  <2>4. /\ j \in 1..L /\ j - 1 \in 0..L /\ j - 1 \notin Bad
        /\ L - (j - 1) = L + 1 - j /\ L + 1 - j \in 1..L /\ (L + 1 - j) - 1 = L - j
    BY <1>3, <2>2, <2>3
  <2>5. g[j - 1] = h[L + 1 - j]
    BY <2>4
  <2>6. g[j] = Links!RowIn(h[L + 1 - j], t[L + 1 - j])
    BY <1>9, <1>11, <2>4, <2>5
  <2>7. g[j] = h[L - j]
    BY <1>4, <2>4, <2>6
  <2> QED BY <2>2, <2>7
<1>13. RowsIn(r, u) = o
  <2>1. L \in 0..L /\ L - L = 0
    BY <1>3
  <2> QED BY <1>6, <1>10, <1>12, <2>1
<1>14. Links!Uncover(r, c) = [RowsIn(r, u) EXCEPT !.left[r.right[c]] = c, !.right[r.left[c]] = c]
  BY <1>7 DEF Links!Uncover, RowsIn
<1>15. Links!Uncover(r, c) = HeadIn(o, c)
  BY <1>6, <1>13, <1>14 DEF HeadIn
<1>16. HeadIn(o, c) = m
  <2>1. PICK K \in SUBSET Heads(s) : K = {0} \cup H
    BY <1>1 DEF Hung
  <2>2. HeadTaken(s, m, K, c)
    BY <1>1, <2>1, HeadOutIs
  <2> QED BY <2>2 DEF HeadTaken, o
<1> QED BY <1>15, <1>16 DEF r

(* A row taken: its other columns are covered, in its order. *)
Taken(m, a) == Links!Applied(Links!Cover, m, Links!Columns(m, Links!Chain(m.right, a)))

(* Undoing it, in the opposite order, restores every link. *)
LEMMA TakenUndone ==
  ASSUME NEW s, Woven(s), NEW m, NEW H, Exact(s, m, H),
         NEW a \in InRows(s), \A b \in Others(s, a) : s.col[b] \in H
  PROVE  /\ Exact(s, Taken(m, a), H \ {s.col[b] : b \in Others(s, a)})
         /\ Links!Undone(Taken(m, a), a) = m
<1> DEFINE b == s.right[a]
           c == s.right[b]
           d == s.right[c]
<1>1. Hung(s) /\ IsRow(s, a, b, c, d) /\ Others(s, a) = {b, c, d}
  BY DEF Woven, Others
<1> HIDE DEF b, c, d
<1> DEFINE x == s.col[b]
           y == s.col[c]
           z == s.col[d]
           m1 == Links!Cover(m, x)
           m2 == Links!Cover(m1, y)
           m3 == Links!Cover(m2, z)
           H1 == H \ {x}
           H2 == H1 \ {y}
           H3 == H2 \ {z}
<1>2. /\ x \in H /\ y \in H1 /\ z \in H2
      /\ H3 = H \ {s.col[e] : e \in Others(s, a)}
  BY <1>1 DEF IsRow
<1>3. ASSUME NEW o \in Like(s)
      PROVE  /\ Links!Columns(o, Links!Chain(o.right, a)) = <<x, y, z>>
             /\ Links!Columns(o, Links!Chain(o.left, a)) = <<z, y, x>>
  <2>1. Links!Chain(o.right, a) = <<b, c, d>> /\ Links!Chain(o.left, a) = <<d, c, b>>
    BY <1>1, RowOutIs
  <2>2. o.col = s.col
    BY <1>1, MeshTypes DEF Like
  <2> QED BY <2>1, <2>2 DEF Links!Columns
<1> HIDE DEF x, y, z, H1, H2, H3
<1>4. m \in Like(s)
  BY DEF Exact
<1>5. Exact(s, m1, H1) /\ Links!Uncover(m1, x) = m
  BY <1>2, CoverExact, UncoverUndoes DEF H1
<1> HIDE DEF m1
<1>6. Exact(s, m2, H2) /\ Links!Uncover(m2, y) = m1
  BY <1>2, <1>5, CoverExact, UncoverUndoes DEF H2
<1> HIDE DEF m2
<1>7. Exact(s, m3, H3) /\ Links!Uncover(m3, z) = m2
  BY <1>2, <1>6, CoverExact, UncoverUndoes DEF H3
<1>8. Taken(m, a) = CoverAll(m, <<x, y, z>>)
  BY <1>3, <1>4 DEF Taken, CoverAll
<1>9. Taken(m, a) = m3
  BY <1>8, ThreeCovered DEF m1, m2
<1> HIDE DEF m3
<1>10. Links!Undone(m3, a) = UncoverAll(m3, <<z, y, x>>)
  <2>1. m3 \in Like(s)
    BY <1>7 DEF Exact
  <2> QED BY <1>3, <2>1 DEF Links!Undone, UncoverAll
<1>11. Links!Undone(m3, a) = m
  BY <1>5, <1>6, <1>7, <1>10, ThreeUncovered
<1> QED BY <1>2, <1>7, <1>9, <1>11

-----------------------------------------------------------------------------
(* The mesh of the constructor. *)

LEMMA LinksBoard ==
  /\ Links!NUM = NUM /\ Links!Cells = Cells /\ Links!Values = Values /\ Links!Board = Board
  /\ \A c : Links!Row(c) = Row(c) /\ Links!Col(c) = Col(c) /\ Links!Box(c) = Box(c)
<1>1. Links!NUM = NUM
  BY DEF Links!NUM, NUM
<1>2. Links!Cells = Cells /\ Links!Values = Values
  BY <1>1 DEF Links!Cells, Cells, Links!Values, Values
<1>3. \A c : Links!Row(c) = Row(c) /\ Links!Col(c) = Col(c)
  BY <1>1 DEF Links!Row, Row, Links!Col, Col
<1>4. \A c : Links!Box(c) = Box(c)
  BY <1>3 DEF Links!Box, Box
<1>5. Links!Board = Board
  BY <1>1, <1>2 DEF Links!Board, Board
<1> QED BY <1>1, <1>2, <1>3, <1>4, <1>5

(* Up to the three of the code, names written in decimal digits differ. *)
LEMMA Decimal ==
  ASSUME Band <= 3
  PROVE  NUM \in 1..9 /\ NUM * NUM <= 81
<1>1. Band \in {1, 2, 3}
  BY BandAssumption
<1>2. NUM = Band * Band
  BY NumType
<1>3. CASE Band = 1
  BY <1>2, <1>3
<1>4. CASE Band = 2
  BY <1>2, <1>4
<1>5. CASE Band = 3
  BY <1>2, <1>5
<1> QED BY <1>1, <1>3, <1>4, <1>5

(* The four constraints of a value in a cell are of different kinds. *)
Kinds(t) ==
  /\ t[1] \in Nat /\ t[2] \in Nat /\ t[3] \in Nat /\ t[4] \in Nat
  /\ t[1] < 100 /\ 100 < t[2] /\ t[2] < 200 /\ 200 < t[3] /\ t[3] < 300 /\ 300 < t[4]

LEMMA ConstraintKinds ==
  ASSUME Band <= 3, NEW c \in Cells, NEW v \in Values
  PROVE  /\ Kinds(Links!Constraints(c, v)) /\ Links!Constraints(c, v) \in Seq(Nat)
         /\ Links!Constraints(c, v) =
              <<c, 100 + Row(c) * 10 + v, 200 + Col(c) * 10 + v, 300 + Box(c) * 10 + v>>
<1> DEFINE t == <<c, 100 + Row(c) * 10 + v, 200 + Col(c) * 10 + v, 300 + Box(c) * 10 + v>>
<1>1. Links!Constraints(c, v) = t
  BY LinksBoard DEF Links!Constraints, Links!kRow, Links!kCol, Links!kBox
<1>2. NUM \in 1..9 /\ NUM * NUM <= 81 /\ NUM * NUM \in Nat
  BY Decimal
<1>3. v \in 1..9 /\ c \in 0..80
  BY <1>2 DEF Values, Cells
<1>4. Row(c) \in 0..8 /\ Col(c) \in 0..8 /\ Box(c) \in 0..8
  <2>1. Row(c) \in 0..(NUM - 1) /\ Col(c) \in 0..(NUM - 1) /\ Box(c) \in 0..(NUM - 1)
    BY CellParts, BoxParts
  <2> QED BY <1>2, <2>1
<1>5. Kinds(t) /\ t \in Seq(Nat)
  BY <1>3, <1>4 DEF Kinds
<1> QED BY <1>1, <1>5

(* The name of number x and value v in the q-th group of three. *)
LEMMA NameAt ==
  ASSUME NEW x \in 0..(NUM - 1), NEW v \in Values, NEW q \in 0..2
  PROVE  \E k \in DOMAIN Links!Names : Links!Names[k] = 100 * (q + 1) + x * 10 + v
<1> DEFINE n == NUM * x + (v - 1)
           M == NUM * NUM
           k == M + 1 + (3 * n + q)
<1>1. NUM \in Nat \ {0} /\ M \in Nat /\ v - 1 \in 0..(NUM - 1) /\ x \in Nat /\ v \in Nat
  BY NumType DEF Values
<1>2. n \in 0..(M - 1) /\ n \div NUM = x /\ n % NUM = v - 1
  BY <1>1, Products, Quotient
<1> HIDE DEF n, M
<1>3. k \in 1..(4 * M) /\ k > M /\ k - M - 1 = 3 * n + q
  BY <1>1, <1>2
<1>4. (3 * n + q) \div 3 = n /\ (3 * n + q) % 3 = q
  BY <1>2
<1>5. 4 * NUM * NUM = 4 * M
  BY <1>1 DEF M
<1>6. k \in DOMAIN Links!Names
  BY <1>3, <1>5, LinksBoard DEF Links!Names
<1>7. Links!Names[k] = <<100, 200, 300>>[q + 1] + x * 10 + (v - 1) + 1
  <2>1. ~(k <= NUM * NUM) /\ k - NUM * NUM - 1 = 3 * n + q
    BY <1>1, <1>3 DEF M
  <2>2. Links!Names[k] =
          IF k <= NUM * NUM THEN k - 1
          ELSE <<100, 200, 300>>[((k - NUM * NUM - 1) % 3) + 1]
               + (((k - NUM * NUM - 1) \div 3) \div NUM) * 10 + (((k - NUM * NUM - 1) \div 3) % NUM) + 1
    BY <1>3, <1>5, LinksBoard DEF Links!Names, Links!kRow, Links!kCol, Links!kBox
  <2> HIDE DEF k
  <2> QED BY <1>2, <1>4, <2>1, <2>2
<1>8. <<100, 200, 300>>[q + 1] = 100 * (q + 1)
  <2>1. CASE q = 0
    BY <2>1
  <2>2. CASE q = 1
    BY <2>2
  <2>3. CASE q = 2
    BY <2>3
  <2> QED BY <2>1, <2>2, <2>3
<1> QED BY <1>1, <1>6, <1>7, <1>8

LEMMA NameFound ==
  ASSUME Band <= 3, NEW c \in Cells, NEW v \in Values, NEW i \in 1..4
  PROVE  \E k \in DOMAIN Links!Names : Links!Names[k] = Links!Constraints(c, v)[i]
<1> DEFINE t == <<c, 100 + Row(c) * 10 + v, 200 + Col(c) * 10 + v, 300 + Box(c) * 10 + v>>
<1>1. Links!Constraints(c, v) = t
  BY ConstraintKinds
<1>2. /\ Row(c) \in 0..(NUM - 1) /\ Col(c) \in 0..(NUM - 1) /\ Box(c) \in 0..(NUM - 1)
      /\ NUM \in Nat \ {0}
  BY CellParts, BoxParts, NumType
<1>3. CASE i = 1
  <2>1. c + 1 \in 1..(NUM * NUM) /\ NUM * NUM \in Nat /\ 4 * NUM * NUM = 4 * (NUM * NUM)
    BY <1>2 DEF Cells
  <2>2. c + 1 \in 1..(4 * NUM * NUM) /\ c + 1 <= NUM * NUM
    BY <2>1
  <2>3. c + 1 \in DOMAIN Links!Names /\ Links!Names[c + 1] = c
    BY <2>2, LinksBoard DEF Links!Names, Cells
  <2> QED BY <1>1, <1>3, <2>3
<1>4. CASE i = 2
  <2>1. \E k \in DOMAIN Links!Names : Links!Names[k] = 100 * (0 + 1) + Row(c) * 10 + v
    BY <1>2, NameAt
  <2> QED BY <1>1, <1>4, <2>1
<1>5. CASE i = 3
  <2>1. \E k \in DOMAIN Links!Names : Links!Names[k] = 100 * (1 + 1) + Col(c) * 10 + v
    BY <1>2, NameAt
  <2> QED BY <1>1, <1>5, <2>1
<1>6. CASE i = 4
  <2>1. \E k \in DOMAIN Links!Names : Links!Names[k] = 100 * (2 + 1) + Box(c) * 10 + v
    BY <1>2, NameAt
  <2> QED BY <1>1, <1>6, <2>1
<1> QED BY <1>3, <1>4, <1>5, <1>6

(* list is what s has at the numbers of I, of T every one. *)
TakenFrom(s, I, T) == \A i \in I : s[i] \in T

Lists(list, s, I, T) ==
  /\ list \in Seq(T)
  /\ \A j \in 1..Len(list) : \E i \in I : list[j] = s[i]
  /\ \A i \in I : \E j \in 1..Len(list) : list[j] = s[i]

LEMMA KeptListed ==
  ASSUME NEW s, NEW I, I \subseteq Nat, IsFiniteSet(I), NEW T, TakenFrom(s, I, T)
  PROVE  Lists(Links!Kept(s, I), s, I, T)
<1> DEFINE n == Cardinality(I)
           order == Ascending(I)
           kept == [j \in 1..n |-> s[order[j]]]
<1>1. n \in Nat /\ order \in [1..n -> I] /\ \A i \in I : \E j \in 1..n : order[j] = i
  BY Listed
<1> HIDE DEF n, order
<1>2. Links!Kept(s, I) = kept
  <2>1. DOMAIN order = 1..n /\ Links!Ascending(I) = order
    BY <1>1, SameLinks DEF order
  <2> QED BY <2>1 DEF Links!Kept
<1>3. kept \in [1..n -> T]
  BY <1>1 DEF TakenFrom
<1>4. kept \in Seq(T) /\ Len(kept) = n
  BY <1>1, <1>3
<1>5. \A j \in 1..n : order[j] \in I /\ kept[j] = s[order[j]]
  BY <1>1
<1> HIDE DEF kept
<1>6. \A j \in 1..n : \E i \in I : kept[j] = s[i]
  BY <1>5
<1>7. \A i \in I : \E j \in 1..n : kept[j] = s[i]
  <2> SUFFICES ASSUME NEW i \in I PROVE \E j \in 1..n : kept[j] = s[i]
    OBVIOUS
  <2>1. PICK j \in 1..n : order[j] = i
    BY <1>1
  <2> QED BY <1>5, <2>1
<1> QED BY <1>2, <1>4, <1>6, <1>7 DEF Lists

LEMMA ColumnsListed ==
  ASSUME Band <= 3, NEW p
  PROVE  /\ Links!ColumnNames(p) \in Seq(Int)
         /\ \A c \in Cells, v \in Values, i \in 1..4 :
              Links!Constraints(c, v)[i] \notin Links!Placed(p) =>
                \E j \in 1..Len(Links!ColumnNames(p)) :
                  Links!ColumnNames(p)[j] = Links!Constraints(c, v)[i]
<1> DEFINE I == {k \in DOMAIN Links!Names : Links!Names[k] \notin Links!Placed(p)}
<1>1. DOMAIN Links!Names = 1..(4 * NUM * NUM) /\ 4 * NUM * NUM \in Nat
  BY LinksBoard, NumType DEF Links!Names
<1>2. I \subseteq Nat /\ IsFiniteSet(I)
  <2>1. I \subseteq 1..(4 * NUM * NUM) /\ IsFiniteSet(1..(4 * NUM * NUM))
    BY <1>1, FS_Interval
  <2>2. IsFiniteSet(I)
    BY <2>1, FS_Subset
  <2> QED BY <1>1, <2>1, <2>2
<1>3. \A k \in I : Links!Names[k] \in Int
  <2> SUFFICES ASSUME NEW k \in 1..(4 * NUM * NUM) PROVE Links!Names[k] \in Int
    BY <1>1
  <2> DEFINE l == k - NUM * NUM - 1
  <2>1. NUM \in Nat \ {0} /\ NUM * NUM \in Int /\ k \in Int /\ l \in Int
    BY NumType
  <2>2. Links!Names[k] =
          IF k <= NUM * NUM THEN k - 1
          ELSE <<100, 200, 300>>[(l % 3) + 1] + ((l \div 3) \div NUM) * 10 + ((l \div 3) % NUM) + 1
    BY LinksBoard DEF Links!Names, Links!kRow, Links!kCol, Links!kBox
  <2> HIDE DEF l
  <2>3. l % 3 \in 0..2 /\ l \div 3 \in Int
    BY <2>1
  <2>4. <<100, 200, 300>>[(l % 3) + 1] \in Int
    <3>1. l % 3 = 0 \/ l % 3 = 1 \/ l % 3 = 2
      BY <2>3
    <3> QED BY <3>1
  <2>5. \A x \in Int : x \div NUM \in Int /\ x % NUM \in Int
    BY <2>1
  <2> QED BY <2>1, <2>2, <2>3, <2>4, <2>5
<1>4. Links!ColumnNames(p) = Links!Kept(Links!Names, I)
  BY DEF Links!ColumnNames
<1>5. ASSUME NEW c \in Cells, NEW v \in Values, NEW i \in 1..4,
             Links!Constraints(c, v)[i] \notin Links!Placed(p)
      PROVE  \E k \in I : Links!Names[k] = Links!Constraints(c, v)[i]
  BY <1>5, NameFound
<1>9. \A k \in I : Links!Names[k] \in Int
  BY <1>3
<1> HIDE DEF I
<1> DEFINE kept == Links!Kept(Links!Names, I)
<1>6. /\ kept \in Seq(Int)
      /\ \A k \in I : \E j \in 1..Len(kept) : kept[j] = Links!Names[k]
  <2>1. TakenFrom(Links!Names, I, Int)
    BY <1>9 DEF TakenFrom
  <2>2. Lists(kept, Links!Names, I, Int)
    BY <1>2, <2>1, KeptListed
  <2> QED BY <2>2 DEF Lists
<1> HIDE DEF kept
<1>7. Links!ColumnNames(p) = kept
  BY <1>4 DEF kept
<1>8. ASSUME NEW c \in Cells, NEW v \in Values, NEW i \in 1..4,
             Links!Constraints(c, v)[i] \notin Links!Placed(p)
      PROVE  \E j \in 1..Len(kept) : kept[j] = Links!Constraints(c, v)[i]
  <2>1. PICK k \in I : Links!Names[k] = Links!Constraints(c, v)[i]
    BY <1>5, <1>8
  <2> QED BY <1>6, <2>1
<1> QED BY <1>6, <1>7, <1>8

(* Every constraint of a row names a column, and they differ. *)
LEMMA RowsListed ==
  ASSUME Band <= 3, NEW p
  PROVE  /\ Links!Rows(p) \in Seq(Seq(Nat))
         /\ \A j \in 1..Len(Links!Rows(p)) :
              /\ Kinds(Links!Rows(p)[j])
              /\ \A i \in 1..4 : \E x \in 1..Len(Links!ColumnNames(p)) :
                   Links!ColumnNames(p)[x] = Links!Rows(p)[j][i]
<1> DEFINE M == NUM * NUM
           I == {k \in DOMAIN Links!Guesses : Links!ToSet(Links!Guesses[k]) \cap Links!Placed(p) = {}}
           cell(k)  == (k - 1) \div NUM
           value(k) == ((k - 1) % NUM) + 1
<1>0. NUM \in Nat \ {0} /\ M \in Nat
  BY NumType
<1>1. DOMAIN Links!Guesses = 1..(NUM * M) /\ NUM * M \in Nat
  <2>1. NUM * NUM * NUM = NUM * M /\ NUM * M \in Nat
    BY <1>0 DEF M
  <2> QED BY <2>1, LinksBoard DEF Links!Guesses
<1>2. I \subseteq Nat /\ IsFiniteSet(I)
  <2>1. I \subseteq 1..(NUM * M) /\ IsFiniteSet(1..(NUM * M))
    BY <1>1, FS_Interval
  <2>2. IsFiniteSet(I)
    BY <2>1, FS_Subset
  <2> QED BY <1>1, <2>1, <2>2
<1>3. ASSUME NEW k \in I
      PROVE  /\ cell(k) \in Cells /\ value(k) \in Values
             /\ Links!Guesses[k] = Links!Constraints(cell(k), value(k))
  <2>1. k \in 1..(NUM * M) /\ k - 1 \in 0..(NUM * M - 1) /\ k - 1 \in Nat
    BY <1>1
  <2>2. cell(k) \in 0..(M - 1)
    BY <1>0, <2>1, Below
  <2>3. (k - 1) % NUM \in 0..(NUM - 1)
    BY <1>0, <2>1, Euclid
  <2>4. value(k) \in Values
    BY <1>0, <2>3 DEF Values
  <2>5. Links!Guesses[k] = Links!Constraints(cell(k), value(k))
    <3>1. NUM * NUM * NUM = NUM * M
      BY <1>0 DEF M
    <3> QED BY <2>1, <3>1, LinksBoard DEF Links!Guesses
  <2> QED BY <2>2, <2>4, <2>5 DEF Cells
<1> HIDE DEF cell, value
<1>4. ASSUME NEW k \in I
      PROVE  /\ Kinds(Links!Guesses[k]) /\ Links!Guesses[k] \in Seq(Nat)
             /\ \A i \in 1..4 : \E x \in 1..Len(Links!ColumnNames(p)) :
                  Links!ColumnNames(p)[x] = Links!Guesses[k][i]
  <2> DEFINE t == Links!Constraints(cell(k), value(k))
  <2>1. cell(k) \in Cells /\ value(k) \in Values /\ Links!Guesses[k] = t
    BY <1>3
  <2>2. Kinds(t) /\ t \in Seq(Nat) /\ Len(t) = 4
    BY <2>1, ConstraintKinds
  <2>3. \A i \in 1..4 : t[i] \notin Links!Placed(p)
    <3>1. Links!ToSet(t) \cap Links!Placed(p) = {}
      BY <2>1
    <3>2. \A i \in 1..4 : t[i] \in Links!ToSet(t)
      BY <2>2 DEF Links!ToSet
    <3> QED BY <3>1, <3>2
  <2>4. \A i \in 1..4 : \E x \in 1..Len(Links!ColumnNames(p)) : Links!ColumnNames(p)[x] = t[i]
    BY <2>1, <2>3, ColumnsListed
  <2> QED BY <2>1, <2>2, <2>4
<1>5. Links!Rows(p) = Links!Kept(Links!Guesses, I)
  BY DEF Links!Rows
<1> HIDE DEF I
<1> DEFINE kept == Links!Kept(Links!Guesses, I)
<1>6. /\ kept \in Seq(Seq(Nat))
      /\ \A j \in 1..Len(kept) : \E k \in I : kept[j] = Links!Guesses[k]
  <2>1. TakenFrom(Links!Guesses, I, Seq(Nat))
    BY <1>4 DEF TakenFrom
  <2>2. Lists(kept, Links!Guesses, I, Seq(Nat))
    BY <1>2, <2>1, KeptListed
  <2> HIDE DEF kept
  <2> QED BY <2>2 DEF Lists
<1> HIDE DEF kept
<1>7. Links!Rows(p) = kept
  BY <1>5 DEF kept
<1>8. ASSUME NEW j \in 1..Len(kept)
      PROVE  /\ Kinds(kept[j])
             /\ \A i \in 1..4 : \E x \in 1..Len(Links!ColumnNames(p)) :
                  Links!ColumnNames(p)[x] = kept[j][i]
  <2>1. PICK k \in I : kept[j] = Links!Guesses[k]
    BY <1>6
  <2> QED BY <1>4, <2>1
<1> QED BY <1>6, <1>7, <1>8

(* The nodes of the ring of a node across, and of its column. *)
Place(n, k)   == (n - k - 1) % 4
Across(n, k)  == IF n <= k THEN 0..k ELSE (n - Place(n, k))..(n - Place(n, k) + 3)
Along(s, N, n) == {m \in N : s.col[m] = s.col[n]}

(* s is built of k columns and of rows. *)
Built(s, columns, rows, k, N) ==
  /\ s = [name |-> s.name, col |-> s.col, right |-> s.right, left |-> s.left,
          down |-> s.down, up |-> s.up, size |-> s.size]
  /\ DOMAIN s.name = N /\ DOMAIN s.size = 0..k
  /\ s.right = [n \in N |-> Links!After(Across(n, k), n)]
  /\ s.left = [n \in N |-> Links!Before(Across(n, k), n)]
  /\ s.down = [n \in N |-> Links!After(Along(s, N, n), n)]
  /\ s.up = [n \in N |-> Links!Before(Along(s, N, n), n)]
  /\ s.size = [c \in 0..k |-> Cardinality(Along(s, N, c)) - 1]
  /\ \A n \in N : n > k => s.name[n] = rows[((n - k - 1) \div 4) + 1][Place(n, k) + 1]
  /\ s.col = [n \in N |-> IF n <= k THEN n ELSE CHOOSE c \in 1..k : columns[c] = s.name[n]]

LEMMA DanceBuilt ==
  ASSUME NEW p, NEW columns, columns = Links!ColumnNames(p), NEW rows, rows = Links!Rows(p),
         NEW k \in Nat, k = Len(columns), NEW N, N = 0..(k + 4 * Len(rows))
  PROVE  Built(Links!Dance(p), columns, rows, k, N)
<1> DEFINE s == Links!Dance(p)
           name == [n \in N |-> IF n = 0 THEN 0 ELSE IF n <= k THEN columns[n]
                                ELSE rows[((n - k - 1) \div 4) + 1][Place(n, k) + 1]]
           col  == [n \in N |-> IF n <= k THEN n ELSE CHOOSE c \in 1..k : columns[c] = name[n]]
           along(n) == {m \in N : col[m] = col[n]}
           right == [n \in N |-> Links!After(Across(n, k), n)]
           left  == [n \in N |-> Links!Before(Across(n, k), n)]
           down  == [n \in N |-> Links!After(along(n), n)]
           up    == [n \in N |-> Links!Before(along(n), n)]
           size  == [c \in 0..k |-> Links!Cardinality(along(c)) - 1]
<1>1. s = [name |-> name, col |-> col, right |-> right, left |-> left,
           down |-> down, up |-> up, size |-> size]
  BY DEF Links!Dance, Place, Across
<1> HIDE DEF s, name, col, right, left, down, up, size
<1>2. /\ s.name = name /\ s.col = col /\ s.right = right /\ s.left = left
      /\ s.down = down /\ s.up = up /\ s.size = size
  BY <1>1
<1>3. \A n : along(n) = Along(s, N, n)
  BY <1>2 DEF Along
<1>4. DOMAIN name = N /\ DOMAIN size = 0..k
  BY DEF name, size
<1>5. down = [n \in N |-> Links!After(Along(s, N, n), n)]
  BY <1>3 DEF down
<1>6. up = [n \in N |-> Links!Before(Along(s, N, n), n)]
  BY <1>3 DEF up
<1>7. size = [c \in 0..k |-> Cardinality(Along(s, N, c)) - 1]
  BY <1>3, SameLinks DEF size
<1>8. \A n \in N : n > k => name[n] = rows[((n - k - 1) \div 4) + 1][Place(n, k) + 1]
  <2> SUFFICES ASSUME NEW n \in N, n > k
               PROVE  name[n] = rows[((n - k - 1) \div 4) + 1][Place(n, k) + 1]
    OBVIOUS
  <2>1. n # 0 /\ ~(n <= k)
    OBVIOUS
  <2> QED BY <2>1 DEF name
<1>9. col = [n \in N |-> IF n <= k THEN n ELSE CHOOSE c \in 1..k : columns[c] = name[n]]
  BY DEF col
<1>10. s = [name |-> s.name, col |-> s.col, right |-> s.right, left |-> s.left,
            down |-> s.down, up |-> s.up, size |-> s.size]
  BY <1>1, <1>2
<1>11. right = [n \in N |-> Links!After(Across(n, k), n)] /\ left = [n \in N |-> Links!Before(Across(n, k), n)]
  BY DEF right, left
<1> QED BY <1>2, <1>4, <1>5, <1>6, <1>7, <1>8, <1>9, <1>10, <1>11 DEF Built, s

(* The ring of four nodes. *)
LEMMA FourAcross ==
  ASSUME NEW a \in Nat, NEW A, A = a..(a + 3)
  PROVE  /\ Links!After(A, a) = a + 1 /\ Links!After(A, a + 1) = a + 2
         /\ Links!After(A, a + 2) = a + 3 /\ Links!After(A, a + 3) = a
         /\ Links!Before(A, a) = a + 3 /\ Links!Before(A, a + 1) = a
         /\ Links!Before(A, a + 2) = a + 1 /\ Links!Before(A, a + 3) = a + 2
<1>1. A \subseteq Nat /\ IsFiniteSet(A)
  BY FS_Interval
<1>2. a \in A /\ a + 1 \in A /\ a + 2 \in A /\ a + 3 \in A
  OBVIOUS
<1>3. \A x \in A : x \in {a, a + 1, a + 2, a + 3}
  OBVIOUS
<1>4. Links!After(A, a) = a + 1 /\ Links!After(A, a + 1) = a + 2 /\ Links!After(A, a + 2) = a + 3
  <2>1. \A n \in A : n + 1 \in A => n < n + 1 /\ \A x \in A : x <= n \/ n + 1 <= x
    BY <1>1
  <2>2. \A n \in A : n + 1 \in A => Links!After(A, n) = n + 1
    BY <1>1, <2>1, AfterFound
  <2> QED BY <1>2, <2>2
<1>5. Links!After(A, a + 3) = a
  <2>1. \A x \in A : x <= a + 3 /\ a <= x
    BY <1>3
  <2> QED BY <1>1, <1>2, <2>1, AfterFound
<1>6. \A n \in A, m \in A : Links!After(A, n) = m => Links!Before(A, m) = n
  BY <1>1, Mutual
<1> QED BY <1>2, <1>4, <1>5, <1>6

(* The nodes of a row follow one another: n is the q-th of the j-th. *)
NodeOf(j, q, k) == k + 1 + 4 * j + q

LEMMA NodeSteps ==
  ASSUME NEW k \in Nat, NEW j \in Nat
  PROVE  /\ NodeOf(j, 0, k) \in Nat /\ NodeOf(j, 1, k) = NodeOf(j, 0, k) + 1
         /\ NodeOf(j, 2, k) = NodeOf(j, 0, k) + 2 /\ NodeOf(j, 3, k) = NodeOf(j, 0, k) + 3
BY DEF NodeOf

LEMMA NodeNumber ==
  ASSUME NEW k \in Nat, NEW h \in Nat, NEW j \in 0..(h - 1), NEW q \in 0..3
  PROVE  /\ NodeOf(j, q, k) = k + 1 + 4 * j + q
         /\ NodeOf(j, q, k) \in 0..(k + 4 * h) /\ NodeOf(j, q, k) > k
BY DEF NodeOf

(* n is the q-th node of row j, which begins at a. *)
InRow(n, a, q, j, k, h) ==
  /\ n \in 0..(k + 4 * h) /\ n > k /\ Place(n, k) = q /\ (n - k - 1) \div 4 = j
  /\ Across(n, k) = a..(a + 3)

LEMMA AcrossParts ==
  ASSUME NEW k \in Nat, NEW h \in Nat, NEW j \in 0..(h - 1), NEW q \in 0..3
  PROVE  InRow(NodeOf(j, q, k), NodeOf(j, 0, k), q, j, k, h)
<1>0. PICK n, a : n = NodeOf(j, q, k) /\ a = NodeOf(j, 0, k)
  OBVIOUS
<1>1. /\ n = k + 1 + 4 * j + q /\ n \in 0..(k + 4 * h) /\ n > k /\ a = k + 1 + 4 * j + 0
  <2>1. 0 \in 0..3
    OBVIOUS
  <2> QED BY <1>0, <2>1, NodeNumber
<1>2. n \in Int /\ a \in Int /\ n - k - 1 = 4 * j + q /\ n - q = a /\ ~(n <= k)
  BY <1>1
<1>3. (4 * j + q) % 4 = q /\ (4 * j + q) \div 4 = j
  OBVIOUS
<1>4. Place(n, k) = q
  BY <1>2, <1>3 DEF Place
<1>5. Across(n, k) = (n - q)..(n - q + 3)
  BY <1>2, <1>4 DEF Across
<1>6. (n - k - 1) \div 4 = j
  BY <1>2, <1>3
<1> QED BY <1>0, <1>1, <1>2, <1>4, <1>5, <1>6 DEF InRow

LEMMA NodeParts ==
  ASSUME NEW k \in Nat, NEW h \in Nat, NEW n \in 0..(k + 4 * h), n > k
  PROVE  \E j \in 0..(h - 1), q \in 0..3 : n = NodeOf(j, q, k)
<1> DEFINE j == (n - k - 1) \div 4
           q == (n - k - 1) % 4
<1>1. n - k - 1 \in Nat /\ n - k - 1 < 4 * h
  OBVIOUS
<1>2. j \in 0..(h - 1) /\ q \in 0..3 /\ n - k - 1 = 4 * j + q
  BY <1>1
<1> HIDE DEF j, q
<1>3. n = NodeOf(j, q, k)
  BY <1>2 DEF NodeOf
<1> QED BY <1>2, <1>3

LEMMA KindsDiffer ==
  ASSUME NEW t, Kinds(t), NEW q \in 0..3, NEW r \in 0..3, q # r
  PROVE  t[q + 1] # t[r + 1]
<1>1. /\ t[1] # t[2] /\ t[1] # t[3] /\ t[1] # t[4]
      /\ t[2] # t[3] /\ t[2] # t[4] /\ t[3] # t[4]
  BY DEF Kinds
<1>2. /\ q + 1 = 1 \/ q + 1 = 2 \/ q + 1 = 3 \/ q + 1 = 4
      /\ r + 1 = 1 \/ r + 1 = 2 \/ r + 1 = 3 \/ r + 1 = 4
      /\ q + 1 # r + 1
  OBVIOUS
<1> QED BY <1>1, <1>2

(* Every node of the rows hangs below a column, those of a row below       *)
(* different ones.                                                         *)
HangsBelow(s, k, h) ==
  /\ \A n \in 0..(k + 4 * h) : n > k => s.col[n] \in 1..k
  /\ \A j \in 0..(h - 1) : \A q, r \in 0..3 : q # r => s.col[NodeOf(j, q, k)] # s.col[NodeOf(j, r, k)]

LEMMA ColumnsOf ==
  ASSUME Band <= 3, NEW p, NEW s, s = Links!Dance(p),
         NEW rows, rows = Links!Rows(p), NEW h, h = Len(rows),
         NEW columns, columns = Links!ColumnNames(p), NEW k, k = Len(columns),
         NEW N, N = 0..(k + 4 * h)
  PROVE  k \in Nat /\ h \in Nat /\ Built(s, columns, rows, k, N) /\ HangsBelow(s, k, h)
<1>1. k \in Nat /\ h \in Nat
  BY ColumnsListed, RowsListed
<1>2. Built(s, columns, rows, k, N)
  BY <1>1, DanceBuilt
<1>3. \A j \in 1..h : /\ Kinds(rows[j])
                      /\ \A i \in 1..4 : \E x \in 1..k : columns[x] = rows[j][i]
  <2>1. \A j \in 1..Len(Links!Rows(p)) :
          /\ Kinds(Links!Rows(p)[j])
          /\ \A i \in 1..4 : \E x \in 1..Len(Links!ColumnNames(p)) :
               Links!ColumnNames(p)[x] = Links!Rows(p)[j][i]
    BY RowsListed
  <2> QED BY <2>1
<1>4. ASSUME NEW j \in 0..(h - 1), NEW q \in 0..3
      PROVE  /\ s.col[NodeOf(j, q, k)] \in 1..k
             /\ columns[s.col[NodeOf(j, q, k)]] = rows[j + 1][q + 1]
  <2>1. PICK a : a = NodeOf(j, 0, k)
    OBVIOUS
  <2>2. PICK n : n = NodeOf(j, q, k)
    OBVIOUS
  <2>3. n \in N /\ n > k /\ Place(n, k) = q /\ (n - k - 1) \div 4 = j
    <3>1. InRow(n, a, q, j, k, h)
      BY <1>1, <2>1, <2>2, AcrossParts
    <3> QED BY <3>1 DEF InRow
  <2>4. s.name[n] = rows[j + 1][q + 1]
    BY <1>2, <2>3 DEF Built
  <2>5. s.col[n] = CHOOSE c \in 1..k : columns[c] = s.name[n]
    <3>1. ~(n <= k)
      BY <1>1, <2>3
    <3> QED BY <1>2, <2>3, <3>1 DEF Built
  <2>6. j + 1 \in 1..h /\ q + 1 \in 1..4
    BY <1>1
  <2>7. \E c \in 1..k : columns[c] = s.name[n]
    BY <1>3, <2>4, <2>6
  <2>8. s.col[n] \in 1..k /\ columns[s.col[n]] = s.name[n]
    BY <2>5, <2>7
  <2> QED BY <2>2, <2>4, <2>8
<1>5. ASSUME NEW n \in 0..(k + 4 * h), n > k PROVE s.col[n] \in 1..k
  <2>1. PICK j \in 0..(h - 1), q \in 0..3 : n = NodeOf(j, q, k)
    BY <1>1, <1>5, NodeParts
  <2> QED BY <1>4, <2>1
<1>6. ASSUME NEW j \in 0..(h - 1), NEW q \in 0..3, NEW r \in 0..3, q # r
      PROVE  s.col[NodeOf(j, q, k)] # s.col[NodeOf(j, r, k)]
  <2>1. columns[s.col[NodeOf(j, q, k)]] = rows[j + 1][q + 1]
        /\ columns[s.col[NodeOf(j, r, k)]] = rows[j + 1][r + 1]
    BY <1>4
  <2>2. j + 1 \in 1..h
    BY <1>1
  <2>3. PICK t : t = rows[j + 1]
    OBVIOUS
  <2>4. Kinds(t)
    BY <1>3, <2>2, <2>3
  <2>5. t[q + 1] # t[r + 1]
    BY <1>6, <2>4, KindsDiffer
  <2> QED BY <2>1, <2>3, <2>5
<1> QED BY <1>1, <1>2, <1>5, <1>6 DEF HangsBelow

(* The links across of the columns and of a row. *)
LEMMA AcrossIs ==
  ASSUME Band <= 3, NEW p, NEW s, s = Links!Dance(p)
  PROVE  /\ Hung(s) /\ HeadLinked(s, Heads(s))
         /\ \A n \in InRows(s) :
              \E a, b, c, d : IsRow(s, a, b, c, d) /\ n \in {a, b, c, d}
<1>1. PICK rows : rows = Links!Rows(p)
  OBVIOUS
<1>2. PICK columns : columns = Links!ColumnNames(p)
  OBVIOUS
<1>3. PICK k : k = Len(columns)
  OBVIOUS
<1>4. PICK h : h = Len(rows)
  OBVIOUS
<1>5. PICK N : N = 0..(k + 4 * h)
  OBVIOUS
<1>6. k \in Nat /\ h \in Nat /\ Built(s, columns, rows, k, N) /\ HangsBelow(s, k, h)
  BY <1>1, <1>2, <1>3, <1>4, <1>5, ColumnsOf
<1>7. k \in Nat /\ h \in Nat
  BY <1>6
<1>8. \A n \in N : n > k => s.col[n] \in 1..k
  BY <1>5, <1>6 DEF HangsBelow
<1>9. Nodes(s) = N /\ Heads(s) = 0..k
  BY <1>6 DEF Built, Nodes, Heads
<1>10. \A n \in N : /\ s.right[n] = Links!After(Across(n, k), n)
                    /\ s.left[n] = Links!Before(Across(n, k), n)
  BY <1>6 DEF Built
<1>11. s.col \in [N -> 0..k] /\ \A n \in N : n <= k => s.col[n] = n
  <2>1. s.col = [n \in N |-> s.col[n]] /\ \A n \in N : n <= k => s.col[n] = n
    BY <1>6 DEF Built
  <2>2. \A n \in N : s.col[n] \in 0..k
    BY <1>5, <1>7, <1>8, <2>1
  <2> HIDE DEF Built
  <2> QED BY <2>1, <2>2
<1>12. InRows(s) = {n \in N : n > k} /\ 0..k \subseteq N /\ N \subseteq Nat
  BY <1>5, <1>7, <1>9 DEF InRows
<1>13. IsFiniteSet(N)
  BY <1>5, <1>7, FS_Interval
<1>14. Hung(s)
  <2>1. \A n \in InRows(s) : s.col[n] # 0 /\ s.col[n] < n
    <3> SUFFICES ASSUME NEW n \in InRows(s) PROVE s.col[n] # 0 /\ s.col[n] < n
      OBVIOUS
    <3>1. n \in N /\ n > k /\ n \in Nat
      BY <1>12
    <3>2. s.col[n] \in 1..k
      BY <1>8, <3>1
    <3> QED BY <1>7, <3>1, <3>2
  <2>2. \A c \in 0..k : s.col[c] = c
    BY <1>7, <1>11, <1>12
  <2>3. 0 \in 0..k
    BY <1>7
  <2> QED BY <1>9, <1>11, <1>12, <1>13, <2>1, <2>2, <2>3 DEF Hung
<1>15. HeadLinked(s, Heads(s))
  <2>1. \A n \in 0..k : Across(n, k) = 0..k
    BY <1>7 DEF Across
  <2> QED BY <1>9, <1>10, <1>12, <2>1 DEF HeadLinked
<1>16. ASSUME NEW n \in InRows(s)
       PROVE  \E a, b, c, d : IsRow(s, a, b, c, d) /\ n \in {a, b, c, d}
  <2>1. n \in 0..(k + 4 * h) /\ n > k
    BY <1>5, <1>12
  <2>2. PICK j \in 0..(h - 1), r \in 0..3 : n = NodeOf(j, r, k)
    BY <1>7, <2>1, NodeParts
  <2>3. PICK a : a = NodeOf(j, 0, k)
    OBVIOUS
  <2>4. PICK A : A = a..(a + 3)
    OBVIOUS
  <2>5. ASSUME NEW q \in 0..3, NEW m, m = NodeOf(j, q, k)
        PROVE  m \in N /\ m > k /\ Across(m, k) = A
    <3>1. InRow(m, a, q, j, k, h)
      BY <1>7, <2>3, <2>5, AcrossParts
    <3> QED BY <1>5, <2>4, <3>1 DEF InRow
  <2>6. 0 \in 0..3 /\ 1 \in 0..3 /\ 2 \in 0..3 /\ 3 \in 0..3 /\ j \in Nat
    OBVIOUS
  <2>7. PICK b, c, d : b = NodeOf(j, 1, k) /\ c = NodeOf(j, 2, k) /\ d = NodeOf(j, 3, k)
    OBVIOUS
  <2>8. a \in Nat /\ b = a + 1 /\ c = a + 2 /\ d = a + 3
    BY <1>7, <2>3, <2>6, <2>7, NodeSteps
  <2>9. /\ a \in N /\ b \in N /\ c \in N /\ d \in N /\ a > k /\ b > k /\ c > k /\ d > k
        /\ Across(a, k) = A /\ Across(b, k) = A /\ Across(c, k) = A /\ Across(d, k) = A
    BY <2>3, <2>5, <2>6, <2>7
  <2>10. /\ Links!After(A, a) = b /\ Links!After(A, b) = c /\ Links!After(A, c) = d /\ Links!After(A, d) = a
         /\ Links!Before(A, a) = d /\ Links!Before(A, b) = a /\ Links!Before(A, c) = b /\ Links!Before(A, d) = c
    BY <2>4, <2>8, FourAcross
  <2>11. /\ s.right[a] = b /\ s.right[b] = c /\ s.right[c] = d /\ s.right[d] = a
         /\ s.left[b] = a /\ s.left[c] = b /\ s.left[d] = c /\ s.left[a] = d
    BY <1>10, <2>9, <2>10
  <2>12. NodeOf(j, 0, k) = a /\ NodeOf(j, 1, k) = b /\ NodeOf(j, 2, k) = c /\ NodeOf(j, 3, k) = d
    BY <2>3, <2>7
  <2>13. \A x, y \in 0..3 : x # y => s.col[NodeOf(j, x, k)] # s.col[NodeOf(j, y, k)]
    BY <1>6 DEF HangsBelow
  <2>14. /\ s.col[a] # s.col[b] /\ s.col[a] # s.col[c] /\ s.col[a] # s.col[d]
         /\ s.col[b] # s.col[c] /\ s.col[b] # s.col[d] /\ s.col[c] # s.col[d]
    <3>1. 0 # 1 /\ 0 # 2 /\ 0 # 3 /\ 1 # 2 /\ 1 # 3 /\ 2 # 3
      OBVIOUS
    <3> QED BY <2>6, <2>12, <2>13, <3>1
  <2>15. IsRow(s, a, b, c, d)
    BY <1>12, <2>9, <2>11, <2>14 DEF IsRow
  <2>16. n \in {a, b, c, d}
    <3>1. r = 0 \/ r = 1 \/ r = 2 \/ r = 3
      OBVIOUS
    <3> QED BY <2>2, <2>12, <3>1
  <2> QED BY <2>15, <2>16
<1> QED BY <1>14, <1>15, <1>16

LEMMA DanceWoven ==
  ASSUME Band <= 3, NEW p
  PROVE  Woven(Links!Dance(p))
<1>1. PICK s : s = Links!Dance(p)
  OBVIOUS
<1>2. ASSUME NEW n \in InRows(s)
      PROVE  IsRow(s, n, s.right[n], s.right[s.right[n]], s.right[s.right[s.right[n]]])
  <2>1. PICK a, b, c, d : IsRow(s, a, b, c, d) /\ n \in {a, b, c, d}
    BY <1>1, AcrossIs
  <2>2. IsRow(s, b, c, d, a) /\ IsRow(s, c, d, a, b) /\ IsRow(s, d, a, b, c)
    BY <2>1, RowsTurn
  <2>3. PICK x, y, z : IsRow(s, n, x, y, z)
    BY <2>1, <2>2
  <2>4. x = s.right[n] /\ y = s.right[x] /\ z = s.right[y]
    BY <2>3 DEF IsRow
  <2> QED BY <2>3, <2>4
<1> QED BY <1>1, <1>2, AcrossIs DEF Woven

(* The first mesh is exact. *)
LEMMA DanceExact ==
  ASSUME Band <= 3, NEW p
  PROVE  Exact(Links!Dance(p), Links!Dance(p), Heads(Links!Dance(p)) \ {0})
<1>1. PICK s : s = Links!Dance(p)
  OBVIOUS
<1>2. PICK rows : rows = Links!Rows(p)
  OBVIOUS
<1>3. PICK columns : columns = Links!ColumnNames(p)
  OBVIOUS
<1>4. PICK k, h, N : k = Len(columns) /\ h = Len(rows) /\ N = 0..(k + 4 * h)
  OBVIOUS
<1>5. k \in Nat /\ h \in Nat /\ Built(s, columns, rows, k, N)
  BY <1>1, <1>2, <1>3, <1>4, ColumnsOf
<1>6. Hung(s) /\ Woven(s) /\ HeadLinked(s, Heads(s))
  BY <1>1, DanceWoven, AcrossIs
<1>7. /\ Nodes(s) = N /\ Heads(s) = 0..k /\ N \subseteq Nat /\ IsFiniteSet(N)
  BY <1>5, <1>6 DEF Built, Nodes, Heads, Hung
<1>8. \A n \in N : /\ Along(s, N, n) \in SUBSET N /\ n \in Along(s, N, n)
                   /\ IsFiniteSet(Along(s, N, n)) /\ Along(s, N, n) \subseteq Nat
  <2> SUFFICES ASSUME NEW n \in N PROVE IsFiniteSet(Along(s, N, n))
    BY <1>7 DEF Along
  <2>1. Along(s, N, n) \subseteq N
    BY DEF Along
  <2> QED BY <1>7, <2>1, FS_Subset
<1>9. \A n \in N : /\ Across(n, k) \in SUBSET N /\ n \in Across(n, k)
                   /\ IsFiniteSet(Across(n, k)) /\ Across(n, k) \subseteq Nat
  <2> SUFFICES ASSUME NEW n \in N PROVE Across(n, k) \in SUBSET N /\ n \in Across(n, k)
    <3>1. \A S \in SUBSET N : IsFiniteSet(S) /\ S \subseteq Nat
      BY <1>7, FS_Subset
    <3> QED BY <3>1
  <2>1. CASE n <= k
    BY <1>4, <1>5, <2>1 DEF Across
  <2>2. CASE ~(n <= k)
    <3>1. n > k /\ n \in 0..(k + 4 * h)
      BY <1>4, <1>5, <1>7, <2>2
    <3>2. PICK j \in 0..(h - 1), q \in 0..3 : n = NodeOf(j, q, k)
      BY <1>5, <3>1, NodeParts
    <3>3. PICK a : a = NodeOf(j, 0, k)
      OBVIOUS
    <3>4. Across(n, k) = a..(a + 3)
      <4>1. InRow(n, a, q, j, k, h)
        BY <1>5, <3>2, <3>3, AcrossParts
      <4> QED BY <4>1 DEF InRow
    <3>5. a \in N /\ a + 3 \in N /\ a \in Nat
      <4>1. 0 \in 0..3 /\ 3 \in 0..3 /\ j \in Nat
        OBVIOUS
      <4>2. a \in 0..(k + 4 * h) /\ NodeOf(j, 3, k) \in 0..(k + 4 * h)
        BY <1>5, <3>3, <4>1, NodeNumber
      <4>3. NodeOf(j, 3, k) = a + 3 /\ a \in Nat
        BY <1>5, <3>3, <4>1, NodeSteps
      <4> QED BY <1>4, <4>2, <4>3
    <3>6. n \in a..(a + 3)
      <4>1. j \in Nat /\ q \in 0..3 /\ 0 \in 0..3
        OBVIOUS
      <4>2. n = k + 1 + 4 * j + q /\ a = k + 1 + 4 * j + 0
        BY <1>5, <3>2, <3>3, <4>1, NodeNumber
      <4> QED BY <1>5, <4>1, <4>2
    <3>7. a..(a + 3) \subseteq N
      BY <1>4, <1>5, <3>5
    <3> QED BY <3>4, <3>6, <3>7
  <2> QED BY <2>1, <2>2
<1>10. \A n \in N : /\ Links!After(Across(n, k), n) \in N /\ Links!Before(Across(n, k), n) \in N
                    /\ Links!After(Along(s, N, n), n) \in N /\ Links!Before(Along(s, N, n), n) \in N
  <2> SUFFICES ASSUME NEW n \in N
               PROVE  /\ Links!After(Across(n, k), n) \in N /\ Links!Before(Across(n, k), n) \in N
                      /\ Links!After(Along(s, N, n), n) \in N /\ Links!Before(Along(s, N, n), n) \in N
    OBVIOUS
  <2>1. \A A \in SUBSET N : n \in A /\ IsFiniteSet(A) /\ A \subseteq Nat =>
          Links!After(A, n) \in N /\ Links!Before(A, n) \in N
    BY Opposite
  <2> QED BY <1>8, <1>9, <2>1
<1>11. \A c \in 0..k : Cardinality(Along(s, N, c)) - 1 \in Int
  <2>1. 0..k \subseteq N
    BY <1>6, <1>7 DEF Hung
  <2>2. \A n \in N : Cardinality(Along(s, N, n)) \in Nat
    BY <1>8, FS_CardinalityType
  <2> QED BY <2>1, <2>2
<1>12. s \in Like(s)
  <2>1. /\ s.right \in [N -> N] /\ s.left \in [N -> N]
        /\ s.down \in [N -> N] /\ s.up \in [N -> N] /\ s.size \in [0..k -> Int]
    <3>1. s.right \in [N -> N] /\ s.left \in [N -> N]
      BY <1>5, <1>10 DEF Built
    <3>2. s.down \in [N -> N] /\ s.up \in [N -> N]
      BY <1>5, <1>10 DEF Built
    <3>3. s.size \in [0..k -> Int]
      BY <1>5, <1>11 DEF Built
    <3> QED BY <3>1, <3>2, <3>3
  <2>2. s = [name |-> s.name, col |-> s.col, right |-> s.right, left |-> s.left,
             down |-> s.down, up |-> s.up, size |-> s.size]
    BY <1>5 DEF Built
  <2>3. s \in Meshes(s)
    BY <1>7, <2>1, <2>2 DEF Meshes
  <2> QED BY <2>3 DEF Like, SameRows
<1>13. HeadLinked(s, {0} \cup (Heads(s) \ {0}))
  <2>1. {0} \cup (Heads(s) \ {0}) = Heads(s)
    BY <1>6 DEF Hung
  <2> QED BY <1>6, <2>1
<1>14. Standing(s, Heads(s) \ {0}) = N \ {0}
  <2>1. \A a \in InRows(s) : RowColumns(s, a) \subseteq Heads(s) \ {0}
    <3> SUFFICES ASSUME NEW a \in InRows(s), NEW j \in {a} \cup Others(s, a)
                 PROVE  s.col[j] \in Heads(s) \ {0}
      BY DEF RowColumns
    <3>1. j \in InRows(s)
      BY <1>6, RowsMutual
    <3> QED BY <1>6, <3>1 DEF Hung, InRows
  <2>2. Live(s, Heads(s) \ {0}) = InRows(s)
    BY <2>1 DEF Live
  <2> QED BY <1>6, <1>7, <2>2 DEF Standing, InRows, Hung
<1>15. ASSUME NEW d \in Heads(s) \ {0}
       PROVE  RingAt(s, InColumn(s, N \ {0}, d), d)
  <2>1. d \in N /\ d \in 0..k /\ d # 0 /\ s.col[d] = d
    BY <1>6, <1>7 DEF Hung
  <2>2. s.col[0] = 0
    BY <1>6 DEF Hung
  <2>3. \A n \in N : s.col[n] = d => Along(s, N, n) = InColumn(s, N \ {0}, d)
    BY <2>1, <2>2 DEF Along, InColumn
  <2>4. \A n \in N : /\ s.down[n] = Links!After(Along(s, N, n), n)
                     /\ s.up[n] = Links!Before(Along(s, N, n), n)
    BY <1>5 DEF Built
  <2>5. s.size[d] = Cardinality(Along(s, N, d)) - 1
    BY <1>5, <2>1 DEF Built
  <2>6. \A n \in InColumn(s, N \ {0}, d) : n \in N /\ s.col[n] = d
    BY DEF InColumn
  <2> QED BY <2>1, <2>3, <2>4, <2>5, <2>6 DEF RingAt
<1>16. Rings(s, s, Standing(s, Heads(s) \ {0}), Heads(s) \ {0})
  BY <1>14, <1>15 DEF Rings
<1> QED BY <1>1, <1>12, <1>13, <1>16 DEF Exact

-----------------------------------------------------------------------------
(* The inductive invariant of the dancing links. *)

Start == Links!Dance(puzzle)

Call(s) == [col : Heads(s), row : Nodes(s)]

(* before[d] is the mesh when call d was entered, open[d] its columns. *)
Entered(s, before, open, n) ==
  /\ before[1] = s /\ open[1] = Heads(s) \ {0}
  /\ \A d \in 1..(n + 1) : Exact(s, before[d], open[d])

(* Call d has covered column col and taken a row of its ring. *)
TookRow(s, before, open, d, col, row) ==
  /\ col \in open[d] /\ row \in Live(s, open[d]) /\ s.col[row] = col
  /\ before[d + 1] = Taken(Links!Cover(before[d], col), row)
  /\ open[d + 1] = open[d] \ RowColumns(s, row)

(* The loop of a call over the ring of its column, which is covered. *)
Looping(s, m, before, open, d, col, row) ==
  /\ col \in open[d] /\ row \in OpenColumn(s, open[d], col)
  /\ m = Links!Cover(before[d], col)

(* The calls, those that have taken a row first: at the call in progress   *)
(* the mesh is the one of its entry, in a loop without the column.         *)
History(s, m, taken, calls, loop, before, open) ==
  LET n == Len(taken)
  IN  /\ Entered(s, before, open, n)
      /\ \A d \in 1..n : calls[d].row = taken[d] /\ TookRow(s, before, open, d, calls[d].col, taken[d])
      /\ IF loop
         THEN /\ Len(calls) = n + 1
              /\ Looping(s, m, before, open, n + 1, calls[n + 1].col, calls[n + 1].row)
         ELSE Len(calls) = n /\ m = before[n + 1]

Solving(s, m, taken, calls, place) ==
  /\ Woven(s)
  /\ taken \in Seq(InRows(s)) /\ calls \in Seq(Call(s))
  /\ place = "loop" => \E before, open : History(s, m, taken, calls, TRUE, before, open)
  /\ place # "loop" => \E before, open : History(s, m, taken, calls, FALSE, before, open)
  /\ place = "back" => Len(taken) > 0

LinksInv == Solving(Start, mesh, stack_, frames, at)

-----------------------------------------------------------------------------
(* What the steps need. *)

LEMMA FrontSays ==
  ASSUME NEW T, NEW q \in Seq(T), Len(q) > 0
  PROVE  /\ Links!Front(q) \in Seq(T) /\ Len(Links!Front(q)) = Len(q) - 1
         /\ \A d \in 1..(Len(q) - 1) : Links!Front(q)[d] = q[d]
<1> DEFINE e == Len(q) - 1
           front == SubSeq(q, 1, e)
<1>1. Links!Front(q) = front
  BY DEF Links!Front
<1>2. e \in Nat /\ 1 \in Int /\ \A i \in 1..e : q[i] \in T
  OBVIOUS
<1> HIDE DEF e
<1>3. /\ front \in Seq(T)
      /\ Len(front) = IF 1 <= e THEN e - 1 + 1 ELSE 0
      /\ \A i \in 1..(e - 1 + 1) : front[i] = q[1 + i - 1]
  BY <1>2, SubSeqProperties
<1>4. ASSUME NEW i \in 1..e PROVE front[i] = q[i]
  <2>1. i \in 1..(e - 1 + 1) /\ 1 + i - 1 = i
    BY <1>2
  <2> QED BY <1>3, <2>1
<1>5. Len(front) = e
  BY <1>2, <1>3
<1> QED BY <1>1, <1>3, <1>4, <1>5 DEF e

(* The column chosen is one of the columns left. *)
LEMMA MinColumnOpen ==
  ASSUME NEW s, Woven(s), NEW m, NEW H, Exact(s, m, H), m.left[0] # 0
  PROVE  Links!MinColumn(m) \in H
<1>1. /\ Hung(s) /\ m \in Like(s) /\ H \in SUBSET (Heads(s) \ {0}) /\ HeadLinked(m, {0} \cup H)
      /\ Rings(s, m, Standing(s, H), H)
  BY DEF Woven, Exact
<1>2. PICK K : K = {0} \cup H
  OBVIOUS
<1>3. K \in SUBSET Heads(s) /\ K \in SUBSET Nodes(s) /\ 0 \in K
  BY <1>1, <1>2 DEF Hung
<1>4. K \subseteq Nat /\ IsFiniteSet(K) /\ Nodes(s) \subseteq Nat /\ IsFiniteSet(Nodes(s))
  BY <1>1, <1>3, FS_Subset DEF Hung
<1>5. Ring(K, 0)
  BY <1>3, <1>4 DEF Ring
<1>6. HeadLinked(m, K)
  BY <1>1, <1>2
<1>7. Links!Chain(m.right, 0) = Rest(K, 0)
  <2>1. m.right \in [Nodes(s) -> Nodes(s)]
    BY <1>1, MeshTypes DEF Like
  <2>2. \A n \in K : m.right[n] = Links!After(K, n)
    BY <1>6 DEF HeadLinked
  <2> QED BY <1>3, <1>4, <1>5, <2>1, <2>2, RingChain, ZenonT(30)
<1>8. PICK L, t : L = Count(K, 0) /\ t = Rest(K, 0)
  OBVIOUS
<1>9. L \in Nat /\ t \in [1..L -> K \ {0}]
  BY <1>5, <1>8, RestListed
<1>10. L # 0
  <2>1. m.left[0] = Links!Before(K, 0)
    BY <1>3, <1>6 DEF HeadLinked
  <2>2. L = 0 => Links!Before(K, 0) = 0
    BY <1>5, <1>8, RestLinked
  <2> QED BY <2>1, <2>2
<1>11. ASSUME NEW d \in H PROVE m.size[d] \in Nat
  <2>1. PICK A : A = OpenColumn(s, H, d)
    OBVIOUS
  <2>2. d \in A /\ IsFiniteSet(A)
    BY <1>1, <2>1, ColumnRing DEF Ring
  <2>3. Cardinality(A) \in Nat /\ Cardinality(A) # 0
    BY <2>2, FS_CardinalityType, FS_EmptySet
  <2>4. RingAt(m, A, d)
    BY <1>1, <2>1 DEF Rings, OpenColumn
  <2> QED BY <2>3, <2>4 DEF RingAt
<1> DEFINE sizes == [i \in 1..L |-> m.size[t[i]]]
<1>12. sizes \in [1..L -> Nat]
  BY <1>2, <1>9, <1>11
<1>13. Links!MinColumn(m) = t[Links!Smallest(sizes)]
  <2>1. DOMAIN t = 1..L
    BY <1>9
  <2> QED BY <1>7, <1>8, <2>1 DEF Links!MinColumn
<1> HIDE DEF sizes
<1>14. Links!Smallest(sizes) = Smallest(sizes)
  BY DEF Links!Smallest, Smallest
<1>15. Smallest(sizes) \in 1..L
  BY <1>9, <1>10, <1>12, SmallestFound
<1> QED BY <1>2, <1>9, <1>13, <1>14, <1>15

(* The next row of a column that is covered is of its ring. *)
LEMMA NextRow ==
  ASSUME NEW s, Woven(s), NEW m, NEW H, Exact(s, m, H), NEW c \in H, NEW a \in OpenColumn(s, H, c)
  PROVE  Links!Cover(m, c).down[a] \in OpenColumn(s, H, c)
<1>1. H \in SUBSET (Heads(s) \ {0}) /\ RingAt(Links!Cover(m, c), OpenColumn(s, H, c), c)
  BY CoverExact DEF Exact
<1>2. PICK A : A = OpenColumn(s, H, c)
  OBVIOUS
<1>3. A \subseteq Nat /\ IsFiniteSet(A)
  BY <1>1, <1>2, ColumnRing DEF Ring
<1>4. Links!After(A, a) \in A
  BY <1>2, <1>3, Opposite
<1> QED BY <1>1, <1>2, <1>4 DEF RingAt

(* A row taken covers the other columns of the row. *)
LEMMA RowTaken ==
  ASSUME NEW s, Woven(s), NEW m, NEW H, Exact(s, m, H), NEW c \in H,
         NEW a \in Live(s, H), s.col[a] = c
  PROVE  /\ Exact(s, Taken(Links!Cover(m, c), a), H \ RowColumns(s, a))
         /\ Links!Undone(Taken(Links!Cover(m, c), a), a) = Links!Cover(m, c)
<1>1. PICK o : o = Links!Cover(m, c)
  OBVIOUS
<1>2. Exact(s, o, H \ {c})
  BY <1>1, CoverExact
<1>3. a \in InRows(s) /\ RowColumns(s, a) \subseteq H
  BY DEF Live
<1>4. \A b \in Others(s, a) : s.col[b] \in H \ {c}
  <2> SUFFICES ASSUME NEW b \in Others(s, a) PROVE s.col[b] \in H \ {c}
    OBVIOUS
  <2>1. s.col[b] \in RowColumns(s, a) /\ s.col[a] # s.col[b]
    BY <1>3, RowsMutual, RowLives
  <2> QED BY <1>3, <2>1
<1>5. PICK J : J = H \ {c}
  OBVIOUS
<1>6. /\ Exact(s, Taken(o, a), J \ {s.col[b] : b \in Others(s, a)})
      /\ Links!Undone(Taken(o, a), a) = o
  BY <1>2, <1>3, <1>4, <1>5, TakenUndone
<1>7. J \ {s.col[b] : b \in Others(s, a)} = H \ RowColumns(s, a)
  BY <1>5 DEF RowColumns
<1> QED BY <1>1, <1>6, <1>7

-----------------------------------------------------------------------------
(* Every operation of the solver keeps the history. *)

LEMMA HistoryChoose ==
  ASSUME NEW s, Woven(s), NEW m, NEW q \in Seq(InRows(s)), NEW f \in Seq(Call(s)),
         NEW b, NEW o, History(s, m, q, f, FALSE, b, o), m.left[0] # 0,
         NEW c, c = Links!MinColumn(m), NEW r, r = Links!Cover(m, c),
         NEW g, g = Append(f, [col |-> c, row |-> r.down[c]])
  PROVE  g \in Seq(Call(s)) /\ History(s, r, q, g, TRUE, b, o)
<1>1. PICK n : n = Len(q)
  OBVIOUS
<1>2. /\ Entered(s, b, o, n) /\ Len(f) = n /\ m = b[n + 1] /\ n \in Nat
      /\ \A d \in 1..n : f[d].row = q[d] /\ TookRow(s, b, o, d, f[d].col, q[d])
  BY <1>1 DEF History
<1>3. Exact(s, m, o[n + 1])
  BY <1>2 DEF Entered
<1>4. PICK H : H = o[n + 1]
  OBVIOUS
<1>5. c \in H /\ H \in SUBSET (Heads(s) \ {0}) /\ Hung(s)
  BY <1>3, <1>4, MinColumnOpen DEF Exact, Woven
<1>6. OpenColumn(s, H, c) \in SUBSET Nodes(s) /\ c \in OpenColumn(s, H, c)
  BY <1>5, ColumnRing DEF Ring
<1>7. r.down[c] \in OpenColumn(s, H, c)
  BY <1>3, <1>4, <1>5, <1>6, NextRow
<1>8. PICK x : x = [col |-> c, row |-> r.down[c]]
  OBVIOUS
<1>9. x \in Call(s) /\ x.col = c /\ x.row = r.down[c]
  BY <1>5, <1>6, <1>7, <1>8 DEF Call
<1>10. g \in Seq(Call(s)) /\ Len(g) = n + 1 /\ g[n + 1] = x /\ \A d \in 1..n : g[d] = f[d]
  BY <1>2, <1>8, <1>9
<1>11. Looping(s, r, b, o, n + 1, c, r.down[c])
  BY <1>2, <1>4, <1>5, <1>7 DEF Looping
<1> QED BY <1>1, <1>2, <1>9, <1>10, <1>11 DEF History

LEMMA HistoryTake ==
  ASSUME NEW s, Woven(s), NEW m, NEW q \in Seq(InRows(s)), NEW f \in Seq(Call(s)),
         NEW b, NEW o, History(s, m, q, f, TRUE, b, o),
         NEW a, a = f[Len(f)].row, a # f[Len(f)].col
  PROVE  /\ Append(q, a) \in Seq(InRows(s))
         /\ \E c, p : History(s, Taken(m, a), Append(q, a), f, FALSE, c, p)
<1>1. PICK n : n = Len(q)
  OBVIOUS
<1>2. PICK z : z = f[n + 1].col
  OBVIOUS
<1>3. PICK B, H : B = b[n + 1] /\ H = o[n + 1]
  OBVIOUS
<1>4. /\ Entered(s, b, o, n) /\ Len(f) = n + 1 /\ n \in Nat
      /\ \A d \in 1..n : f[d].row = q[d] /\ TookRow(s, b, o, d, f[d].col, q[d])
      /\ a = f[n + 1].row /\ a # z
      /\ Looping(s, m, b, o, n + 1, z, a)
  BY <1>1, <1>2 DEF History
<1>5. z \in H /\ a \in OpenColumn(s, H, z) /\ m = Links!Cover(B, z) /\ Exact(s, B, H)
  BY <1>3, <1>4 DEF Looping, Entered
<1>6. H \in SUBSET (Heads(s) \ {0})
  BY <1>5 DEF Exact
<1>7. a \in Live(s, H) /\ a \in InRows(s) /\ s.col[a] = z
  BY <1>4, <1>5, <1>6, ColumnRing
<1>8. PICK M, J : M = Taken(m, a) /\ J = H \ RowColumns(s, a)
  OBVIOUS
<1>9. Exact(s, M, J)
  BY <1>5, <1>7, <1>8, RowTaken
<1>10. PICK u : u = Append(q, a)
  OBVIOUS
<1>11. u \in Seq(InRows(s)) /\ Len(u) = n + 1 /\ u[n + 1] = a /\ \A d \in 1..n : u[d] = q[d]
  BY <1>1, <1>4, <1>7, <1>10
<1> DEFINE c == [d \in 1..(n + 2) |-> IF d = n + 2 THEN M ELSE b[d]]
           p == [d \in 1..(n + 2) |-> IF d = n + 2 THEN J ELSE o[d]]
<1>12. /\ c[n + 2] = M /\ p[n + 2] = J
       /\ \A d \in 1..(n + 1) : c[d] = b[d] /\ p[d] = o[d]
  BY <1>4
<1> HIDE DEF c, p
<1>13. Entered(s, c, p, n + 1)
  <2>1. c[1] = b[1] /\ p[1] = o[1]
    BY <1>4, <1>12
  <2>2. ASSUME NEW d \in 1..(n + 1 + 1) PROVE Exact(s, c[d], p[d])
    <3>1. CASE d = n + 2
      BY <1>9, <1>12, <3>1
    <3>2. CASE d # n + 2
      <4>1. d \in 1..(n + 1)
        BY <1>4, <3>2
      <4> QED BY <1>4, <1>12, <4>1 DEF Entered
    <3> QED BY <3>1, <3>2
  <2> QED BY <1>4, <2>1, <2>2 DEF Entered
<1>14. ASSUME NEW d \in 1..(n + 1)
       PROVE  f[d].row = u[d] /\ TookRow(s, c, p, d, f[d].col, u[d])
  <2>1. CASE d = n + 1
    <3>1. d + 1 = n + 2 /\ n + 1 \in 1..(n + 1)
      BY <1>4, <2>1
    <3>2. c[d] = B /\ p[d] = H /\ c[d + 1] = M /\ p[d + 1] = J
      BY <1>3, <1>12, <2>1, <3>1
    <3>3. f[d].row = a /\ f[d].col = z /\ u[d] = a
      BY <1>2, <1>4, <1>11, <2>1
    <3> QED BY <1>5, <1>7, <1>8, <3>2, <3>3 DEF TookRow
  <2>2. CASE d # n + 1
    <3>1. d \in 1..n /\ d \in 1..(n + 1) /\ d + 1 \in 1..(n + 1)
      BY <1>4, <2>2
    <3>2. c[d] = b[d] /\ p[d] = o[d] /\ c[d + 1] = b[d + 1] /\ p[d + 1] = o[d + 1] /\ u[d] = q[d]
      BY <1>11, <1>12, <3>1
    <3>3. f[d].row = q[d] /\ TookRow(s, b, o, d, f[d].col, q[d])
      BY <1>4, <3>1
    <3> QED BY <3>2, <3>3 DEF TookRow
  <2> QED BY <2>1, <2>2
<1>15. n + 1 + 1 = n + 2
  BY <1>4
<1>16. History(s, M, u, f, FALSE, c, p)
  BY <1>4, <1>11, <1>12, <1>13, <1>14, <1>15 DEF History
<1> QED BY <1>8, <1>10, <1>11, <1>16

LEMMA HistoryUndo ==
  ASSUME NEW s, Woven(s), NEW m, NEW q \in Seq(InRows(s)), NEW f \in Seq(Call(s)),
         NEW b, NEW o, History(s, m, q, f, FALSE, b, o), Len(q) > 0,
         NEW a, a = f[Len(f)].row, NEW r, r = Links!Undone(m, a),
         NEW g, g = [f EXCEPT ![Len(f)].row = r.down[a]]
  PROVE  /\ Links!Front(q) \in Seq(InRows(s)) /\ g \in Seq(Call(s))
         /\ History(s, r, Links!Front(q), g, TRUE, b, o)
<1>1. PICK n : n = Len(q)
  OBVIOUS
<1>2. PICK z : z = f[n].col
  OBVIOUS
<1>3. PICK B, H : B = b[n] /\ H = o[n]
  OBVIOUS
<1>4. /\ Entered(s, b, o, n) /\ Len(f) = n /\ n \in Nat \ {0} /\ m = b[n + 1]
      /\ \A d \in 1..n : f[d].row = q[d] /\ TookRow(s, b, o, d, f[d].col, q[d])
  BY <1>1 DEF History
<1>5. a = q[n] /\ TookRow(s, b, o, n, z, a) /\ Exact(s, B, H)
  <2>1. n \in 1..n /\ n \in 1..(n + 1)
    BY <1>4
  <2> QED BY <1>2, <1>3, <1>4, <2>1 DEF Entered
<1>6. /\ z \in H /\ a \in Live(s, H) /\ s.col[a] = z
      /\ m = Taken(Links!Cover(B, z), a)
  BY <1>3, <1>4, <1>5 DEF TookRow
<1>7. r = Links!Cover(B, z)
  <2>1. PICK J : J = H \ RowColumns(s, a)
    OBVIOUS
  <2>2. /\ Exact(s, Taken(Links!Cover(B, z), a), J)
        /\ Links!Undone(Taken(Links!Cover(B, z), a), a) = Links!Cover(B, z)
    BY <1>5, <1>6, <2>1, RowTaken
  <2> QED BY <1>6, <2>2
<1>8. H \in SUBSET (Heads(s) \ {0})
  BY <1>5 DEF Exact
<1>9. a \in OpenColumn(s, H, z) /\ OpenColumn(s, H, z) \in SUBSET Nodes(s)
  BY <1>6, <1>8, ColumnRing, SMTT(30)
<1>10. r.down[a] \in OpenColumn(s, H, z)
  BY <1>5, <1>6, <1>7, <1>9, NextRow
<1>11. PICK y : y = r.down[a]
  OBVIOUS
<1>12. y \in Nodes(s)
  BY <1>9, <1>10, <1>11
<1>13. /\ g \in Seq(Call(s)) /\ Len(g) = n /\ g[n].col = z /\ g[n].row = y
       /\ \A d \in 1..(n - 1) : g[d] = f[d]
  <2>1. n \in 1..n /\ f \in [1..n -> Call(s)]
    BY <1>4
  <2>2. PICK x : x = [f[n] EXCEPT !.row = y]
    OBVIOUS
  <2>3. x \in Call(s) /\ x.col = z /\ x.row = y
    <3>1. f[n] \in Call(s)
      BY <2>1
    <3> QED BY <1>2, <1>12, <2>2, <3>1 DEF Call
  <2>4. g = [f EXCEPT ![n] = x]
    BY <1>4, <1>11, <2>2
  <2>5. g \in [1..n -> Call(s)] /\ g[n] = x /\ \A d \in 1..(n - 1) : g[d] = f[d]
    <3>1. \A d \in 1..(n - 1) : d \in 1..n /\ d # n
      BY <1>4
    <3> QED BY <2>1, <2>3, <2>4, <3>1
  <2>6. g \in Seq(Call(s)) /\ Len(g) = n
    BY <1>4, <2>5
  <2> QED BY <2>3, <2>5, <2>6
<1>14. PICK u : u = Links!Front(q)
  OBVIOUS
<1>15. u \in Seq(InRows(s)) /\ Len(u) = n - 1 /\ \A d \in 1..(n - 1) : u[d] = q[d]
  BY <1>1, <1>4, <1>14, FrontSays
<1>16. n - 1 + 1 = n
  BY <1>4
<1>17. Looping(s, r, b, o, n, z, y)
  BY <1>3, <1>6, <1>7, <1>10, <1>11 DEF Looping
<1>18. Entered(s, b, o, n - 1)
  BY <1>4 DEF Entered
<1>19. ASSUME NEW d \in 1..(n - 1)
       PROVE  g[d].row = u[d] /\ TookRow(s, b, o, d, g[d].col, u[d])
  <2>1. d \in 1..n
    BY <1>4
  <2> QED BY <1>4, <1>13, <1>15, <2>1
<1>20. History(s, r, u, g, TRUE, b, o)
  BY <1>13, <1>15, <1>16, <1>17, <1>18, <1>19 DEF History
<1> QED BY <1>13, <1>14, <1>15, <1>20

LEMMA HistoryGiveUp ==
  ASSUME NEW s, Woven(s), NEW m, NEW q \in Seq(InRows(s)), NEW f \in Seq(Call(s)),
         NEW b, NEW o, History(s, m, q, f, TRUE, b, o)
  PROVE  /\ Links!Front(f) \in Seq(Call(s)) /\ Len(Links!Front(f)) = Len(q)
         /\ History(s, Links!Uncover(m, f[Len(f)].col), q, Links!Front(f), FALSE, b, o)
<1>1. PICK n : n = Len(q)
  OBVIOUS
<1>2. PICK z : z = f[n + 1].col
  OBVIOUS
<1>3. /\ Entered(s, b, o, n) /\ Len(f) = n + 1 /\ n \in Nat
      /\ \A d \in 1..n : f[d].row = q[d] /\ TookRow(s, b, o, d, f[d].col, q[d])
      /\ Looping(s, m, b, o, n + 1, z, f[n + 1].row)
  BY <1>1, <1>2 DEF History
<1>4. Links!Uncover(m, z) = b[n + 1]
  <2>1. PICK B, H : B = b[n + 1] /\ H = o[n + 1]
    OBVIOUS
  <2>2. z \in H /\ m = Links!Cover(B, z) /\ Exact(s, B, H)
    BY <1>3, <2>1 DEF Looping, Entered
  <2> QED BY <2>1, <2>2, UncoverUndoes
<1>5. PICK g : g = Links!Front(f)
  OBVIOUS
<1>6. g \in Seq(Call(s)) /\ Len(g) = n /\ \A d \in 1..n : g[d] = f[d]
  BY <1>3, <1>5, FrontSays
<1>7. History(s, b[n + 1], q, g, FALSE, b, o)
  BY <1>1, <1>3, <1>6 DEF History
<1> QED BY <1>1, <1>2, <1>3, <1>4, <1>5, <1>6, <1>7

-----------------------------------------------------------------------------
(* The invariant is kept. *)

LEMMA LinksStart ==
  ASSUME Band <= 3, NEW p, Links!Init(p)
  PROVE  LinksInv
<1>1. puzzle = p /\ mesh = Links!Dance(p) /\ stack_ = <<>> /\ frames = <<>> /\ at = "call"
  BY DEF Links!Init
<1>2. PICK s : s = Start
  OBVIOUS
<1>3. mesh = s /\ s = Links!Dance(p)
  BY <1>1, <1>2 DEF Start
<1>4. Woven(s) /\ Exact(s, s, Heads(s) \ {0})
  BY <1>3, DanceWoven, DanceExact
<1> DEFINE b == [d \in 1..1 |-> s]
           o == [d \in 1..1 |-> Heads(s) \ {0}]
<1>5. Entered(s, b, o, 0)
  BY <1>4 DEF Entered
<1>6. b[1] = s
  OBVIOUS
<1> HIDE DEF b, o
<1>7. History(s, s, <<>>, <<>>, FALSE, b, o)
  <2>1. Len(<<>>) = 0 /\ 1..0 = {} /\ 0 + 1 = 1
    OBVIOUS
  <2> QED BY <1>5, <1>6, <2>1 DEF History
<1>8. at # "loop" /\ at # "back"
  BY <1>1
<1>9. <<>> \in Seq(InRows(s)) /\ <<>> \in Seq(Call(s))
  OBVIOUS
<1>10. Solving(s, mesh, stack_, frames, at)
  BY <1>1, <1>3, <1>4, <1>7, <1>8, <1>9 DEF Solving
<1> QED BY <1>2, <1>10 DEF LinksInv

LEMMA LinksFound ==
  ASSUME LinksInv, Links!Found
  PROVE  LinksInv'
<1>1. /\ at = "call" /\ at' = "done" /\ mesh' = mesh /\ stack_' = stack_ /\ frames' = frames
      /\ Start' = Start
  BY DEF Links!Found, Start
<1> QED BY <1>1 DEF LinksInv, Solving

LEMMA LinksChoose ==
  ASSUME LinksInv, Links!ChooseColumn
  PROVE  LinksInv'
<1>1. PICK c, r, g : /\ c = Links!MinColumn(mesh) /\ r = Links!Cover(mesh, c)
                     /\ g = Append(frames, [col |-> c, row |-> r.down[c]])
  OBVIOUS
<1>2. /\ at = "call" /\ mesh.left[0] # 0 /\ at' = "loop" /\ stack_' = stack_ /\ Start' = Start
      /\ mesh' = r /\ frames' = g
  BY <1>1 DEF Links!ChooseColumn, Start
<1>3. PICK s : s = Start
  OBVIOUS
<1>4. /\ Woven(s) /\ stack_ \in Seq(InRows(s)) /\ frames \in Seq(Call(s))
      /\ \E b, o : History(s, mesh, stack_, frames, FALSE, b, o)
  BY <1>2, <1>3 DEF LinksInv, Solving
<1>5. PICK b, o : History(s, mesh, stack_, frames, FALSE, b, o)
  BY <1>4
<1>6. g \in Seq(Call(s)) /\ History(s, r, stack_, g, TRUE, b, o)
  BY <1>1, <1>2, <1>4, <1>5, HistoryChoose
<1>7. Solving(s, r, stack_, g, "loop")
  BY <1>4, <1>6 DEF Solving
<1> QED BY <1>2, <1>3, <1>7 DEF LinksInv

LEMMA LinksTake ==
  ASSUME LinksInv, Links!Take
  PROVE  LinksInv'
<1>1. PICK a : a = frames[Len(frames)].row
  OBVIOUS
<1>2. /\ at = "loop" /\ a # frames[Len(frames)].col /\ at' = "call" /\ frames' = frames /\ Start' = Start
      /\ stack_' = Append(stack_, a) /\ mesh' = Taken(mesh, a)
  BY <1>1 DEF Links!Take, Links!Top, Start, Taken
<1>3. PICK s : s = Start
  OBVIOUS
<1>4. /\ Woven(s) /\ stack_ \in Seq(InRows(s)) /\ frames \in Seq(Call(s))
      /\ \E b, o : History(s, mesh, stack_, frames, TRUE, b, o)
  BY <1>2, <1>3 DEF LinksInv, Solving
<1>5. PICK b, o : History(s, mesh, stack_, frames, TRUE, b, o)
  BY <1>4
<1>6. /\ Append(stack_, a) \in Seq(InRows(s))
      /\ \E c, p : History(s, Taken(mesh, a), Append(stack_, a), frames, FALSE, c, p)
  BY <1>1, <1>2, <1>4, <1>5, HistoryTake
<1>7. Solving(s, Taken(mesh, a), Append(stack_, a), frames, "call")
  BY <1>4, <1>6 DEF Solving
<1> QED BY <1>2, <1>3, <1>7 DEF LinksInv

LEMMA LinksUndo ==
  ASSUME LinksInv, Links!Undo
  PROVE  LinksInv'
<1>1. PICK a, r, g : /\ a = frames[Len(frames)].row /\ r = Links!Undone(mesh, a)
                     /\ g = [frames EXCEPT ![Len(frames)].row = r.down[a]]
  OBVIOUS
<1>2. /\ at = "back" /\ at' = "loop" /\ stack_' = Links!Front(stack_) /\ Start' = Start
      /\ mesh' = r /\ frames' = g
  BY <1>1 DEF Links!Undo, Links!Top, Links!WithRow, Start
<1>3. PICK s : s = Start
  OBVIOUS
<1>4. /\ Woven(s) /\ stack_ \in Seq(InRows(s)) /\ frames \in Seq(Call(s)) /\ Len(stack_) > 0
      /\ \E b, o : History(s, mesh, stack_, frames, FALSE, b, o)
  BY <1>2, <1>3 DEF LinksInv, Solving
<1>5. PICK b, o : History(s, mesh, stack_, frames, FALSE, b, o)
  BY <1>4
<1>6. /\ Links!Front(stack_) \in Seq(InRows(s)) /\ g \in Seq(Call(s))
      /\ History(s, r, Links!Front(stack_), g, TRUE, b, o)
  BY <1>1, <1>4, <1>5, HistoryUndo
<1>7. Solving(s, r, Links!Front(stack_), g, "loop")
  BY <1>4, <1>6 DEF Solving
<1> QED BY <1>2, <1>3, <1>7 DEF LinksInv

LEMMA LinksGiveUp ==
  ASSUME LinksInv, Links!GiveUp
  PROVE  LinksInv'
<1>1. PICK r, g : r = Links!Uncover(mesh, frames[Len(frames)].col) /\ g = Links!Front(frames)
  OBVIOUS
<1>2. /\ at = "loop" /\ at' = (IF g = <<>> THEN "done" ELSE "back") /\ stack_' = stack_
      /\ Start' = Start /\ mesh' = r /\ frames' = g
  BY <1>1 DEF Links!GiveUp, Links!Top, Start
<1>3. PICK s : s = Start
  OBVIOUS
<1>4. /\ Woven(s) /\ stack_ \in Seq(InRows(s)) /\ frames \in Seq(Call(s))
      /\ \E b, o : History(s, mesh, stack_, frames, TRUE, b, o)
  BY <1>2, <1>3 DEF LinksInv, Solving
<1>5. PICK b, o : History(s, mesh, stack_, frames, TRUE, b, o)
  BY <1>4
<1>6. g \in Seq(Call(s)) /\ Len(g) = Len(stack_) /\ History(s, r, stack_, g, FALSE, b, o)
  BY <1>1, <1>4, <1>5, HistoryGiveUp, ZenonT(30)
<1>7. at' # "loop" /\ (at' = "back" => Len(stack_) > 0)
  <2>1. g # <<>> => Len(g) > 0
    BY <1>6, EmptySeq
  <2> QED BY <1>2, <1>6, <2>1
<1>8. Solving(s, r, stack_, g, at')
  BY <1>4, <1>6, <1>7 DEF Solving
<1> QED BY <1>2, <1>3, <1>8 DEF LinksInv

LEMMA LinksInvariance ==
  ASSUME Band <= 3
  PROVE  /\ Init => (solver = "dancing_links" => LinksInv)
         /\ (solver = "dancing_links" => LinksInv) /\ [Next]_vars => (solver = "dancing_links" => LinksInv)'
<1>1. ASSUME Init, solver = "dancing_links" PROVE LinksInv
  <2>1. \E p \in Puzzles : Links!Init(p)
    BY <1>1 DEF Init, Search!Init, Search!Solvers
  <2> QED BY <2>1, LinksStart
<1>2. ASSUME solver = "dancing_links" => LinksInv, [Next]_vars, solver' = "dancing_links"
      PROVE  LinksInv'
  <2>1. solver = "dancing_links" /\ LinksInv
    BY <1>2 DEF Next, vars, Search!Next, Search!Found, Search!Enter, Search!Hold, Search!Unhold, Search!Fail
  <2>2. CASE Links!Next
    BY <2>1, <2>2, LinksFound, LinksChoose, LinksTake, LinksUndo, LinksGiveUp DEF Links!Next
  <2>3. CASE UNCHANGED vars
    <3>1. puzzle' = puzzle /\ mesh' = mesh /\ stack_' = stack_ /\ frames' = frames /\ at' = at
      BY <2>3 DEF vars, links
    <3>2. Start' = Start
      BY <3>1 DEF Start
    <3> QED BY <2>1, <3>1, <3>2 DEF LinksInv
  <2> QED BY <1>2, <2>1, <2>2, <2>3 DEF Next
<1> QED BY <1>1, <1>2

-----------------------------------------------------------------------------
(* What the invariant says of the mesh. *)

(* The columns of the rows taken. *)
ColumnsTaken(s, q, n) == UNION {RowColumns(s, q[d]) : d \in 1..n}

LEMMA OpenIs ==
  ASSUME NEW s, NEW q, NEW n \in Nat, NEW b, NEW o, Entered(s, b, o, n), NEW f,
         \A d \in 1..n : TookRow(s, b, o, d, f[d].col, q[d])
  PROVE  o[n + 1] = (Heads(s) \ {0}) \ ColumnsTaken(s, q, n)
<1> DEFINE Good(d) == o[d + 1] = (Heads(s) \ {0}) \ ColumnsTaken(s, q, d)
           Bad == {d \in 0..n : ~Good(d)}
<1>1. Good(0)
  <2>1. ColumnsTaken(s, q, 0) = {} /\ 0 + 1 = 1
    BY DEF ColumnsTaken
  <2> QED BY <2>1 DEF Entered
<1>2. ASSUME NEW d \in 1..n, Good(d - 1) PROVE Good(d)
  <2>1. o[d + 1] = o[d] \ RowColumns(s, q[d])
    BY DEF TookRow
  <2>2. d - 1 + 1 = d /\ 1..d = (1..(d - 1)) \cup {d}
    OBVIOUS
  <2>3. ColumnsTaken(s, q, d) = ColumnsTaken(s, q, d - 1) \cup RowColumns(s, q[d])
    BY <2>2 DEF ColumnsTaken
  <2> QED BY <1>2, <2>1, <2>2, <2>3
<1>3. Bad = {}
  <2> HIDE DEF Good
  <2> SUFFICES ASSUME Bad # {} PROVE FALSE
    OBVIOUS
  <2>1. Bad \subseteq Nat
    OBVIOUS
  <2>2. PICK j \in Bad : \A l \in Bad : j <= l
    BY <2>1, WellOrdered
  <2>3. j # 0
    BY <1>1, <2>2
  <2>4. j \in 1..n /\ j - 1 \in 0..n /\ j - 1 \notin Bad
    BY <2>2, <2>3
  <2> QED BY <1>2, <2>2, <2>4
<1>4. Good(n)
  <2>1. n \in 0..n /\ n \notin Bad
    BY <1>3
  <2> HIDE DEF Good
  <2> QED BY <2>1
<1> QED BY <1>4

(* The columns the calls have covered, and those of the rows taken. *)
Covered(s, taken, calls) ==
  {calls[d].col : d \in 1..Len(calls)} \cup ColumnsTaken(s, taken, Len(taken))

(* At every step the mesh is the part of the first one that they leave. *)
LEMMA SolvingExact ==
  ASSUME NEW s, NEW m, NEW q, NEW f, NEW a, Solving(s, m, q, f, a)
  PROVE  Exact(s, m, (Heads(s) \ {0}) \ Covered(s, q, f)) /\ s \in Like(s)
<1>1. Woven(s) /\ q \in Seq(InRows(s)) /\ f \in Seq(Call(s))
  BY DEF Solving
<1>2. PICK n : n = Len(q)
  OBVIOUS
<1>3. n \in Nat
  BY <1>1, <1>2
<1>4. PICK b, o : /\ Entered(s, b, o, n)
                  /\ \A d \in 1..n : TookRow(s, b, o, d, f[d].col, q[d])
                  /\ \/ Len(f) = n /\ m = b[n + 1]
                     \/ /\ Len(f) = n + 1
                        /\ f[n + 1].col \in o[n + 1] /\ m = Links!Cover(b[n + 1], f[n + 1].col)
  <2>1. CASE a = "loop"
    <3>1. PICK b, o : History(s, m, q, f, TRUE, b, o)
      BY <2>1 DEF Solving
    <3> QED BY <1>2, <3>1 DEF History, Looping
  <2>2. CASE a # "loop"
    <3>1. PICK b, o : History(s, m, q, f, FALSE, b, o)
      BY <2>2 DEF Solving
    <3> QED BY <1>2, <3>1 DEF History
  <2> QED BY <2>1, <2>2
<1>5. PICK H : H = o[n + 1]
  OBVIOUS
<1>6. H = (Heads(s) \ {0}) \ ColumnsTaken(s, q, n)
  BY <1>3, <1>4, <1>5, OpenIs
<1>7. Exact(s, b[n + 1], H)
  BY <1>3, <1>4, <1>5 DEF Entered
<1>8. \A d \in 1..n : f[d].col \in ColumnsTaken(s, q, n)
  <2> SUFFICES ASSUME NEW d \in 1..n PROVE f[d].col \in ColumnsTaken(s, q, n)
    OBVIOUS
  <2>1. s.col[q[d]] = f[d].col
    BY <1>4 DEF TookRow
  <2>2. f[d].col \in RowColumns(s, q[d])
    BY <2>1 DEF RowColumns
  <2> QED BY <2>2 DEF ColumnsTaken
<1>9. s \in Like(s)
  <2>1. 1 \in 1..(n + 1)
    BY <1>3
  <2>2. Exact(s, b[1], o[1]) /\ b[1] = s
    BY <1>4, <2>1 DEF Entered
  <2> QED BY <2>2 DEF Exact
<1>10. CASE Len(f) = n /\ m = b[n + 1]
  <2>1. Covered(s, q, f) = ColumnsTaken(s, q, n)
    BY <1>2, <1>8, <1>10 DEF Covered
  <2> QED BY <1>6, <1>7, <1>9, <1>10, <2>1
<1>11. CASE /\ Len(f) = n + 1
            /\ f[n + 1].col \in H /\ m = Links!Cover(b[n + 1], f[n + 1].col)
  <2>1. 1..(n + 1) = (1..n) \cup {n + 1}
    BY <1>3
  <2>2. Covered(s, q, f) = {f[n + 1].col} \cup ColumnsTaken(s, q, n)
    BY <1>2, <1>8, <1>11, <2>1 DEF Covered
  <2>3. Exact(s, m, H \ {f[n + 1].col})
    BY <1>1, <1>7, <1>11, CoverExact
  <2>4. H \ {f[n + 1].col} = (Heads(s) \ {0}) \ Covered(s, q, f)
    BY <1>6, <2>2
  <2> QED BY <1>9, <2>3, <2>4
<1> QED BY <1>4, <1>5, <1>10, <1>11

(* The nodes of a row, as the loops along right visit them. *)
LEMMA RowVisited ==
  ASSUME NEW s, Woven(s), NEW m \in Like(s), NEW a \in InRows(s)
  PROVE  {a} \cup Links!ToSet(Links!Chain(m.right, a)) = {a} \cup Others(s, a)
<1>1. PICK b, c, d : IsRow(s, a, b, c, d) /\ Others(s, a) = {b, c, d}
  BY DEF Woven, Others
<1>2. Links!Chain(m.right, a) = <<b, c, d>>
  BY <1>1, RowOutIs DEF Woven
<1>3. Links!ToSet(<<b, c, d>>) = {b, c, d}
  BY DEF Links!ToSet
<1> QED BY <1>1, <1>2, <1>3

(* MeshExact, in the terms of the invariant. *)
LEMMA ExactMeans ==
  ASSUME LinksInv
  PROVE  Links!MeshExact
<1> DEFINE s == Links!Dance(puzzle)
<1>3. Solving(s, mesh, stack_, frames, at)
  BY DEF LinksInv, Start
<1> HIDE DEF s
<1>4. Woven(s) /\ Hung(s) /\ stack_ \in Seq(InRows(s)) /\ frames \in Seq(Call(s))
  BY <1>3 DEF Solving, Woven
<1>5. PICK H : H = (Heads(s) \ {0}) \ Covered(s, stack_, frames)
  OBVIOUS
<1>6. Exact(s, mesh, H) /\ s \in Like(s)
  BY <1>3, <1>5, SolvingExact
<1>7. mesh \in Like(s) /\ H \in SUBSET (Heads(s) \ {0}) /\ HeadLinked(mesh, {0} \cup H)
      /\ Rings(s, mesh, Standing(s, H), H)
  BY <1>6 DEF Exact
<1> DEFINE start == s
           covered == {e.col : e \in Links!ToSet(frames)}
                 \cup UNION {{start.col[j] : j \in Links!RowNodes(n)} : n \in Links!ToSet(stack_)}
           columns == DOMAIN start.size
           open    == columns \ ({0} \cup covered)
           inRows  == DOMAIN start.name \ columns
           row(n)  == {n} \cup Links!ToSet(Links!Chain(start.right, n))
           live    == {n \in inRows : {start.col[j] : j \in row(n)} \subseteq open}
<1>8. covered = Covered(s, stack_, frames)
  <2>1. {e.col : e \in Links!ToSet(frames)} = {frames[d].col : d \in 1..Len(frames)}
    BY <1>4 DEF Links!ToSet
  <2>2. \A n \in InRows(s) : Links!RowNodes(n) = {n} \cup Others(s, n)
    BY <1>4, <1>7, RowVisited DEF Links!RowNodes
  <2>3. Links!ToSet(stack_) = {stack_[d] : d \in 1..Len(stack_)}
    BY <1>4 DEF Links!ToSet
  <2>4. \A d \in 1..Len(stack_) : stack_[d] \in InRows(s)
    BY <1>4
  <2>5. \A n \in InRows(s) : {s.col[j] : j \in Links!RowNodes(n)} = RowColumns(s, n)
    BY <2>2 DEF RowColumns
  <2>6. UNION {{s.col[j] : j \in Links!RowNodes(n)} : n \in Links!ToSet(stack_)}
          = ColumnsTaken(s, stack_, Len(stack_))
    BY <2>3, <2>4, <2>5 DEF ColumnsTaken
  <2> QED BY <2>1, <2>6 DEF Covered
<1>9. open = H
  <2> HIDE DEF covered
  <2> QED BY <1>5, <1>8 DEF Heads
<1>10. inRows = InRows(s) /\ columns = Heads(s)
  BY DEF InRows, Nodes, Heads
<1>11. live = Live(s, H)
  <2>1. \A n \in InRows(s) : row(n) = {n} \cup Others(s, n)
    BY <1>4, <1>6, RowVisited
  <2>2. \A n \in InRows(s) : {s.col[j] : j \in row(n)} = RowColumns(s, n)
    BY <2>1 DEF RowColumns
  <2> HIDE DEF open, row, inRows
  <2> QED BY <1>9, <1>10, <2>2 DEF Live
<1> HIDE DEF covered, open, inRows, columns, row, live
<1>12. \A n \in {0} \cup open : /\ mesh.right[n] = Links!After({0} \cup open, n)
                                /\ mesh.left[n] = Links!Before({0} \cup open, n)
  BY <1>7, <1>9 DEF HeadLinked
<1>13. ASSUME NEW c \in open
       PROVE  LET rows == {n \in live : start.col[n] = c}
              IN  /\ \A n \in {c} \cup rows : /\ mesh.down[n] = Links!After({c} \cup rows, n)
                                              /\ mesh.up[n] = Links!Before({c} \cup rows, n)
                  /\ mesh.size[c] = Links!Cardinality(rows)
  <2> DEFINE rows == {n \in live : start.col[n] = c}
  <2>0. c \in H
    BY <1>9
  <2>1. PICK A : A = OpenColumn(s, H, c)
    OBVIOUS
  <2>2. /\ Ring(A, c)
        /\ \A x \in A \ {c} : x \in Live(s, H) /\ s.col[x] = c
        /\ \A x \in Live(s, H) : s.col[x] = c => x \in A /\ x # c
    <3> HIDE DEF rows
    <3>1. H \in SUBSET (Heads(s) \ {0}) /\ Woven(s)
      BY <1>4, <1>7
    <3>2. /\ Ring(OpenColumn(s, H, c), c)
          /\ \A x \in OpenColumn(s, H, c) \ {c} : x \in Live(s, H) /\ x \in InRows(s) /\ s.col[x] = c
          /\ \A x \in Live(s, H) : s.col[x] = c => x \in OpenColumn(s, H, c) /\ x # c
      BY <2>0, <3>1, ColumnRing
    <3> QED BY <2>1, <3>2
  <2>3. c \in A /\ IsFiniteSet(A)
    BY <2>2 DEF Ring
  <2>4. rows = A \ {c} /\ {c} \cup rows = A
    BY <1>11, <2>2, <2>3
  <2>5. RingAt(mesh, A, c)
    BY <1>7, <1>9, <2>1 DEF Rings, OpenColumn
  <2>6. Cardinality(A \ {c}) = Cardinality(A) - 1
    BY <2>3, FS_RemoveElement
  <2>7. mesh.size[c] = Links!Cardinality(rows)
    BY <2>4, <2>5, <2>6, SameLinks DEF RingAt
  <2> HIDE DEF rows
  <2>8. \A n \in {c} \cup rows : /\ mesh.down[n] = Links!After({c} \cup rows, n)
                                 /\ mesh.up[n] = Links!Before({c} \cup rows, n)
    BY <2>4, <2>5 DEF RingAt
  <2> QED BY <2>7, <2>8 DEF rows
<1>14. mesh.name = start.name /\ mesh.col = start.col
  BY <1>4, <1>7, MeshTypes DEF Like
<1>15. \A n \in inRows : mesh.right[n] = start.right[n] /\ mesh.left[n] = start.left[n]
  BY <1>7, <1>10 DEF Like, SameRows
<1> DEFINE isRing(next, previous, R) ==
             \A n \in R : next[n] = Links!After(R, n) /\ previous[n] = Links!Before(R, n)
<1>16. /\ isRing(mesh.right, mesh.left, {0} \cup open)
       /\ \A c \in open :
            LET rows == {n \in live : start.col[n] = c}
            IN  isRing(mesh.down, mesh.up, {c} \cup rows) /\ mesh.size[c] = Links!Cardinality(rows)
       /\ mesh.name = start.name /\ mesh.col = start.col
       /\ \A n \in inRows : mesh.right[n] = start.right[n] /\ mesh.left[n] = start.left[n]
  BY <1>12, <1>13, <1>14, <1>15
<1> QED BY <1>16
        DEF Links!MeshExact, s, covered, open, inRows, columns, row, live

(* The mesh of the dancing links stays exact, through any number of covers *)
(* and uncovers, on every puzzle.  The names of the constraints are written *)
(* in decimal digits, a column for a row and a value: that tells them      *)
(* apart up to boxes of three, the size of the code.                       *)
THEOREM MeshStaysExact ==
  ASSUME Band <= 3
  PROVE  Spec => []MeshExact
<1>1. Init => (solver = "dancing_links" => LinksInv)
  BY LinksInvariance
<1>2. (solver = "dancing_links" => LinksInv) /\ [Next]_vars => (solver = "dancing_links" => LinksInv)'
  BY LinksInvariance
<1>3. (solver = "dancing_links" => LinksInv) => MeshExact
  BY ExactMeans DEF MeshExact
<1> QED BY <1>1, <1>2, <1>3, PTL DEF Spec

-----------------------------------------------------------------------------
(* Exact covers, and those the search has passed over. *)

(* K is a set of whole rows, with one node below every column. *)
ExactCover(s, K) ==
  /\ K \subseteq InRows(s)
  /\ \A a \in K : Others(s, a) \subseteq K
  /\ \A c \in Heads(s) \ {0} : \E a \in K : s.col[a] = c
  /\ \A a, b \in K : s.col[a] = s.col[b] => a = b

(* It has the first n rows taken. *)
HasTaken(K, q, n) == \A d \in 1..n : q[d] \in K

(* Every exact cover with the rows taken before call d has a row of its    *)
(* column that the call has not passed.                                    *)
StillToTry(s, q, d, col, row) ==
  \A K : ExactCover(s, K) /\ HasTaken(K, q, d - 1) =>
    row # col /\ \E a \in K : s.col[a] = col /\ row <= a

Hopeless(s, q) == \A K : ExactCover(s, K) => ~HasTaken(K, q, Len(q))

Tried(s, q, f, place) ==
  /\ \A d \in 1..Len(f) : StillToTry(s, q, d, f[d].col, f[d].row)
  /\ place = "back" => Hopeless(s, q)

(* H are the columns the first n rows of q leave. *)
LeftOpen(s, q, n, H) ==
  /\ n \in Nat /\ \A d \in 1..n : q[d] \in InRows(s)
  /\ H = (Heads(s) \ {0}) \ ColumnsTaken(s, q, n)

(* The rows of an exact cover that has the rows taken are otherwise live. *)
LEMMA CoverLives ==
  ASSUME NEW s, Woven(s), NEW q, NEW n, NEW H, LeftOpen(s, q, n, H),
         NEW K, ExactCover(s, K), HasTaken(K, q, n), NEW a \in K, s.col[a] \in H
  PROVE  a \in Live(s, H)
<1>0. H = (Heads(s) \ {0}) \ ColumnsTaken(s, q, n) /\ \A d \in 1..n : q[d] \in InRows(s)
  BY DEF LeftOpen
<1>1. a \in InRows(s) /\ Others(s, a) \subseteq K /\ K \subseteq InRows(s)
  BY DEF ExactCover
<1>2. ASSUME NEW j \in {a} \cup Others(s, a) PROVE s.col[j] \in H
  <2>1. j \in K /\ j \in InRows(s)
    BY <1>1
  <2>2. s.col[j] \in Heads(s) \ {0}
    BY <2>1 DEF Woven, Hung, InRows
  <2>3. ASSUME s.col[j] \in ColumnsTaken(s, q, n) PROVE FALSE
    <3>1. PICK d \in 1..n : s.col[j] \in RowColumns(s, q[d])
      BY <2>3 DEF ColumnsTaken
    <3>2. PICK b : b = q[d]
      OBVIOUS
    <3>3. b \in InRows(s) /\ b \in K
      BY <1>0, <3>2 DEF HasTaken
    <3>4. PICK i \in {b} \cup Others(s, b) : s.col[j] = s.col[i]
      BY <3>1, <3>2 DEF RowColumns
    <3>5. i \in K
      BY <3>3, <3>4 DEF ExactCover
    <3>6. i = j
      BY <2>1, <3>4, <3>5 DEF ExactCover
    <3>7. {a} \cup Others(s, a) = {j} \cup Others(s, j)
      BY <1>1, <1>2, RowsMutual
    <3>8. {b} \cup Others(s, b) = {i} \cup Others(s, i)
      BY <3>3, <3>4, RowsMutual
    <3>9. a \in {b} \cup Others(s, b)
      BY <3>6, <3>7, <3>8
    <3>10. s.col[a] \in RowColumns(s, q[d])
      BY <3>2, <3>9 DEF RowColumns
    <3> QED BY <1>0, <3>10 DEF ColumnsTaken
  <2> QED BY <1>0, <2>2, <2>3
<1> QED BY <1>1, <1>2 DEF Live, RowColumns

(* The least node of a ring behind n is where the link of n leads. *)
LEMMA AfterLeast ==
  ASSUME NEW A, A \subseteq Nat, IsFiniteSet(A), NEW n \in A, NEW a \in A, n < a
  PROVE  Links!After(A, n) \in A /\ n < Links!After(A, n) /\ Links!After(A, n) <= a
<1> DEFINE later == {m \in A : m > n}
<1>1. a \in later /\ later \subseteq Nat
  OBVIOUS
<1>2. PICK m \in later : \A x \in later : m <= x
  BY <1>1, WellOrdered
<1>3. m \in A /\ n < m /\ m <= a /\ \A x \in A : x <= n \/ m <= x
  BY <1>1, <1>2
<1>4. Links!After(A, n) = m
  BY <1>3, AfterFound
<1> QED BY <1>3, <1>4

(* What undoes a row taken. *)
LEMMA TakenBack ==
  ASSUME NEW s, Woven(s), NEW m, NEW H, Exact(s, m, H), NEW c \in H,
         NEW a \in Live(s, H), s.col[a] = c
  PROVE  Links!Undone(Taken(Links!Cover(m, c), a), a) = Links!Cover(m, c)
<1>1. PICK J : J = H \ RowColumns(s, a)
  OBVIOUS
<1>2. /\ Exact(s, Taken(Links!Cover(m, c), a), J)
      /\ Links!Undone(Taken(Links!Cover(m, c), a), a) = Links!Cover(m, c)
  BY <1>1, RowTaken
<1> QED BY <1>2

(* The ring of an open column, and a node of it behind the column. *)
InRing(A, c, a) == A \subseteq Nat /\ IsFiniteSet(A) /\ c \in A /\ a \in A /\ c < a

(* A row of the column of an exact cover is in the ring of the column. *)
LEMMA CoverColumn ==
  ASSUME NEW s, Woven(s), NEW q, NEW n, NEW H, LeftOpen(s, q, n, H),
         NEW K, ExactCover(s, K), HasTaken(K, q, n), NEW c \in H, NEW a \in K, s.col[a] = c
  PROVE  InRing(OpenColumn(s, H, c), c, a)
<1>1. a \in Live(s, H)
  BY CoverLives
<1>2. H \in SUBSET (Heads(s) \ {0})
  BY DEF LeftOpen
<1>3. a \in OpenColumn(s, H, c) /\ Ring(OpenColumn(s, H, c), c)
  BY <1>1, <1>2, ColumnRing
<1>4. c < a
  BY DEF ExactCover, Woven, Hung
<1> QED BY <1>3, <1>4 DEF Ring, InRing

(* A call that has chosen its column has passed nothing of it. *)
LEMMA TriedChoose ==
  ASSUME NEW s, Woven(s), NEW m, NEW q \in Seq(InRows(s)), NEW f \in Seq(Call(s)),
         NEW b, NEW o, History(s, m, q, f, FALSE, b, o), m.left[0] # 0, Tried(s, q, f, "call"),
         NEW c, c = Links!MinColumn(m), NEW r, r = Links!Cover(m, c),
         NEW g, g = Append(f, [col |-> c, row |-> r.down[c]])
  PROVE  Tried(s, q, g, "loop")
<1>1. PICK n, H : n = Len(q) /\ H = o[n + 1]
  OBVIOUS
<1>2. /\ Entered(s, b, o, n) /\ Len(f) = n /\ m = b[n + 1] /\ n \in Nat
      /\ \A d \in 1..n : TookRow(s, b, o, d, f[d].col, q[d])
  BY <1>1 DEF History
<1>3. Exact(s, m, H)
  BY <1>1, <1>2 DEF Entered
<1>4. H = (Heads(s) \ {0}) \ ColumnsTaken(s, q, n)
  <2>1. o[n + 1] = (Heads(s) \ {0}) \ ColumnsTaken(s, q, n)
    BY <1>2, OpenIs
  <2> QED BY <1>1, <2>1
<1>5. c \in H
  BY <1>3, MinColumnOpen
<1>6. PICK x : x = [col |-> c, row |-> r.down[c]]
  OBVIOUS
<1>7. x.col = c /\ x.row = r.down[c]
  BY <1>6
<1>8. Len(g) = n + 1 /\ g[n + 1] = x /\ \A d \in 1..n : g[d] = f[d]
  BY <1>2, <1>6
<1>9. PICK A : A = OpenColumn(s, H, c)
  OBVIOUS
<1>10. c \in A /\ r.down[c] = Links!After(A, c)
  <2>1. RingAt(r, A, c)
    BY <1>3, <1>5, <1>9, CoverExact
  <2>2. H \in SUBSET (Heads(s) \ {0})
    BY <1>3 DEF Exact
  <2>3. c \in A
    BY <1>5, <1>9, <2>2, ColumnRing DEF Ring
  <2> QED BY <2>1, <2>3 DEF RingAt
<1>11. ASSUME NEW K, ExactCover(s, K), HasTaken(K, q, n)
       PROVE  r.down[c] # c /\ \E a \in K : s.col[a] = c /\ r.down[c] <= a
  <2>1. PICK a \in K : s.col[a] = c
    BY <1>4, <1>5, <1>11 DEF ExactCover
  <2>2. LeftOpen(s, q, n, H)
    BY <1>1, <1>2, <1>4 DEF LeftOpen
  <2>3. a \in A /\ c < a /\ A \subseteq Nat /\ IsFiniteSet(A)
    <3>1. InRing(OpenColumn(s, H, c), c, a)
      BY <1>5, <1>11, <2>1, <2>2, CoverColumn
    <3> QED BY <1>9, <3>1 DEF InRing
  <2>4. c < Links!After(A, c) /\ Links!After(A, c) <= a
    BY <1>10, <2>3, AfterLeast
  <2>5. c \in Nat
    BY <1>10, <2>3
  <2> QED BY <1>10, <2>1, <2>4, <2>5
<1>12. ASSUME NEW d, d = n + 1 PROVE StillToTry(s, q, d, c, r.down[c])
  <2>1. d - 1 = n
    BY <1>2, <1>12
  <2>2. \A K : HasTaken(K, q, d - 1) => HasTaken(K, q, n)
    BY <2>1
  <2>3. ASSUME NEW K, ExactCover(s, K), HasTaken(K, q, d - 1)
        PROVE  r.down[c] # c /\ \E a \in K : s.col[a] = c /\ r.down[c] <= a
    BY <1>11, <2>2, <2>3
  <2> QED BY <2>3 DEF StillToTry
<1>13. ASSUME NEW d \in 1..Len(g) PROVE StillToTry(s, q, d, g[d].col, g[d].row)
  <2>1. CASE d = n + 1
    BY <1>7, <1>8, <1>12, <2>1
  <2>2. CASE d # n + 1
    <3>1. d \in 1..Len(f) /\ g[d] = f[d]
      BY <1>2, <1>8, <2>2
    <3> QED BY <3>1 DEF Tried
  <2> QED BY <2>1, <2>2
<1> QED BY <1>13 DEF Tried

(* Taking a row passes nothing. *)
LEMMA TriedTake ==
  ASSUME NEW s, NEW q \in Seq(InRows(s)), NEW f, Tried(s, q, f, "loop"),
         Len(f) = Len(q) + 1, NEW a \in InRows(s)
  PROVE  Tried(s, Append(q, a), f, "call")
<1>1. PICK n, u : n = Len(q) /\ u = Append(q, a)
  OBVIOUS
<1>2. n \in Nat /\ \A d \in 1..n : u[d] = q[d]
  BY <1>1
<1>3. ASSUME NEW d \in 1..Len(f) PROVE StillToTry(s, u, d, f[d].col, f[d].row)
  <2>1. d \in 1..(n + 1) /\ 1..(d - 1) \subseteq 1..n
    BY <1>1, <1>2
  <2>2. \A K : HasTaken(K, u, d - 1) <=> HasTaken(K, q, d - 1)
    BY <1>2, <2>1 DEF HasTaken
  <2>3. StillToTry(s, q, d, f[d].col, f[d].row)
    BY DEF Tried
  <2> QED BY <2>2, <2>3 DEF StillToTry
<1> QED BY <1>1, <1>3 DEF Tried

(* The row of a call that returned false is passed: an exact cover that    *)
(* had it would have the rows the call below was entered with.             *)
LEMMA TriedUndo ==
  ASSUME NEW s, Woven(s), NEW m, NEW q \in Seq(InRows(s)), NEW f \in Seq(Call(s)),
         NEW b, NEW o, History(s, m, q, f, FALSE, b, o), Len(q) > 0, Tried(s, q, f, "back"),
         NEW a, a = f[Len(f)].row, NEW r, r = Links!Undone(m, a),
         NEW g, g = [f EXCEPT ![Len(f)].row = r.down[a]]
  PROVE  Tried(s, Links!Front(q), g, "loop")
<1>1. PICK n, z, B, H : n = Len(q) /\ z = f[n].col /\ B = b[n] /\ H = o[n]
  OBVIOUS
<1>2. PICK k : k = n - 1
  OBVIOUS
<1>3. /\ Entered(s, b, o, n) /\ Len(f) = n /\ n \in Nat \ {0} /\ m = b[n + 1]
      /\ \A d \in 1..n : f[d].row = q[d] /\ TookRow(s, b, o, d, f[d].col, q[d])
      /\ k \in Nat /\ k + 1 = n
  BY <1>1, <1>2 DEF History
<1>4. a = q[n] /\ TookRow(s, b, o, n, z, a) /\ Exact(s, B, H)
  <2>1. n \in 1..n /\ n \in 1..(n + 1)
    BY <1>3
  <2> QED BY <1>1, <1>3, <2>1 DEF Entered
<1>5. /\ z \in H /\ a \in Live(s, H) /\ s.col[a] = z /\ a \in InRows(s)
      /\ m = Taken(Links!Cover(B, z), a)
  BY <1>1, <1>3, <1>4 DEF TookRow, Live
<1>6. r = Links!Cover(B, z)
  <2>1. Links!Undone(Taken(Links!Cover(B, z), a), a) = Links!Cover(B, z)
    <3>1. Woven(s) /\ Exact(s, B, H) /\ z \in H /\ a \in Live(s, H) /\ s.col[a] = z
      BY <1>4, <1>5
    <3> QED BY <3>1, TakenBack
  <2> QED BY <1>5, <2>1
<1>7. H = (Heads(s) \ {0}) \ ColumnsTaken(s, q, k)
  <2>1. Entered(s, b, o, k)
    BY <1>3 DEF Entered
  <2>2. \A d \in 1..k : TookRow(s, b, o, d, f[d].col, q[d])
    BY <1>3
  <2>3. k \in Nat /\ H = o[k + 1]
    BY <1>1, <1>3
  <2>4. o[k + 1] = (Heads(s) \ {0}) \ ColumnsTaken(s, q, k)
    BY <2>1, <2>2, <2>3, OpenIs
  <2> QED BY <2>3, <2>4
<1>8. PICK A : A = OpenColumn(s, H, z)
  OBVIOUS
<1>9. a \in A /\ r.down[a] = Links!After(A, a)
  <2>1. RingAt(r, A, z)
    BY <1>4, <1>5, <1>6, <1>8, CoverExact
  <2>2. H \in SUBSET (Heads(s) \ {0})
    BY <1>4 DEF Exact
  <2>3. a \in A
    BY <1>5, <1>8, <2>2, ColumnRing, SMTT(30)
  <2> QED BY <2>1, <2>3 DEF RingAt
<1>10. PICK u, y : u = Links!Front(q) /\ y = r.down[a]
  OBVIOUS
<1>11. \A d \in 1..k : u[d] = q[d]
  BY <1>1, <1>2, <1>3, <1>10, FrontSays
<1>12. /\ Len(g) = n /\ g[n].col = z /\ g[n].row = y
       /\ \A d \in 1..k : g[d] = f[d]
  <2>1. n \in 1..n /\ f \in [1..n -> Call(s)]
    BY <1>3
  <2>2. PICK x : x = [f[n] EXCEPT !.row = y]
    OBVIOUS
  <2>3. x.col = z /\ x.row = y
    <3>1. f[n] \in Call(s)
      BY <2>1
    <3> QED BY <1>1, <2>2, <3>1 DEF Call
  <2>4. g = [f EXCEPT ![n] = x]
    BY <1>3, <1>10, <2>2
  <2>5. DOMAIN g = 1..n /\ g[n] = x /\ \A d \in 1..k : g[d] = f[d]
    <3>1. \A d \in 1..k : d \in 1..n /\ d # n
      BY <1>2, <1>3
    <3> QED BY <2>1, <2>4, <3>1
  <2>6. Len(g) = n
    BY <1>3, <2>4
  <2> QED BY <2>3, <2>5, <2>6
<1>13. \A K : HasTaken(K, u, k) <=> HasTaken(K, q, k)
  BY <1>11 DEF HasTaken
<1>14. ASSUME NEW K, ExactCover(s, K), HasTaken(K, u, k)
       PROVE  y # z /\ \E x \in K : s.col[x] = z /\ y <= x
  <2>1. HasTaken(K, q, k)
    BY <1>13, <1>14
  <2>2. StillToTry(s, q, n, z, a) /\ n - 1 = k
    <3>1. n \in 1..Len(f)
      BY <1>3
    <3> QED BY <1>1, <1>2, <1>3, <1>4, <3>1 DEF Tried
  <2>3. PICK x \in K : s.col[x] = z /\ a <= x
    BY <1>14, <2>1, <2>2 DEF StillToTry
  <2>4. \A d \in 1..k : q[d] \in InRows(s)
    BY <1>1, <1>3
  <2>5. x \in A /\ z < x /\ A \subseteq Nat /\ IsFiniteSet(A) /\ z \in A
    <3>1. LeftOpen(s, q, k, H)
      BY <1>3, <1>7, <2>4 DEF LeftOpen
    <3>2. z \in H /\ Woven(s)
      BY <1>5
    <3>3. InRing(OpenColumn(s, H, z), z, x)
      BY <1>14, <2>1, <2>3, <3>1, <3>2, CoverColumn
    <3> QED BY <1>8, <3>3 DEF InRing
  <2>6. x # a
    <3>1. ASSUME x = a PROVE HasTaken(K, q, n)
      <4>1. 1..n = (1..k) \cup {n}
        BY <1>3
      <4> QED BY <1>4, <2>1, <3>1, <4>1 DEF HasTaken
    <3> QED BY <1>1, <1>14, <3>1 DEF Tried, Hopeless
  <2>7. a < x
    BY <1>9, <2>3, <2>5, <2>6
  <2>8. a < Links!After(A, a) /\ Links!After(A, a) <= x /\ Links!After(A, a) \in A
    BY <1>9, <2>5, <2>7, AfterLeast
  <2>9. z < a
    BY <1>5 DEF Woven, Hung
  <2>10. y # z
    BY <1>9, <1>10, <2>5, <2>8, <2>9
  <2> QED BY <1>9, <1>10, <2>3, <2>8, <2>10
<1>15. ASSUME NEW d \in 1..Len(g) PROVE StillToTry(s, u, d, g[d].col, g[d].row)
  <2>1. CASE d = n
    BY <1>2, <1>12, <1>14, <2>1 DEF StillToTry
  <2>2. CASE d # n
    <3>1. d \in 1..k /\ d \in 1..Len(f) /\ 1..(d - 1) \subseteq 1..k
      BY <1>2, <1>3, <1>12, <2>2
    <3>2. \A K : HasTaken(K, u, d - 1) <=> HasTaken(K, q, d - 1)
      BY <1>11, <3>1 DEF HasTaken
    <3>3. StillToTry(s, q, d, f[d].col, f[d].row)
      BY <3>1 DEF Tried
    <3> QED BY <1>12, <3>1, <3>2, <3>3 DEF StillToTry
  <2> QED BY <2>1, <2>2
<1> QED BY <1>10, <1>15 DEF Tried

(* A call that has passed every row of its column gives up rightly. *)
LEMMA TriedGiveUp ==
  ASSUME NEW s, NEW q \in Seq(InRows(s)), NEW f \in Seq(Call(s)), Tried(s, q, f, "loop"),
         Len(f) = Len(q) + 1, f[Len(f)].row = f[Len(f)].col
  PROVE  Hopeless(s, q) /\ Tried(s, q, Links!Front(f), "back")
<1>1. PICK n, g : n = Len(q) /\ g = Links!Front(f)
  OBVIOUS
<1>2. n \in Nat /\ Len(f) = n + 1 /\ n + 1 - 1 = n /\ n + 1 \in 1..Len(f)
  BY <1>1
<1>3. StillToTry(s, q, n + 1, f[n + 1].col, f[n + 1].row)
  BY <1>2 DEF Tried
<1>4. Hopeless(s, q)
  BY <1>1, <1>2, <1>3 DEF StillToTry, Hopeless
<1>5. Len(g) = n /\ \A d \in 1..n : g[d] = f[d]
  BY <1>1, <1>2, FrontSays
<1>6. \A d \in 1..Len(g) : StillToTry(s, q, d, g[d].col, g[d].row)
  BY <1>2, <1>5 DEF Tried
<1> QED BY <1>1, <1>4, <1>6 DEF Tried

-----------------------------------------------------------------------------
(* The invariant of the verdict. *)

(* The board is as it was, and no exact cover has been passed over. *)
Undecided ==
  at # "done" => board = puzzle /\ result = FALSE /\ Tried(Start, stack_, frames, at)

(* A call that ended the search ended it rightly. *)
Decided ==
  at = "done" => IF result THEN Completes(board, puzzle) /\ board \in Board
                 ELSE board = puzzle /\ \A K : ~ExactCover(Start, K)

LinksSearch ==
  /\ LinksInv /\ puzzle \in Board
  /\ at \in {"call", "loop", "back", "done"} /\ result \in BOOLEAN
  /\ Undecided /\ Decided

LEMMA SearchBegins ==
  ASSUME Band <= 3, NEW p \in Board, Links!Init(p)
  PROVE  LinksSearch
<1>1. /\ puzzle = p /\ board = p /\ stack_ = <<>> /\ frames = <<>> /\ at = "call" /\ result = FALSE
  BY DEF Links!Init
<1>2. LinksInv
  BY LinksStart
<1>3. Tried(Start, stack_, frames, at)
  <2>1. Len(frames) = 0 /\ 1..0 = {} /\ at # "back"
    BY <1>1
  <2> QED BY <2>1 DEF Tried
<1> QED BY <1>1, <1>2, <1>3 DEF LinksSearch, Undecided, Decided

LEMMA SearchChooses ==
  ASSUME LinksSearch, Links!ChooseColumn
  PROVE  LinksSearch'
<1>1. PICK c, r, g : /\ c = Links!MinColumn(mesh) /\ r = Links!Cover(mesh, c)
                     /\ g = Append(frames, [col |-> c, row |-> r.down[c]])
  OBVIOUS
<1>2. /\ at = "call" /\ mesh.left[0] # 0 /\ at' = "loop" /\ stack_' = stack_ /\ Start' = Start
      /\ mesh' = r /\ frames' = g /\ puzzle' = puzzle /\ board' = board /\ result' = result
  BY <1>1 DEF Links!ChooseColumn, Start
<1>3. PICK s : s = Start
  OBVIOUS
<1>4. /\ Woven(s) /\ stack_ \in Seq(InRows(s)) /\ frames \in Seq(Call(s))
      /\ \E b, o : History(s, mesh, stack_, frames, FALSE, b, o)
  BY <1>2, <1>3 DEF LinksSearch, LinksInv, Solving
<1>5. PICK b, o : History(s, mesh, stack_, frames, FALSE, b, o)
  BY <1>4
<1>6. board = puzzle /\ result = FALSE /\ Tried(s, stack_, frames, "call")
  BY <1>2, <1>3 DEF LinksSearch, Undecided
<1>7. Tried(s, stack_, g, "loop")
  BY <1>1, <1>2, <1>4, <1>5, <1>6, TriedChoose
<1>8. LinksInv'
  BY LinksChoose DEF LinksSearch
<1>9. Undecided' /\ Decided'
  BY <1>2, <1>3, <1>6, <1>7 DEF Undecided, Decided
<1> QED BY <1>2, <1>6, <1>8, <1>9 DEF LinksSearch

LEMMA SearchTakes ==
  ASSUME LinksSearch, Links!Take
  PROVE  LinksSearch'
<1>1. PICK a : a = frames[Len(frames)].row
  OBVIOUS
<1>2. /\ at = "loop" /\ a # frames[Len(frames)].col /\ at' = "call" /\ frames' = frames /\ Start' = Start
      /\ stack_' = Append(stack_, a) /\ puzzle' = puzzle /\ board' = board /\ result' = result
  BY <1>1 DEF Links!Take, Links!Top, Start
<1>3. PICK s : s = Start
  OBVIOUS
<1>4. /\ Woven(s) /\ stack_ \in Seq(InRows(s)) /\ frames \in Seq(Call(s))
      /\ \E b, o : History(s, mesh, stack_, frames, TRUE, b, o)
  BY <1>2, <1>3 DEF LinksSearch, LinksInv, Solving
<1>5. PICK b, o : History(s, mesh, stack_, frames, TRUE, b, o)
  BY <1>4
<1>6. board = puzzle /\ result = FALSE /\ Tried(s, stack_, frames, "loop")
  BY <1>2, <1>3 DEF LinksSearch, Undecided
<1>7. LinksInv'
  BY LinksTake DEF LinksSearch
<1>8. Append(stack_, a) \in Seq(InRows(s)) /\ Len(frames) = Len(stack_) + 1
  <2>1. Append(stack_, a) \in Seq(InRows(s))
    BY <1>2, <1>3, <1>7 DEF LinksInv, Solving
  <2> QED BY <1>5, <2>1 DEF History
<1>9. a \in InRows(s)
  <2>1. PICK q : q = Append(stack_, a)
    OBVIOUS
  <2>2. q[Len(stack_) + 1] = a /\ Len(q) = Len(stack_) + 1 /\ Len(q) \in 1..Len(q)
    BY <1>4, <2>1
  <2>3. q \in Seq(InRows(s))
    BY <1>8, <2>1
  <2> QED BY <2>2, <2>3
<1>10. Tried(s, Append(stack_, a), frames, "call")
  BY <1>4, <1>6, <1>8, <1>9, TriedTake
<1>11. Undecided' /\ Decided'
  BY <1>2, <1>3, <1>6, <1>10 DEF Undecided, Decided
<1> QED BY <1>2, <1>6, <1>7, <1>11 DEF LinksSearch

LEMMA SearchUndoes ==
  ASSUME LinksSearch, Links!Undo
  PROVE  LinksSearch'
<1>1. PICK a, r, g : /\ a = frames[Len(frames)].row /\ r = Links!Undone(mesh, a)
                     /\ g = [frames EXCEPT ![Len(frames)].row = r.down[a]]
  OBVIOUS
<1>2. /\ at = "back" /\ at' = "loop" /\ stack_' = Links!Front(stack_) /\ Start' = Start
      /\ mesh' = r /\ frames' = g /\ puzzle' = puzzle /\ board' = board /\ result' = result
  BY <1>1 DEF Links!Undo, Links!Top, Links!WithRow, Start
<1>3. PICK s : s = Start
  OBVIOUS
<1>4. /\ Woven(s) /\ stack_ \in Seq(InRows(s)) /\ frames \in Seq(Call(s)) /\ Len(stack_) > 0
      /\ \E b, o : History(s, mesh, stack_, frames, FALSE, b, o)
  BY <1>2, <1>3 DEF LinksSearch, LinksInv, Solving
<1>5. PICK b, o : History(s, mesh, stack_, frames, FALSE, b, o)
  BY <1>4
<1>6. board = puzzle /\ result = FALSE /\ Tried(s, stack_, frames, "back")
  BY <1>2, <1>3 DEF LinksSearch, Undecided
<1>7. Tried(s, Links!Front(stack_), g, "loop")
  BY <1>1, <1>4, <1>5, <1>6, TriedUndo
<1>8. LinksInv'
  BY LinksUndo DEF LinksSearch
<1>9. Undecided' /\ Decided'
  BY <1>2, <1>3, <1>6, <1>7 DEF Undecided, Decided
<1> QED BY <1>2, <1>6, <1>8, <1>9 DEF LinksSearch

LEMMA SearchGivesUp ==
  ASSUME LinksSearch, Links!GiveUp
  PROVE  LinksSearch'
<1>1. PICK g : g = Links!Front(frames)
  OBVIOUS
<1>2. /\ at = "loop" /\ at' = (IF g = <<>> THEN "done" ELSE "back") /\ stack_' = stack_
      /\ frames[Len(frames)].row = frames[Len(frames)].col
      /\ Start' = Start /\ frames' = g /\ puzzle' = puzzle /\ board' = board /\ result' = result
  BY <1>1 DEF Links!GiveUp, Links!Top, Start
<1>3. PICK s : s = Start
  OBVIOUS
<1>4. /\ Woven(s) /\ stack_ \in Seq(InRows(s)) /\ frames \in Seq(Call(s))
      /\ \E b, o : History(s, mesh, stack_, frames, TRUE, b, o)
  BY <1>2, <1>3 DEF LinksSearch, LinksInv, Solving
<1>5. PICK b, o : History(s, mesh, stack_, frames, TRUE, b, o)
  BY <1>4
<1>6. board = puzzle /\ result = FALSE /\ Tried(s, stack_, frames, "loop")
  BY <1>2, <1>3 DEF LinksSearch, Undecided
<1>7. Len(frames) = Len(stack_) + 1
  BY <1>5 DEF History
<1>8. Hopeless(s, stack_) /\ Tried(s, stack_, g, "back")
  BY <1>1, <1>2, <1>4, <1>6, <1>7, TriedGiveUp
<1>9. LinksInv'
  BY LinksGiveUp DEF LinksSearch
<1>10. CASE g = <<>>
  <2>1. Len(stack_) = 0
    <3>1. frames \in Seq(Call(s)) /\ Len(frames) > 0
      BY <1>4, <1>7
    <3>2. Len(Links!Front(frames)) = Len(frames) - 1
      BY <3>1, FrontSays
    <3>3. Len(g) = 0
      BY <1>10
    <3> QED BY <1>1, <1>4, <1>7, <3>2, <3>3
  <2>2. ASSUME NEW K, ExactCover(s, K) PROVE FALSE
    <3>1. HasTaken(K, stack_, Len(stack_))
      BY <2>1 DEF HasTaken
    <3> QED BY <1>8, <2>2, <3>1 DEF Hopeless
  <2>3. Undecided' /\ Decided'
    BY <1>2, <1>3, <1>6, <1>10, <2>2 DEF Undecided, Decided
  <2> QED BY <1>2, <1>6, <1>9, <1>10, <2>3 DEF LinksSearch
<1>11. CASE g # <<>>
  <2>1. Undecided' /\ Decided'
    BY <1>2, <1>3, <1>6, <1>8, <1>11 DEF Undecided, Decided
  <2> QED BY <1>2, <1>6, <1>9, <1>11, <2>1 DEF LinksSearch
<1> QED BY <1>10, <1>11

-----------------------------------------------------------------------------
(* What the names of the constraints stand for. *)

(* The row, the column and the box of a cell, and their names. *)
Part(q, c) == IF q = 0 THEN Row(c) ELSE IF q = 1 THEN Col(c) ELSE Box(c)

Group(q, x, v) == 100 * (q + 1) + x * 10 + v

Numbers == 0..(NUM - 1)

LEMMA PartNumber ==
  ASSUME NEW q \in 0..2, NEW c \in Cells
  PROVE  Part(q, c) \in Numbers
BY CellParts, BoxParts DEF Part, Numbers

LEMMA Digits10 ==
  ASSUME Band <= 3
  PROVE  /\ Numbers \subseteq 0..8 /\ Values \subseteq 1..9 /\ Cells \subseteq 0..80
         /\ NUM \in 1..9
<1>1. NUM \in 1..9 /\ NUM * NUM <= 81 /\ NUM * NUM \in Nat
  BY Decimal
<1> QED BY <1>1 DEF Numbers, Values, Cells

LEMMA GroupDigits ==
  ASSUME Band <= 3, NEW q \in 0..2, NEW x \in Numbers, NEW v \in Values
  PROVE  /\ Group(q, x, v) \in Nat /\ Group(q, x, v) > 100 /\ Group(q, x, v) \notin Cells
         /\ Group(q, x, v) % 10 = v
         /\ \A r \in 0..2, y \in Numbers, w \in Values :
              Group(q, x, v) = Group(r, y, w) => q = r /\ x = y /\ v = w
<1>1. x \in 0..8 /\ v \in 1..9 /\ Cells \subseteq 0..80
  BY Digits10
<1>2. Group(q, x, v) = 100 * (q + 1) + x * 10 + v
  BY DEF Group
<1>3. Group(q, x, v) \in Nat /\ Group(q, x, v) > 100
  BY <1>1, <1>2
<1>4. Group(q, x, v) \notin Cells
  BY <1>1, <1>3
<1>5. Group(q, x, v) % 10 = v
  <2>1. PICK u : u = 10 * (q + 1) + x
    OBVIOUS
  <2>2. u \in Nat /\ Group(q, x, v) = 10 * u + v
    BY <1>1, <1>2, <2>1
  <2>3. 10 \in Nat \ {0} /\ v \in 0..(10 - 1)
    BY <1>1
  <2>4. (10 * u + v) % 10 = v
    BY <2>2, <2>3, Quotient
  <2> QED BY <2>2, <2>4
<1>6. ASSUME NEW r \in 0..2, NEW y \in Numbers, NEW w \in Values, Group(q, x, v) = Group(r, y, w)
      PROVE  q = r /\ x = y /\ v = w
  <2>1. y \in 0..8 /\ w \in 1..9
    BY Digits10
  <2>2. 100 * (q + 1) + x * 10 + v = 100 * (r + 1) + y * 10 + w
    BY <1>2, <1>6 DEF Group
  <2> QED BY <1>1, <2>1, <2>2
<1> QED BY <1>3, <1>4, <1>5, <1>6

(* The constraints of a value in a cell. *)
Has(c, v) == {c} \cup {Group(q, Part(q, c), v) : q \in 0..2}

LEMMA ConstraintsAre ==
  ASSUME Band <= 3, NEW c \in Cells, NEW v \in Values
  PROVE  Links!ToSet(Links!Constraints(c, v)) = Has(c, v)
<1> DEFINE t == <<c, 100 + Row(c) * 10 + v, 200 + Col(c) * 10 + v, 300 + Box(c) * 10 + v>>
<1>1. Links!Constraints(c, v) = t
  BY ConstraintKinds
<1>2. Links!ToSet(t) = {c, 100 + Row(c) * 10 + v, 200 + Col(c) * 10 + v, 300 + Box(c) * 10 + v}
  <2>1. \A a, b, d, e : Links!ToSet(<<a, b, d, e>>) = {a, b, d, e}
    BY DEF Links!ToSet
  <2> QED BY <2>1
<1>3. /\ Group(0, Part(0, c), v) = 100 + Row(c) * 10 + v
      /\ Group(1, Part(1, c), v) = 200 + Col(c) * 10 + v
      /\ Group(2, Part(2, c), v) = 300 + Box(c) * 10 + v
  BY DEF Group, Part
<1>4. 0..2 = {0, 1, 2}
  OBVIOUS
<1>5. Has(c, v) = {c, Group(0, Part(0, c), v), Group(1, Part(1, c), v), Group(2, Part(2, c), v)}
  BY <1>4 DEF Has
<1> QED BY <1>1, <1>2, <1>3, <1>5

(* What the values given take away. *)
LEMMA PlacedAre ==
  ASSUME Band <= 3, NEW p \in Board
  PROVE  Links!Placed(p) = UNION {Has(d, p[d]) : d \in Cells \ Blanks(p)}
<1>1. \A d \in Cells \ Blanks(p) : d \in Cells /\ p[d] \in Values
  BY NumType DEF Blanks, Board, Values
<1>2. \A d \in Cells \ Blanks(p) : Links!ToSet(Links!Constraints(d, p[d])) = Has(d, p[d])
  BY <1>1, ConstraintsAre
<1>3. Links!Cells = Cells /\ Links!Blanks(p) = Blanks(p)
  BY LinksBoard DEF Links!Blanks, Blanks
<1> QED BY <1>2, <1>3 DEF Links!Placed

(* A cell, or a number and a value of a group. *)
Named(k, n) ==
  \/ n \in Cells /\ k = n + 1
  \/ \E q \in 0..2, x \in Numbers, v \in Values :
       n = Group(q, x, v) /\ k = NUM * NUM + 1 + 3 * (NUM * x + (v - 1)) + q

LEMMA NamesAre ==
  ASSUME NEW k \in DOMAIN Links!Names
  PROVE  Named(k, Links!Names[k])
<1> DEFINE M == NUM * NUM
           l == k - M - 1
           n == l \div 3
           q == l % 3
           x == n \div NUM
           y == n % NUM
<1>1. NUM \in Nat \ {0} /\ M \in Nat /\ 4 * NUM * NUM = 4 * M
  BY NumType
<1>2. k \in 1..(4 * M)
  BY <1>1, LinksBoard DEF Links!Names
<1>3. Links!Names[k] = IF k <= M THEN k - 1 ELSE <<100, 200, 300>>[q + 1] + x * 10 + y + 1
  BY <1>1, <1>2, LinksBoard DEF Links!Names, Links!kRow, Links!kCol, Links!kBox
<1>4. CASE k <= M
  <2>1. Links!Names[k] \in Cells /\ k = Links!Names[k] + 1
    BY <1>1, <1>2, <1>3, <1>4 DEF Cells
  <2> QED BY <2>1 DEF Named
<1>5. CASE ~(k <= M)
  <2>1. l \in 0..(3 * M - 1) /\ k = M + 1 + l
    BY <1>1, <1>2, <1>5
  <2> HIDE DEF l
  <2>2. q \in 0..2 /\ n \in 0..(M - 1) /\ l = 3 * n + q
    BY <1>1, <2>1
  <2> HIDE DEF n, q
  <2>3. x \in 0..(NUM - 1) /\ y \in 0..(NUM - 1) /\ n = NUM * x + y
    <3>1. n \in 0..(NUM * NUM - 1) /\ n \in Nat
      BY <1>1, <2>2 DEF M
    <3> QED BY <1>1, <3>1, Below, Euclid
  <2> HIDE DEF x, y, M
  <2>4. y + 1 \in Values /\ x \in Numbers /\ (y + 1) - 1 = y
    BY <1>1, <2>3 DEF Values, Numbers
  <2>5. <<100, 200, 300>>[q + 1] = 100 * (q + 1)
    <3>1. q = 0 \/ q = 1 \/ q = 2
      BY <2>2
    <3>2. <<100, 200, 300>>[1] = 100 /\ <<100, 200, 300>>[2] = 200 /\ <<100, 200, 300>>[3] = 300
      OBVIOUS
    <3>3. CASE q = 0
      BY <3>2, <3>3
    <3>4. CASE q = 1
      BY <3>2, <3>4
    <3>5. CASE q = 2
      BY <3>2, <3>5
    <3> QED BY <3>1, <3>3, <3>4, <3>5
  <2>6. Links!Names[k] = Group(q, x, y + 1)
    <3>1. x \in Int /\ y \in Int /\ q \in Int
      BY <1>1, <2>2, <2>3
    <3> QED BY <1>3, <1>5, <2>5, <3>1 DEF Group
  <2>7. k = M + 1 + 3 * (NUM * x + ((y + 1) - 1)) + q
    <3>1. NUM * x + ((y + 1) - 1) = n
      BY <2>3, <2>4
    <3>2. k = M + 1 + 3 * n + q
      BY <1>1, <2>1, <2>2
    <3> QED BY <3>1, <3>2
  <2> QED BY <2>2, <2>4, <2>6, <2>7 DEF Named, M
<1> QED BY <1>4, <1>5

LEMMA NamesDiffer ==
  ASSUME Band <= 3, NEW k \in DOMAIN Links!Names, NEW l \in DOMAIN Links!Names,
         Links!Names[k] = Links!Names[l]
  PROVE  k = l
<1>1. PICK n : n = Links!Names[k]
  OBVIOUS
<1>2. Named(k, n) /\ Named(l, n)
  BY <1>1, NamesAre
<1>3. CASE n \in Cells
  <2>1. \A q \in 0..2, x \in Numbers, v \in Values : n # Group(q, x, v)
    BY <1>3, GroupDigits
  <2> QED BY <1>2, <2>1 DEF Named
<1>4. CASE n \notin Cells
  <2>1. PICK q \in 0..2, x \in Numbers, v \in Values :
          n = Group(q, x, v) /\ k = NUM * NUM + 1 + 3 * (NUM * x + (v - 1)) + q
    BY <1>2, <1>4 DEF Named
  <2>2. PICK r \in 0..2, y \in Numbers, w \in Values :
          n = Group(r, y, w) /\ l = NUM * NUM + 1 + 3 * (NUM * y + (w - 1)) + r
    BY <1>2, <1>4 DEF Named
  <2>3. q = r /\ x = y /\ v = w
    <3>1. Group(q, x, v) = Group(r, y, w)
      BY <2>1, <2>2
    <3>2. \A i \in 0..2, z \in Numbers, u \in Values :
            Group(q, x, v) = Group(i, z, u) => q = i /\ x = z /\ v = u
      BY GroupDigits
    <3> QED BY <3>1, <3>2
  <2> QED BY <2>1, <2>2, <2>3
<1> QED BY <1>3, <1>4

(* Every constraint has a number. *)
LEMMA NameKnown ==
  ASSUME NEW n, \/ n \in Cells
                \/ \E q \in 0..2, x \in Numbers, v \in Values : n = Group(q, x, v)
  PROVE  \E k \in DOMAIN Links!Names : Links!Names[k] = n
<1>1. CASE n \in Cells
  <2>1. NUM * NUM \in Nat /\ n + 1 \in 1..(NUM * NUM) /\ 4 * NUM * NUM = 4 * (NUM * NUM) /\ n \in Int
    BY <1>1, NumType DEF Cells
  <2>2. n + 1 \in 1..(4 * NUM * NUM) /\ n + 1 <= NUM * NUM
    BY <2>1
  <2>3. n + 1 \in DOMAIN Links!Names /\ Links!Names[n + 1] = n + 1 - 1
    BY <1>1, <2>2, LinksBoard DEF Links!Names, Cells
  <2> QED BY <2>1, <2>3
<1>2. CASE \E q \in 0..2, x \in Numbers, v \in Values : n = Group(q, x, v)
  BY <1>2, NameAt DEF Group, Numbers
<1> QED BY <1>1, <1>2

-----------------------------------------------------------------------------
(* The columns and the rows of a puzzle. *)

(* No two entries of a list are the same. *)
Differ(list) == \A i, j \in 1..Len(list) : list[i] = list[j] => i = j

LEMMA KeptDiffer ==
  ASSUME NEW s, NEW I, I \subseteq Nat, IsFiniteSet(I), \A i, j \in I : s[i] = s[j] => i = j
  PROVE  Differ(Links!Kept(s, I))
<1> DEFINE n == Cardinality(I)
           order == Ascending(I)
           kept == [j \in 1..n |-> s[order[j]]]
<1>1. /\ n \in Nat /\ order \in [1..n -> I]
      /\ \A i, j \in 1..n : i < j <=> order[i] < order[j]
  BY Listed
<1> HIDE DEF n, order
<1>2. Links!Kept(s, I) = kept
  <2>1. DOMAIN order = 1..n /\ Links!Ascending(I) = order
    BY <1>1, SameLinks DEF order
  <2> QED BY <2>1 DEF Links!Kept
<1>3. DOMAIN kept = 1..n /\ \A j \in 1..n : kept[j] = s[order[j]]
  OBVIOUS
<1> HIDE DEF kept
<1>4. Len(kept) = n
  BY <1>1, <1>3
<1>5. ASSUME NEW i \in 1..n, NEW j \in 1..n, kept[i] = kept[j] PROVE i = j
  <2>1. order[i] \in I /\ order[j] \in I /\ s[order[i]] = s[order[j]]
    BY <1>1, <1>3, <1>5
  <2>2. order[i] = order[j]
    BY <2>1
  <2>3. order[i] \in Nat /\ order[j] \in Nat
    BY <2>1
  <2>4. ~(i < j) /\ ~(j < i)
    BY <1>1, <2>2, <2>3
  <2> QED BY <1>1, <2>4
<1> QED BY <1>2, <1>4, <1>5 DEF Differ

(* What may be constrained. *)
Constraint(n) == n \in Cells \/ \E q \in 0..2, x \in Numbers, v \in Values : n = Group(q, x, v)

(* The columns are the constraints the values given leave open, once each. *)
LEMMA ColumnsKnown ==
  ASSUME Band <= 3, NEW p, NEW columns, columns = Links!ColumnNames(p)
  PROVE  /\ columns \in Seq(Int) /\ Differ(columns)
         /\ \A x \in 1..Len(columns) : Constraint(columns[x]) /\ columns[x] \notin Links!Placed(p)
         /\ \A n : Constraint(n) /\ n \notin Links!Placed(p) => \E x \in 1..Len(columns) : columns[x] = n
<1> DEFINE I == {k \in DOMAIN Links!Names : Links!Names[k] \notin Links!Placed(p)}
<1>1. I \subseteq Nat /\ IsFiniteSet(I)
  <2>1. DOMAIN Links!Names = 1..(4 * NUM * NUM) /\ 4 * NUM * NUM \in Nat
    BY LinksBoard, NumType DEF Links!Names
  <2>2. I \subseteq 1..(4 * NUM * NUM) /\ IsFiniteSet(1..(4 * NUM * NUM))
    BY <2>1, FS_Interval
  <2>3. IsFiniteSet(I)
    BY <2>2, FS_Subset
  <2> QED BY <2>1, <2>2, <2>3
<1>2. columns = Links!Kept(Links!Names, I)
  BY DEF Links!ColumnNames
<1>3. \A k \in I : /\ Constraint(Links!Names[k]) /\ Links!Names[k] \notin Links!Placed(p)
                   /\ Links!Names[k] \in Int
  <2> SUFFICES ASSUME NEW k \in I
               PROVE  Constraint(Links!Names[k]) /\ Links!Names[k] \in Int
    OBVIOUS
  <2>1. PICK n : n = Links!Names[k]
    OBVIOUS
  <2>2. Named(k, n)
    BY <2>1, NamesAre
  <2>3. Constraint(n)
    BY <2>2 DEF Named, Constraint
  <2>4. n \in Cells => n \in Int
    BY NumType DEF Cells
  <2>5. \A q \in 0..2, x \in Numbers, v \in Values : Group(q, x, v) \in Int
    BY GroupDigits
  <2> QED BY <2>1, <2>3, <2>4, <2>5 DEF Constraint
<1>4. \A i, j \in I : Links!Names[i] = Links!Names[j] => i = j
  BY NamesDiffer
<1>5. \A n : Constraint(n) /\ n \notin Links!Placed(p) => \E k \in I : Links!Names[k] = n
  BY NameKnown DEF Constraint
<1> HIDE DEF I
<1>6. Differ(columns)
  BY <1>1, <1>2, <1>4, KeptDiffer
<1>7. Lists(columns, Links!Names, I, Int)
  <2>1. TakenFrom(Links!Names, I, Int)
    BY <1>3 DEF TakenFrom
  <2> QED BY <1>1, <1>2, <2>1, KeptListed
<1>8. /\ columns \in Seq(Int)
      /\ \A x \in 1..Len(columns) : \E k \in I : columns[x] = Links!Names[k]
      /\ \A k \in I : \E x \in 1..Len(columns) : columns[x] = Links!Names[k]
  BY <1>7 DEF Lists
<1>9. \A x \in 1..Len(columns) : Constraint(columns[x]) /\ columns[x] \notin Links!Placed(p)
  <2> SUFFICES ASSUME NEW x \in 1..Len(columns)
               PROVE  Constraint(columns[x]) /\ columns[x] \notin Links!Placed(p)
    OBVIOUS
  <2>1. PICK k \in I : columns[x] = Links!Names[k]
    BY <1>8
  <2> QED BY <1>3, <2>1
<1>10. ASSUME NEW n, Constraint(n), n \notin Links!Placed(p)
       PROVE  \E x \in 1..Len(columns) : columns[x] = n
  <2>1. PICK k \in I : Links!Names[k] = n
    BY <1>5, <1>10
  <2> QED BY <1>8, <2>1
<1> QED BY <1>6, <1>8, <1>9, <1>10

(* A value no given excludes from a cell. *)
Possible(p, c, v) == Has(c, v) \cap Links!Placed(p) = {}

LEMMA GuessesAre ==
  ASSUME Band <= 3
  PROVE  /\ DOMAIN Links!Guesses = 1..(NUM * (NUM * NUM)) /\ NUM * (NUM * NUM) \in Nat
         /\ \A k \in DOMAIN Links!Guesses : \E c \in Cells, v \in Values :
              Links!Guesses[k] = Links!Constraints(c, v) /\ k = NUM * c + v
         /\ \A c \in Cells, v \in Values : \E k \in DOMAIN Links!Guesses :
              Links!Guesses[k] = Links!Constraints(c, v)
<1> DEFINE M == NUM * NUM
<1>1. NUM \in Nat \ {0} /\ M \in Nat /\ NUM * M \in Nat /\ NUM * NUM * NUM = NUM * M
  BY NumType
<1>2. DOMAIN Links!Guesses = 1..(NUM * M)
  BY <1>1, LinksBoard DEF Links!Guesses
<1>3. \A k \in 1..(NUM * M) :
        Links!Guesses[k] = Links!Constraints((k - 1) \div NUM, ((k - 1) % NUM) + 1)
  BY <1>1, LinksBoard DEF Links!Guesses
<1>4. Cells = 0..(M - 1) /\ Values = 1..NUM
  BY DEF Cells, Values
<1> HIDE DEF M
<1>5. ASSUME NEW k \in 1..(NUM * M)
      PROVE  \E c \in Cells, v \in Values :
               Links!Guesses[k] = Links!Constraints(c, v) /\ k = NUM * c + v
  <2>1. PICK l : l = k - 1
    OBVIOUS
  <2>2. l \in 0..(NUM * M - 1) /\ l \in Nat /\ k = l + 1
    BY <1>1, <2>1
  <2>3. PICK c, r : c = l \div NUM /\ r = l % NUM
    OBVIOUS
  <2>4. c \in 0..(M - 1) /\ r \in 0..(NUM - 1) /\ l = NUM * c + r
    BY <1>1, <2>2, <2>3, Below, Euclid
  <2>5. c \in Cells /\ r + 1 \in Values /\ k = NUM * c + (r + 1)
    BY <1>1, <1>4, <2>2, <2>4
  <2>6. Links!Guesses[k] = Links!Constraints(c, r + 1)
    BY <1>3, <2>1, <2>3
  <2> QED BY <2>5, <2>6
<1>6. ASSUME NEW c \in Cells, NEW v \in Values
      PROVE  \E k \in 1..(NUM * M) : Links!Guesses[k] = Links!Constraints(c, v)
  <2>1. PICK r : r = v - 1
    OBVIOUS
  <2>2. r \in 0..(NUM - 1) /\ r + 1 = v /\ c \in Nat /\ c \in 0..(M - 1)
    BY <1>1, <1>4, <2>1
  <2>3. PICK l : l = NUM * c + r
    OBVIOUS
  <2>4. l \in 0..(NUM * M - 1) /\ l \div NUM = c /\ l % NUM = r
    BY <1>1, <2>2, <2>3, Products, Quotient
  <2>5. PICK k : k = l + 1
    OBVIOUS
  <2>6. k \in 1..(NUM * M) /\ k - 1 = l
    BY <1>1, <2>4, <2>5
  <2>7. Links!Guesses[k] = Links!Constraints(c, v)
    BY <1>3, <2>2, <2>4, <2>6
  <2> QED BY <2>6, <2>7
<1> QED BY <1>1, <1>2, <1>5, <1>6 DEF M

(* The constraints tell the cell and the value. *)
LEMMA ConstraintsDiffer ==
  ASSUME Band <= 3, NEW c \in Cells, NEW v \in Values, NEW d \in Cells, NEW w \in Values,
         Links!Constraints(c, v) = Links!Constraints(d, w)
  PROVE  c = d /\ v = w
<1> DEFINE t == <<c, 100 + Row(c) * 10 + v, 200 + Col(c) * 10 + v, 300 + Box(c) * 10 + v>>
           u == <<d, 100 + Row(d) * 10 + w, 200 + Col(d) * 10 + w, 300 + Box(d) * 10 + w>>
<1>1. Links!Constraints(c, v) = t /\ Links!Constraints(d, w) = u
  BY ConstraintKinds
<1>2. t = u
  BY <1>1
<1>3. t[1] = c /\ u[1] = d /\ t[2] = 100 + Row(c) * 10 + v /\ u[2] = 100 + Row(d) * 10 + w
  OBVIOUS
<1> HIDE DEF t, u
<1>4. c = d /\ 100 + Row(c) * 10 + v = 100 + Row(c) * 10 + w
  BY <1>2, <1>3
<1>5. v \in Int /\ w \in Int /\ Row(c) \in Int
  BY CellParts, NumType DEF Values
<1>6. v = w
  <2>1. PICK r : r = Row(c)
    OBVIOUS
  <2> QED BY <1>4, <1>5, <2>1
<1> QED BY <1>4, <1>6

(* The rows are the values no given excludes, once each. *)
LEMMA RowsKnown ==
  ASSUME Band <= 3, NEW p, NEW rows, rows = Links!Rows(p)
  PROVE  /\ Len(rows) \in Nat /\ Differ(rows)
         /\ \A j \in 1..Len(rows) : \E c \in Cells, v \in Values :
              rows[j] = Links!Constraints(c, v) /\ Possible(p, c, v)
         /\ \A c \in Cells, v \in Values : Possible(p, c, v) =>
              \E j \in 1..Len(rows) : rows[j] = Links!Constraints(c, v)
<1> DEFINE I == {k \in DOMAIN Links!Guesses : Links!ToSet(Links!Guesses[k]) \cap Links!Placed(p) = {}}
           T == {Links!Guesses[k] : k \in DOMAIN Links!Guesses}
<1>1. I \subseteq Nat /\ IsFiniteSet(I)
  <2>1. I \subseteq 1..(NUM * (NUM * NUM)) /\ IsFiniteSet(1..(NUM * (NUM * NUM)))
    BY GuessesAre, FS_Interval
  <2>2. IsFiniteSet(I)
    BY <2>1, FS_Subset
  <2>3. 1..(NUM * (NUM * NUM)) \subseteq Nat
    BY GuessesAre
  <2> QED BY <2>1, <2>2, <2>3
<1>2. rows = Links!Kept(Links!Guesses, I)
  BY DEF Links!Rows
<1>3. \A c \in Cells, v \in Values :
        Links!ToSet(Links!Constraints(c, v)) \cap Links!Placed(p) = {} <=> Possible(p, c, v)
  BY ConstraintsAre DEF Possible
<1>4. ASSUME NEW i \in I, NEW j \in I, Links!Guesses[i] = Links!Guesses[j] PROVE i = j
  <2>1. PICK c \in Cells, v \in Values : Links!Guesses[i] = Links!Constraints(c, v) /\ i = NUM * c + v
    BY GuessesAre
  <2>2. PICK d \in Cells, w \in Values : Links!Guesses[j] = Links!Constraints(d, w) /\ j = NUM * d + w
    BY GuessesAre
  <2>3. Links!Constraints(c, v) = Links!Constraints(d, w)
    BY <1>4, <2>1, <2>2
  <2>4. c = d /\ v = w
    BY <2>3, ConstraintsDiffer
  <2> QED BY <2>1, <2>2, <2>4
<1>5. \A k \in I : \E c \in Cells, v \in Values :
        Links!Guesses[k] = Links!Constraints(c, v) /\ Possible(p, c, v)
  <2> SUFFICES ASSUME NEW k \in I
               PROVE  \E c \in Cells, v \in Values :
                        Links!Guesses[k] = Links!Constraints(c, v) /\ Possible(p, c, v)
    OBVIOUS
  <2>1. PICK c \in Cells, v \in Values : Links!Guesses[k] = Links!Constraints(c, v)
    BY GuessesAre
  <2> QED BY <1>3, <2>1
<1>6. ASSUME NEW c \in Cells, NEW v \in Values, Possible(p, c, v)
      PROVE  \E k \in I : Links!Guesses[k] = Links!Constraints(c, v)
  <2>1. PICK k \in DOMAIN Links!Guesses : Links!Guesses[k] = Links!Constraints(c, v)
    BY GuessesAre
  <2> QED BY <1>3, <1>6, <2>1
<1>7. TakenFrom(Links!Guesses, I, T)
  BY DEF TakenFrom
<1> HIDE DEF I, T
<1>8. Lists(rows, Links!Guesses, I, T)
  BY <1>1, <1>2, <1>7, KeptListed
<1>9. /\ rows \in Seq(T)
      /\ \A j \in 1..Len(rows) : \E k \in I : rows[j] = Links!Guesses[k]
      /\ \A k \in I : \E j \in 1..Len(rows) : rows[j] = Links!Guesses[k]
  BY <1>8 DEF Lists
<1>10. Differ(rows)
  BY <1>1, <1>2, <1>4, KeptDiffer
<1>11. ASSUME NEW j \in 1..Len(rows)
       PROVE  \E c \in Cells, v \in Values : rows[j] = Links!Constraints(c, v) /\ Possible(p, c, v)
  <2>1. PICK k \in I : rows[j] = Links!Guesses[k]
    BY <1>9
  <2> QED BY <1>5, <2>1
<1>12. ASSUME NEW c \in Cells, NEW v \in Values, Possible(p, c, v)
       PROVE  \E j \in 1..Len(rows) : rows[j] = Links!Constraints(c, v)
  <2>1. PICK k \in I : Links!Guesses[k] = Links!Constraints(c, v)
    BY <1>6, <1>12
  <2> QED BY <1>9, <2>1
<1>13. Len(rows) \in Nat
  BY <1>9
<1> QED BY <1>10, <1>11, <1>12, <1>13

-----------------------------------------------------------------------------
(* The rows of the mesh stand for values in cells. *)

(* The nodes of the row of a have the names of the constraints. *)
Stands(s, a, c, v) == {s.name[j] : j \in {a} \cup Others(s, a)} = Has(c, v)

Encodes(s, p, columns) ==
  /\ Heads(s) \ {0} = 1..Len(columns)
  /\ \A a \in InRows(s) : columns[s.col[a]] = s.name[a]
  /\ \A a \in InRows(s) : \E c \in Cells, v \in Values : Possible(p, c, v) /\ Stands(s, a, c, v)
  /\ \A c \in Cells, v \in Values : Possible(p, c, v) => \E a \in InRows(s) : Stands(s, a, c, v)
  /\ \A a, b \in InRows(s) : \A c \in Cells, v \in Values :
       Stands(s, a, c, v) /\ Stands(s, b, c, v) /\ s.name[a] = s.name[b] => a = b

LEMMA HasDiffer ==
  ASSUME Band <= 3, NEW c \in Cells, NEW v \in Values, NEW d \in Cells, NEW w \in Values,
         NEW n, n \in Has(c, v), n \in Has(d, w)
  PROVE  /\ n \in Cells => n = c /\ n = d
         /\ n \notin Cells => /\ v = w
                              /\ \E q \in 0..2 : n = Group(q, Part(q, c), v) /\ Part(q, c) = Part(q, d)
<1>1. \A q \in 0..2 : Part(q, c) \in Numbers /\ Part(q, d) \in Numbers
  BY PartNumber
<1>2. CASE n \in Cells
  <2>1. \A q \in 0..2 : n # Group(q, Part(q, c), v) /\ n # Group(q, Part(q, d), w)
    BY <1>1, <1>2, GroupDigits
  <2> QED BY <1>2, <2>1 DEF Has
<1>3. CASE n \notin Cells
  <2>1. PICK q \in 0..2 : n = Group(q, Part(q, c), v)
    BY <1>3 DEF Has
  <2>2. PICK r \in 0..2 : n = Group(r, Part(r, d), w)
    BY <1>3 DEF Has
  <2>3. PICK x, y : x = Part(q, c) /\ y = Part(r, d)
    OBVIOUS
  <2>4. x \in Numbers /\ y \in Numbers /\ Group(q, x, v) = Group(r, y, w)
    BY <1>1, <2>1, <2>2, <2>3
  <2>5. \A i \in 0..2, z \in Numbers, u \in Values :
          Group(q, x, v) = Group(i, z, u) => q = i /\ x = z /\ v = u
    BY <2>4, GroupDigits
  <2>6. q = r /\ x = y /\ v = w
    BY <2>4, <2>5
  <2> QED BY <1>3, <2>1, <2>3, <2>6
<1> QED BY <1>2, <1>3

(* The nodes of row j, of the constraints t. *)
RowOfMesh(s, j, k, t) ==
  \A q \in 0..3 :
    /\ NodeOf(j, q, k) \in InRows(s) /\ s.name[NodeOf(j, q, k)] = t[q + 1]
    /\ {NodeOf(j, q, k)} \cup Others(s, NodeOf(j, q, k)) = {NodeOf(j, r, k) : r \in 0..3}

LEMMA RowsOfMesh ==
  ASSUME Band <= 3, NEW p, NEW s, s = Links!Dance(p),
         NEW rows, rows = Links!Rows(p), NEW h, h = Len(rows),
         NEW columns, columns = Links!ColumnNames(p), NEW k, k = Len(columns),
         NEW N, N = 0..(k + 4 * h)
  PROVE  \A j \in 0..(h - 1) : RowOfMesh(s, j, k, rows[j + 1])
<1>1. k \in Nat /\ h \in Nat /\ Built(s, columns, rows, k, N)
  BY ColumnsOf
<1>2. /\ Nodes(s) = N /\ Heads(s) = 0..k
      /\ \A n \in N : s.right[n] = Links!After(Across(n, k), n)
      /\ \A n \in N : n > k => s.name[n] = rows[((n - k - 1) \div 4) + 1][Place(n, k) + 1]
  BY <1>1 DEF Built, Nodes, Heads
<1>3. ASSUME NEW j \in 0..(h - 1) PROVE RowOfMesh(s, j, k, rows[j + 1])
  <2>1. PICK a, A, e : a = NodeOf(j, 0, k) /\ A = a..(a + 3) /\ e = rows[j + 1]
    OBVIOUS
  <2>2. ASSUME NEW q \in 0..3, NEW m, m = NodeOf(j, q, k)
        PROVE  m \in N /\ m > k /\ Across(m, k) = A /\ s.name[m] = e[q + 1] /\ m \in InRows(s)
    <3>1. InRow(m, a, q, j, k, h)
      BY <1>1, <2>1, <2>2, AcrossParts
    <3>2. m \in N /\ m > k /\ Place(m, k) = q /\ (m - k - 1) \div 4 = j /\ Across(m, k) = A
      BY <2>1, <3>1 DEF InRow
    <3>3. m \in InRows(s)
      <4>1. m \notin 0..k
        BY <1>1, <3>2
      <4> QED BY <1>2, <3>2, <4>1 DEF InRows
    <3>4. s.name[m] = rows[j + 1][q + 1]
      BY <1>2, <3>2
    <3> QED BY <2>1, <3>2, <3>3, <3>4
  <2>3. 0 \in 0..3 /\ 1 \in 0..3 /\ 2 \in 0..3 /\ 3 \in 0..3 /\ j \in Nat
    OBVIOUS
  <2>4. PICK b, c, d : b = NodeOf(j, 1, k) /\ c = NodeOf(j, 2, k) /\ d = NodeOf(j, 3, k)
    OBVIOUS
  <2>5. a \in Nat /\ b = a + 1 /\ c = a + 2 /\ d = a + 3
    BY <1>1, <2>1, <2>3, <2>4, NodeSteps
  <2>6. /\ Links!After(A, a) = b /\ Links!After(A, b) = c /\ Links!After(A, c) = d
        /\ Links!After(A, d) = a
    BY <2>1, <2>5, FourAcross
  <2>7. /\ a \in N /\ b \in N /\ c \in N /\ d \in N
        /\ Across(a, k) = A /\ Across(b, k) = A /\ Across(c, k) = A /\ Across(d, k) = A
    BY <2>1, <2>2, <2>3, <2>4
  <2>8. s.right[a] = b /\ s.right[b] = c /\ s.right[c] = d /\ s.right[d] = a
    BY <1>2, <2>6, <2>7
  <2>9. \A n \in {a, b, c, d} : {n} \cup Others(s, n) = {a, b, c, d}
    BY <2>8 DEF Others
  <2>10. {NodeOf(j, r, k) : r \in 0..3} = {a, b, c, d}
    <3>1. 0..3 = {0, 1, 2, 3}
      OBVIOUS
    <3> QED BY <2>1, <2>4, <3>1
  <2>11. \A q \in 0..3 : NodeOf(j, q, k) \in {a, b, c, d}
    BY <2>10
  <2>12. \A q \in 0..3 : NodeOf(j, q, k) \in InRows(s) /\ s.name[NodeOf(j, q, k)] = e[q + 1]
    BY <2>2
  <2> QED BY <2>1, <2>9, <2>10, <2>11, <2>12 DEF RowOfMesh
<1> QED BY <1>3

(* A row of the mesh stands for the value its constraints are of. *)
LEMMA RowStands ==
  ASSUME Band <= 3, NEW s, NEW j, NEW k, NEW c \in Cells, NEW v \in Values,
         RowOfMesh(s, j, k, Links!Constraints(c, v)), NEW q \in 0..3
  PROVE  Stands(s, NodeOf(j, q, k), c, v)
<1>1. PICK t, a : t = Links!Constraints(c, v) /\ a = NodeOf(j, q, k)
  OBVIOUS
<1>2. {a} \cup Others(s, a) = {NodeOf(j, r, k) : r \in 0..3}
  BY <1>1 DEF RowOfMesh
<1>3. {s.name[i] : i \in {a} \cup Others(s, a)} = {t[r + 1] : r \in 0..3}
  <2>1. \A r \in 0..3 : s.name[NodeOf(j, r, k)] = t[r + 1]
    BY <1>1 DEF RowOfMesh
  <2> QED BY <1>2, <2>1
<1>4. {t[r + 1] : r \in 0..3} = Links!ToSet(t)
  <2>1. t = <<t[1], t[2], t[3], t[4]>>
    BY <1>1 DEF Links!Constraints
  <2>2. \A w, x, y, z : Links!ToSet(<<w, x, y, z>>) = {w, x, y, z}
    BY DEF Links!ToSet
  <2>3. Links!ToSet(t) = {t[1], t[2], t[3], t[4]}
    BY <2>1, <2>2
  <2>4. 0..3 = {0, 1, 2, 3}
    OBVIOUS
  <2>5. {t[r + 1] : r \in 0..3} = {t[0 + 1], t[1 + 1], t[2 + 1], t[3 + 1]}
    BY <2>4
  <2> QED BY <2>3, <2>5
<1>5. Links!ToSet(t) = Has(c, v)
  BY <1>1, ConstraintsAre
<1> QED BY <1>1, <1>3, <1>4, <1>5 DEF Stands

LEMMA DanceEncodes ==
  ASSUME Band <= 3, NEW p, NEW columns, columns = Links!ColumnNames(p)
  PROVE  Encodes(Links!Dance(p), p, columns)
<1>1. PICK s, rows : s = Links!Dance(p) /\ rows = Links!Rows(p)
  OBVIOUS
<1>2. PICK k, h, N : k = Len(columns) /\ h = Len(rows) /\ N = 0..(k + 4 * h)
  OBVIOUS
<1>3. k \in Nat /\ h \in Nat /\ Built(s, columns, rows, k, N) /\ HangsBelow(s, k, h)
  BY <1>1, <1>2, ColumnsOf
<1>4. \A j \in 0..(h - 1) : RowOfMesh(s, j, k, rows[j + 1])
  BY <1>1, <1>2, RowsOfMesh
<1>5. /\ Nodes(s) = N /\ Heads(s) = 0..k
      /\ \A n \in N : n > k => s.col[n] = CHOOSE x \in 1..k : columns[x] = s.name[n]
  <2>1. \A n \in N : s.col[n] = IF n <= k THEN n ELSE CHOOSE x \in 1..k : columns[x] = s.name[n]
    BY <1>3 DEF Built
  <2>2. \A n \in N : n > k => ~(n <= k)
    BY <1>2, <1>3
  <2>3. \A n \in N : n > k => s.col[n] = CHOOSE x \in 1..k : columns[x] = s.name[n]
    BY <2>1, <2>2
  <2> QED BY <1>3, <2>3 DEF Built, Nodes, Heads
<1>6. \A a \in InRows(s) : a \in N /\ a > k /\ a \in 0..(k + 4 * h)
  BY <1>2, <1>3, <1>5 DEF InRows
<1>7. \A a \in InRows(s) : \E j \in 0..(h - 1), q \in 0..3 : a = NodeOf(j, q, k)
  BY <1>3, <1>6, NodeParts
<1>8. \A j \in 0..(h - 1) : \E c \in Cells, v \in Values :
        rows[j + 1] = Links!Constraints(c, v) /\ Possible(p, c, v)
  <2>1. \A j \in 0..(h - 1) : j + 1 \in 1..Len(rows)
    BY <1>2, <1>3
  <2> QED BY <1>1, <2>1, RowsKnown
<1>9. ASSUME NEW a \in InRows(s) PROVE columns[s.col[a]] = s.name[a]
  <2>1. PICK j \in 0..(h - 1), q \in 0..3 : a = NodeOf(j, q, k)
    BY <1>7
  <2>2. PICK e : e = rows[j + 1]
    OBVIOUS
  <2>3. s.name[a] = e[q + 1]
    BY <1>4, <2>1, <2>2 DEF RowOfMesh
  <2>4. \E x \in 1..k : columns[x] = e[q + 1]
    <3>1. j + 1 \in 1..h /\ q + 1 \in 1..4
      BY <1>3
    <3>2. \A i \in 1..Len(Links!Rows(p)) : \A l \in 1..4 : \E x \in 1..Len(Links!ColumnNames(p)) :
            Links!ColumnNames(p)[x] = Links!Rows(p)[i][l]
      BY RowsListed
    <3> QED BY <1>1, <1>2, <2>2, <3>1, <3>2
  <2>5. s.col[a] = CHOOSE x \in 1..k : columns[x] = s.name[a]
    BY <1>5, <1>6
  <2> QED BY <2>3, <2>4, <2>5
<1>10. ASSUME NEW a \in InRows(s)
       PROVE  \E c \in Cells, v \in Values : Possible(p, c, v) /\ Stands(s, a, c, v)
  <2>1. PICK j \in 0..(h - 1), q \in 0..3 : a = NodeOf(j, q, k)
    BY <1>7
  <2>2. PICK c \in Cells, v \in Values : rows[j + 1] = Links!Constraints(c, v) /\ Possible(p, c, v)
    BY <1>8
  <2>3. RowOfMesh(s, j, k, Links!Constraints(c, v))
    BY <1>4, <2>2
  <2>4. Stands(s, a, c, v)
    BY <2>1, <2>3, RowStands
  <2> QED BY <2>2, <2>4
<1>11. ASSUME NEW c \in Cells, NEW v \in Values, Possible(p, c, v)
       PROVE  \E a \in InRows(s) : Stands(s, a, c, v)
  <2>1. PICK i \in 1..Len(rows) : rows[i] = Links!Constraints(c, v)
    BY <1>1, <1>11, RowsKnown
  <2>2. PICK j : j = i - 1
    OBVIOUS
  <2>3. j \in 0..(h - 1) /\ j + 1 = i /\ 0 \in 0..3
    BY <1>2, <1>3, <2>2
  <2>4. RowOfMesh(s, j, k, Links!Constraints(c, v))
    BY <1>4, <2>1, <2>3
  <2>5. Stands(s, NodeOf(j, 0, k), c, v) /\ NodeOf(j, 0, k) \in InRows(s)
    BY <2>3, <2>4, RowStands DEF RowOfMesh
  <2> QED BY <2>5
<1>12. ASSUME NEW a \in InRows(s), NEW c \in Cells, NEW v \in Values, Stands(s, a, c, v)
       PROVE  \E j \in 0..(h - 1), q \in 0..3 :
                a = NodeOf(j, q, k) /\ rows[j + 1] = Links!Constraints(c, v)
  <2>1. PICK j \in 0..(h - 1), q \in 0..3 : a = NodeOf(j, q, k)
    BY <1>7
  <2>2. PICK d \in Cells, w \in Values : rows[j + 1] = Links!Constraints(d, w)
    BY <1>8
  <2>3. RowOfMesh(s, j, k, Links!Constraints(d, w))
    BY <1>4, <2>2
  <2>4. Stands(s, a, d, w)
    BY <2>1, <2>3, RowStands
  <2>5. Has(c, v) = Has(d, w)
    BY <1>12, <2>4 DEF Stands
  <2>6. d = c
    <3>1. d \in Has(c, v) /\ d \in Has(d, w)
      BY <2>5 DEF Has
    <3> QED BY <3>1, HasDiffer
  <2>7. w = v
    <3>1. PICK n : n = Group(0, Part(0, c), v)
      OBVIOUS
    <3>2. 0 \in 0..2
      OBVIOUS
    <3>3. n \in Has(c, v) /\ n \in Has(d, w)
      BY <2>5, <3>1, <3>2 DEF Has
    <3>4. n \notin Cells
      BY <3>1, <3>2, PartNumber, GroupDigits
    <3> QED BY <3>3, <3>4, HasDiffer
  <2> QED BY <2>1, <2>2, <2>6, <2>7
<1>13. ASSUME NEW a \in InRows(s), NEW b \in InRows(s), NEW c \in Cells, NEW v \in Values,
              Stands(s, a, c, v), Stands(s, b, c, v), s.name[a] = s.name[b]
       PROVE  a = b
  <2>1. PICK t : t = Links!Constraints(c, v)
    OBVIOUS
  <2>2. PICK j \in 0..(h - 1), q \in 0..3 : a = NodeOf(j, q, k) /\ rows[j + 1] = t
    BY <1>12, <1>13, <2>1
  <2>3. PICK i \in 0..(h - 1), r \in 0..3 : b = NodeOf(i, r, k) /\ rows[i + 1] = t
    BY <1>12, <1>13, <2>1
  <2>4. i = j
    <3>1. i + 1 \in 1..Len(rows) /\ j + 1 \in 1..Len(rows) /\ rows[i + 1] = rows[j + 1]
      BY <1>2, <1>3, <2>2, <2>3
    <3>2. i + 1 = j + 1
      BY <1>1, <3>1, RowsKnown DEF Differ
    <3> QED BY <3>2
  <2>5. q = r
    <3>1. RowOfMesh(s, j, k, t)
      BY <1>4, <2>2
    <3>2. s.name[a] = t[q + 1] /\ s.name[b] = t[r + 1]
      BY <2>2, <2>3, <2>4, <3>1 DEF RowOfMesh
    <3>3. Kinds(t) /\ t[q + 1] = t[r + 1]
      BY <1>13, <2>1, <3>2, ConstraintKinds
    <3> QED BY <3>3, KindsDiffer
  <2> QED BY <2>2, <2>3, <2>4, <2>5
<1>14. Heads(s) \ {0} = 1..Len(columns)
  BY <1>2, <1>3, <1>5
<1>15. Encodes(s, p, columns)
  BY <1>9, <1>10, <1>11, <1>13, <1>14 DEF Encodes
<1> QED BY <1>1, <1>15

-----------------------------------------------------------------------------
(* A solution is an exact cover. *)

LEMMA PartsSolve ==
  ASSUME NEW b
  PROVE  Solved(b) <=> \A q \in 0..2, i \in Numbers : {b[c] : c \in {d \in Cells : Part(q, d) = i}} = Values
<1> DEFINE Unit(q, i) == {b[c] : c \in {d \in Cells : Part(q, d) = i}}
           row(i) == {b[c] : c \in {d \in Cells : Row(d) = i}}
           col(i) == {b[c] : c \in {d \in Cells : Col(d) = i}}
           box(i) == {b[c] : c \in {d \in Cells : Box(d) = i}}
<1>1. \A i : Unit(0, i) = row(i) /\ Unit(1, i) = col(i) /\ Unit(2, i) = box(i)
  BY DEF Part
<1>6. Solved(b) <=> \A i \in Numbers : row(i) = Values /\ col(i) = Values /\ box(i) = Values
  BY DEF Solved, Numbers
<1> HIDE DEF Unit, row, col, box
<1>2. Solved(b) <=> \A i \in Numbers : Unit(0, i) = Values /\ Unit(1, i) = Values /\ Unit(2, i) = Values
  BY <1>1, <1>6
<1>3. \A q \in 0..2 : q = 0 \/ q = 1 \/ q = 2
  OBVIOUS
<1>4. 0 \in 0..2 /\ 1 \in 0..2 /\ 2 \in 0..2
  OBVIOUS
<1>5. Solved(b) <=> \A q \in 0..2, i \in Numbers : Unit(q, i) = Values
  BY <1>2, <1>3, <1>4
<1> QED BY <1>5 DEF Unit

LEMMA SolvedParts ==
  ASSUME NEW b \in [Cells -> Values], Solved(b)
  PROVE  /\ \A q \in 0..2, i \in Numbers, v \in Values : \E c \in Cells : Part(q, c) = i /\ b[c] = v
         /\ \A q \in 0..2, c, d \in Cells : Part(q, c) = Part(q, d) /\ b[c] = b[d] => c = d
<1>1. ASSUME NEW q \in 0..2, NEW i \in Numbers, NEW v \in Values
      PROVE  \E c \in Cells : Part(q, c) = i /\ b[c] = v
  <2>1. {b[c] : c \in {d \in Cells : Part(q, d) = i}} = Values
    BY PartsSolve
  <2> QED BY <2>1
<1>2. ASSUME NEW q \in 0..2, NEW c \in Cells, NEW d \in Cells, Part(q, c) = Part(q, d), b[c] = b[d]
      PROVE  c = d
  <2> SUFFICES ASSUME c # d PROVE FALSE
    OBVIOUS
  <2>1. Row(d) = Row(c) \/ Col(d) = Col(c) \/ Box(d) = Box(c)
    BY <1>2 DEF Part
  <2>2. d \in Neighbors(c)
    BY <2>1 DEF Neighbors
  <2> QED BY <1>2, <2>2, SolvedApart
<1> QED BY <1>1, <1>2

(* Two values of a solution that share a constraint are the same. *)
LEMMA SolutionApart ==
  ASSUME Band <= 3, NEW b \in [Cells -> Values], Solved(b), NEW c \in Cells, NEW d \in Cells,
         NEW n, n \in Has(c, b[c]), n \in Has(d, b[d])
  PROVE  c = d
<1>1. PICK v, w : v = b[c] /\ w = b[d]
  OBVIOUS
<1>2. v \in Values /\ w \in Values /\ n \in Has(c, v) /\ n \in Has(d, w)
  BY <1>1
<1>3. CASE n \in Cells
  BY <1>2, <1>3, HasDiffer
<1>4. CASE n \notin Cells
  <2>1. v = w /\ \E q \in 0..2 : Part(q, c) = Part(q, d)
    BY <1>2, <1>4, HasDiffer
  <2>2. PICK q \in 0..2 : Part(q, c) = Part(q, d)
    BY <2>1
  <2>3. b[c] = b[d]
    BY <1>1, <2>1
  <2>4. \A r \in 0..2, x, y \in Cells : Part(r, x) = Part(r, y) /\ b[x] = b[y] => x = y
    BY SolvedParts
  <2> QED BY <2>2, <2>3, <2>4
<1> QED BY <1>3, <1>4

LEMMA SolutionCovers ==
  ASSUME Band <= 3, NEW p \in Board, NEW b \in [Cells -> Values], Completes(b, p),
         NEW s, Woven(s), NEW columns, columns = Links!ColumnNames(p), Encodes(s, p, columns)
  PROVE  \E K : ExactCover(s, K)
<1> DEFINE K == {a \in InRows(s) : \E c \in Blanks(p) : Stands(s, a, c, b[c])}
<1>1. Solved(b) /\ \A d \in Cells \ Blanks(p) : p[d] = b[d] /\ b[d] \in Values
  BY DEF Completes, Blanks
<1>2. Blanks(p) \subseteq Cells /\ \A c \in Cells : b[c] \in Values
  BY DEF Blanks
<1>3. Links!Placed(p) = UNION {Has(d, b[d]) : d \in Cells \ Blanks(p)}
  <2>1. Links!Placed(p) = UNION {Has(d, p[d]) : d \in Cells \ Blanks(p)}
    BY PlacedAre
  <2>2. \A d \in Cells \ Blanks(p) : Has(d, p[d]) = Has(d, b[d])
    BY <1>1
  <2> QED BY <2>1, <2>2
<1>4. ASSUME NEW c \in Blanks(p) PROVE Possible(p, c, b[c])
  <2> SUFFICES ASSUME NEW n, n \in Has(c, b[c]), n \in Links!Placed(p) PROVE FALSE
    BY DEF Possible
  <2>1. PICK d \in Cells \ Blanks(p) : n \in Has(d, b[d])
    BY <1>3
  <2>2. c = d
    BY <1>1, <1>2, <2>1, SolutionApart
  <2> QED BY <2>2
<1>5. ASSUME NEW n, Constraint(n), n \notin Links!Placed(p)
      PROVE  \E c \in Blanks(p) : n \in Has(c, b[c])
  <2>1. PICK c \in Cells : n \in Has(c, b[c])
    <3>1. CASE n \in Cells
      BY <3>1 DEF Has
    <3>2. CASE \E q \in 0..2, i \in Numbers, v \in Values : n = Group(q, i, v)
      <4>1. PICK q \in 0..2, i \in Numbers, v \in Values : n = Group(q, i, v)
        BY <3>2
      <4>2. PICK c \in Cells : Part(q, c) = i /\ b[c] = v
        BY <1>1, SolvedParts
      <4> QED BY <4>1, <4>2 DEF Has
    <3> QED BY <1>5, <3>1, <3>2 DEF Constraint
  <2>2. c \in Blanks(p)
    BY <1>3, <1>5, <2>1
  <2> QED BY <2>1, <2>2
<1>6. /\ Heads(s) \ {0} = 1..Len(columns)
      /\ \A a \in InRows(s) : columns[s.col[a]] = s.name[a]
  BY DEF Encodes
<1>7. \A a \in InRows(s) : s.col[a] \in Heads(s) \ {0}
  BY DEF Woven, Hung, InRows
<1>8. ASSUME NEW a \in K PROVE Others(s, a) \subseteq K
  <2>1. PICK c \in Blanks(p) : Stands(s, a, c, b[c])
    OBVIOUS
  <2>2. ASSUME NEW e \in Others(s, a) PROVE e \in K
    <3>1. e \in InRows(s) /\ {a} \cup Others(s, a) = {e} \cup Others(s, e)
      BY RowsMutual
    <3>2. Stands(s, e, c, b[c])
      BY <2>1, <3>1 DEF Stands
    <3> QED BY <3>1, <3>2
  <2> HIDE DEF K
  <2> QED BY <2>2
<1>9. ASSUME NEW x \in Heads(s) \ {0} PROVE \E a \in K : s.col[a] = x
  <2>1. PICK n : n = columns[x]
    OBVIOUS
  <2>2. x \in 1..Len(columns) /\ Constraint(n) /\ n \notin Links!Placed(p)
    BY <1>6, <2>1, ColumnsKnown
  <2>3. PICK c \in Blanks(p) : n \in Has(c, b[c])
    BY <1>5, <2>2
  <2>4. PICK a \in InRows(s) : Stands(s, a, c, b[c])
    BY <1>2, <1>4 DEF Encodes
  <2>5. a \in K
    BY <2>4
  <2>6. PICK j \in {a} \cup Others(s, a) : s.name[j] = n
    BY <2>3, <2>4 DEF Stands
  <2>7. j \in K
    BY <1>8, <2>5
  <2>8. s.col[j] \in 1..Len(columns) /\ columns[s.col[j]] = columns[x]
    BY <1>6, <1>7, <2>1, <2>6, <2>7
  <2>9. s.col[j] = x
    BY <2>2, <2>8, ColumnsKnown DEF Differ
  <2> HIDE DEF K
  <2> QED BY <2>7, <2>9
<1>10. ASSUME NEW a \in K, NEW e \in K, s.col[a] = s.col[e] PROVE a = e
  <2>1. PICK c \in Blanks(p) : Stands(s, a, c, b[c])
    OBVIOUS
  <2>2. PICK d \in Blanks(p) : Stands(s, e, d, b[d])
    OBVIOUS
  <2>3. PICK n : n = s.name[a]
    OBVIOUS
  <2>4. a \in InRows(s) /\ e \in InRows(s)
    OBVIOUS
  <2> HIDE DEF K
  <2>5. s.name[e] = n
    BY <1>6, <1>10, <2>3, <2>4
  <2>6. n \in Has(c, b[c])
    BY <2>1, <2>3 DEF Stands
  <2>7. n \in Has(d, b[d])
    BY <2>2, <2>5 DEF Stands
  <2>8. c = d
    BY <1>1, <1>2, <2>6, <2>7, SolutionApart
  <2>9. b[c] \in Values /\ c \in Cells
    BY <1>2
  <2>10. \A f, g \in InRows(s) : \A y \in Cells, v \in Values :
           Stands(s, f, y, v) /\ Stands(s, g, y, v) /\ s.name[f] = s.name[g] => f = g
    BY DEF Encodes
  <2> QED BY <2>1, <2>2, <2>3, <2>4, <2>5, <2>8, <2>9, <2>10
<1>11. K \subseteq InRows(s)
  OBVIOUS
<1> HIDE DEF K
<1>12. ExactCover(s, K)
  BY <1>8, <1>9, <1>10, <1>11 DEF ExactCover
<1> QED BY <1>12

-----------------------------------------------------------------------------
(* An exact cover is a solution. *)

(* The rows taken share no column. *)
LEMMA RowsTakenApart ==
  ASSUME NEW s, NEW q, NEW n \in Nat, NEW b, NEW o, Entered(s, b, o, n), NEW f,
         \A d \in 1..n : TookRow(s, b, o, d, f[d].col, q[d]),
         NEW d \in 1..n, NEW e \in 1..n, d < e
  PROVE  RowColumns(s, q[d]) \cap RowColumns(s, q[e]) = {}
<1>1. PICK k : k = e - 1
  OBVIOUS
<1>2. k \in Nat /\ k + 1 = e /\ d \in 1..k /\ k + 1 \in 1..(n + 1) /\ 1..k \subseteq 1..n
  BY <1>1
<1>3. Entered(s, b, o, k)
  <2>1. 1..(k + 1) \subseteq 1..(n + 1)
    BY <1>2
  <2> QED BY <2>1 DEF Entered
<1>4. \A i \in 1..k : TookRow(s, b, o, i, f[i].col, q[i])
  BY <1>2
<1>5. o[k + 1] = (Heads(s) \ {0}) \ ColumnsTaken(s, q, k)
  BY <1>2, <1>3, <1>4, OpenIs
<1>6. RowColumns(s, q[e]) \subseteq o[e]
  BY DEF TookRow, Live
<1>7. RowColumns(s, q[d]) \subseteq ColumnsTaken(s, q, k)
  BY <1>2 DEF ColumnsTaken
<1> QED BY <1>2, <1>5, <1>6, <1>7

RowsTaken(s, q) == UNION {{q[d]} \cup Others(s, q[d]) : d \in 1..Len(q)}

(* When no column is left, the rows taken are an exact cover. *)
LEMMA TakenCovers ==
  ASSUME NEW s, Woven(s), NEW m, NEW q \in Seq(InRows(s)), NEW f, NEW b, NEW o,
         History(s, m, q, f, FALSE, b, o), m.left[0] = 0
  PROVE  ExactCover(s, RowsTaken(s, q)) /\ m \in Like(s)
<1>1. PICK n, H, K : n = Len(q) /\ H = o[n + 1] /\ K = RowsTaken(s, q)
  OBVIOUS
<1>2. /\ Entered(s, b, o, n) /\ m = b[n + 1] /\ n \in Nat
      /\ \A d \in 1..n : TookRow(s, b, o, d, f[d].col, q[d])
      /\ \A d \in 1..n : q[d] \in InRows(s)
  BY <1>1 DEF History
<1>3. Exact(s, m, H)
  BY <1>1, <1>2 DEF Entered
<1>4. H = (Heads(s) \ {0}) \ ColumnsTaken(s, q, n)
  BY <1>1, <1>2, OpenIs
<1>5. H = {}
  <2>1. PICK A : A = {0} \cup H
    OBVIOUS
  <2>2. A \subseteq Nodes(s) /\ Nodes(s) \subseteq Nat /\ IsFiniteSet(Nodes(s)) /\ 0 \in A /\ 0 \notin H
    BY <1>3, <2>1 DEF Exact, Woven, Hung
  <2>3. A \subseteq Nat /\ IsFiniteSet(A)
    BY <2>2, FS_Subset
  <2>4. Links!Before(A, 0) = 0
    BY <1>3, <2>1, <2>2 DEF Exact, HeadLinked
  <2>5. PICK z : z = Links!Before(A, 0)
    OBVIOUS
  <2>6. \/ z < 0 /\ \A x \in A : x <= z \/ 0 <= x
        \/ \A x \in A : 0 <= x /\ x <= z
    BY <2>2, <2>3, <2>5, BeforeIs
  <2>7. \A x \in A : x <= 0 /\ x \in Nat
    BY <2>3, <2>4, <2>5, <2>6
  <2>8. \A x \in A : x = 0
    BY <2>7
  <2> QED BY <2>1, <2>2, <2>8
<1>6. \A d \in 1..n : \A a \in {q[d]} \cup Others(s, q[d]) :
        a \in InRows(s) /\ {a} \cup Others(s, a) = {q[d]} \cup Others(s, q[d])
  <2> SUFFICES ASSUME NEW d \in 1..n, NEW a \in {q[d]} \cup Others(s, q[d])
               PROVE  a \in InRows(s) /\ {a} \cup Others(s, a) = {q[d]} \cup Others(s, q[d])
    OBVIOUS
  <2>1. PICK g : g = q[d]
    OBVIOUS
  <2>2. g \in InRows(s)
    BY <1>2, <2>1
  <2> QED BY <2>1, <2>2, RowsMutual
<1>7. \A a : a \in K <=> \E d \in 1..n : a \in {q[d]} \cup Others(s, q[d])
  BY <1>1 DEF RowsTaken
<1>8. K \subseteq InRows(s)
  BY <1>6, <1>7
<1>9. \A a \in K : Others(s, a) \subseteq K
  BY <1>6, <1>7
<1>10. \A c \in Heads(s) \ {0} : \E a \in K : s.col[a] = c
  <2> SUFFICES ASSUME NEW c \in Heads(s) \ {0} PROVE \E a \in K : s.col[a] = c
    OBVIOUS
  <2>1. c \in ColumnsTaken(s, q, n)
    BY <1>4, <1>5
  <2>2. PICK d \in 1..n : c \in RowColumns(s, q[d])
    BY <2>1 DEF ColumnsTaken
  <2>3. PICK a \in {q[d]} \cup Others(s, q[d]) : s.col[a] = c
    BY <2>2 DEF RowColumns
  <2> QED BY <1>7, <2>3
<1>11. ASSUME NEW a \in K, NEW e \in K, s.col[a] = s.col[e] PROVE a = e
  <2>1. PICK d \in 1..n : a \in {q[d]} \cup Others(s, q[d])
    BY <1>7
  <2>2. PICK i \in 1..n : e \in {q[i]} \cup Others(s, q[i])
    BY <1>7
  <2>3. s.col[a] \in RowColumns(s, q[d]) /\ s.col[a] \in RowColumns(s, q[i])
    BY <1>11, <2>1, <2>2 DEF RowColumns
  <2>4. d = i
    <3>1. ~(d < i) /\ ~(i < d)
      BY <1>2, <2>3, RowsTakenApart
    <3> QED BY <3>1
  <2>5. a \in InRows(s) /\ e \in {a} \cup Others(s, a)
    BY <1>6, <2>1, <2>2, <2>4
  <2> QED BY <1>11, <2>5, RowsMutual
<1>12. ExactCover(s, K)
  BY <1>8, <1>9, <1>10, <1>11 DEF ExactCover
<1> QED BY <1>1, <1>3, <1>12 DEF Exact

(* A cover has every constraint the givens leave open, in one row. *)
LEMMA CoverKnown ==
  ASSUME Band <= 3, NEW p, NEW columns, columns = Links!ColumnNames(p),
         NEW s, Woven(s), Encodes(s, p, columns), NEW K, ExactCover(s, K)
  PROVE  /\ \A n : Constraint(n) /\ n \notin Links!Placed(p) => \E a \in K : s.name[a] = n
         /\ \A a, e \in K : \A c \in Cells : \A v, w \in Values :
              Stands(s, a, c, v) /\ Stands(s, e, c, w) => v = w
<1>1. /\ Heads(s) \ {0} = 1..Len(columns)
      /\ \A a \in InRows(s) : columns[s.col[a]] = s.name[a]
  BY DEF Encodes
<1>2. \A a \in InRows(s) : s.col[a] \in Heads(s) \ {0}
  BY DEF Woven, Hung, InRows
<1>3. K \subseteq InRows(s)
  BY DEF ExactCover
<1>4. ASSUME NEW n, Constraint(n), n \notin Links!Placed(p) PROVE \E a \in K : s.name[a] = n
  <2>1. PICK x \in 1..Len(columns) : columns[x] = n
    BY <1>4, ColumnsKnown
  <2>2. PICK a \in K : s.col[a] = x
    BY <1>1, <2>1 DEF ExactCover
  <2> QED BY <1>1, <1>3, <2>1, <2>2
<1>5. ASSUME NEW a \in K, NEW e \in K, NEW c \in Cells, NEW v \in Values, NEW w \in Values,
             Stands(s, a, c, v), Stands(s, e, c, w)
      PROVE  v = w
  <2>1. c \in Has(c, v) /\ c \in Has(c, w)
    BY DEF Has
  <2>2. PICK i \in {a} \cup Others(s, a) : s.name[i] = c
    BY <1>5, <2>1 DEF Stands
  <2>3. PICK j \in {e} \cup Others(s, e) : s.name[j] = c
    BY <1>5, <2>1 DEF Stands
  <2>4. i \in K /\ j \in K /\ i \in InRows(s) /\ j \in InRows(s)
    BY <1>3, <2>2, <2>3 DEF ExactCover
  <2>5. s.col[i] \in 1..Len(columns) /\ s.col[j] \in 1..Len(columns) /\ columns[s.col[i]] = columns[s.col[j]]
    BY <1>1, <1>2, <2>2, <2>3, <2>4
  <2>6. s.col[i] = s.col[j]
    BY <2>5, ColumnsKnown DEF Differ
  <2>7. i = j
    BY <2>4, <2>6 DEF ExactCover
  <2>8. {a} \cup Others(s, a) = {i} \cup Others(s, i)
    BY <1>3, <2>2, RowsMutual
  <2>9. {e} \cup Others(s, e) = {j} \cup Others(s, j)
    BY <1>3, <2>3, RowsMutual
  <2>10. Has(c, v) = Has(c, w)
    BY <1>5, <2>7, <2>8, <2>9 DEF Stands
  <2>11. PICK n : n = Group(0, Part(0, c), v)
    OBVIOUS
  <2>12. 0 \in 0..2
    OBVIOUS
  <2>13. n \in Has(c, v) /\ n \in Has(c, w)
    BY <2>10, <2>11, <2>12 DEF Has
  <2>14. n \notin Cells
    BY <2>11, <2>12, PartNumber, GroupDigits
  <2> QED BY <2>13, <2>14, HasDiffer
<1> QED BY <1>4, <1>5

(* A cell of a row of the mesh is blank. *)
LEMMA PossibleBlank ==
  ASSUME Band <= 3, NEW p \in Board, NEW c \in Cells, NEW v, Possible(p, c, v)
  PROVE  c \in Blanks(p)
<1> SUFFICES ASSUME c \notin Blanks(p) PROVE FALSE
  OBVIOUS
<1>1. c \in Has(c, v) /\ c \in Has(c, p[c])
  BY DEF Has
<1>2. c \in Links!Placed(p)
  BY <1>1, PlacedAre
<1> QED BY <1>1, <1>2 DEF Possible

(* So is a constraint no given satisfies that is of a blank cell. *)
LEMMA BlankOpen ==
  ASSUME Band <= 3, NEW p \in Board, NEW c \in Blanks(p)
  PROVE  c \in Cells /\ c \notin Links!Placed(p)
<1>1. c \in Cells
  BY DEF Blanks
<1>2. ASSUME c \in Links!Placed(p) PROVE FALSE
  <2>1. PICK d \in Cells \ Blanks(p) : c \in Has(d, p[d])
    BY <1>2, PlacedAre
  <2>2. p[d] \in Values /\ 1 \in Values
    BY NumType DEF Blanks, Board, Values
  <2>3. c \in Has(c, 1)
    BY DEF Has
  <2>4. c = d
    BY <1>1, <2>1, <2>2, <2>3, HasDiffer
  <2> QED BY <2>1, <2>4
<1> QED BY <1>1, <1>2

LEMMA CoverCompletes ==
  ASSUME Band <= 3, NEW p \in Board, NEW columns, columns = Links!ColumnNames(p),
         NEW s, Woven(s), Encodes(s, p, columns), NEW K, ExactCover(s, K),
         NEW b, DOMAIN b = Cells, b = [c \in Cells |-> b[c]],
         \A c \in Blanks(p) : b[c] \in Values /\ \E a \in K : Stands(s, a, c, b[c]),
         \A c \in Cells \ Blanks(p) : b[c] = p[c]
  PROVE  Completes(b, p) /\ b \in Board
<1>1. \A c \in Cells \ Blanks(p) : p[c] \in Values
  BY NumType DEF Blanks, Board, Values
<1>2. \A c \in Cells : b[c] \in Values
  BY <1>1
<1>3. ASSUME NEW q \in 0..2, NEW i \in Numbers, NEW v \in Values
      PROVE  \E c \in Cells : Part(q, c) = i /\ b[c] = v
  <2>1. PICK n : n = Group(q, i, v)
    OBVIOUS
  <2>2. /\ n \notin Cells /\ Constraint(n)
        /\ \A r \in 0..2, x \in Numbers, w \in Values : n = Group(r, x, w) => q = r /\ i = x /\ v = w
    BY <2>1, GroupDigits DEF Constraint
  <2>3. ASSUME NEW c \in Cells, NEW w \in Values, n \in Has(c, w) PROVE Part(q, c) = i /\ w = v
    <3>1. PICK r \in 0..2 : n = Group(r, Part(r, c), w)
      BY <2>2, <2>3 DEF Has
    <3>2. PICK x : x = Part(r, c)
      OBVIOUS
    <3>3. x \in Numbers
      BY <3>2, PartNumber
    <3> QED BY <2>2, <3>1, <3>2, <3>3
  <2>4. CASE n \in Links!Placed(p)
    <3>1. PICK d \in Cells \ Blanks(p) : n \in Has(d, p[d])
      BY <2>4, PlacedAre
    <3>2. p[d] \in Values /\ b[d] = p[d]
      BY <1>1
    <3> QED BY <2>3, <3>1, <3>2
  <2>5. CASE n \notin Links!Placed(p)
    <3>1. PICK a \in K : s.name[a] = n
      BY <2>2, <2>5, CoverKnown
    <3>2. a \in InRows(s)
      BY <3>1 DEF ExactCover
    <3>3. PICK c \in Cells, w \in Values : Possible(p, c, w) /\ Stands(s, a, c, w)
      BY <3>2 DEF Encodes
    <3>4. n \in Has(c, w)
      BY <3>1, <3>3 DEF Stands
    <3>5. Part(q, c) = i /\ w = v
      BY <2>3, <3>4
    <3>6. c \in Blanks(p)
      BY <3>3, PossibleBlank
    <3>7. PICK e \in K : Stands(s, e, c, b[c])
      BY <3>6
    <3>8. b[c] = w
      <4>1. PICK u : u = b[c]
        OBVIOUS
      <4>2. u \in Values /\ Stands(s, e, c, u)
        BY <1>2, <3>7, <4>1
      <4>3. u = w
        BY <3>3, <3>7, <4>2, CoverKnown
      <4> QED BY <4>1, <4>3
    <3> QED BY <3>5, <3>8
  <2> QED BY <2>4, <2>5
<1>4. \A q \in 0..2, i \in Numbers : {b[c] : c \in {d \in Cells : Part(q, d) = i}} = Values
  <2> SUFFICES ASSUME NEW q \in 0..2, NEW i \in Numbers
               PROVE  {b[c] : c \in {d \in Cells : Part(q, d) = i}} = Values
    OBVIOUS
  <2>1. \A v \in Values : \E c \in {d \in Cells : Part(q, d) = i} : b[c] = v
    BY <1>3
  <2> QED BY <1>2, <2>1
<1>5. Solved(b)
  BY <1>4, PartsSolve
<1>6. \A c \in Cells : p[c] # 0 => b[c] = p[c]
  BY DEF Blanks
<1>7. b \in Board
  <2>1. Values \subseteq 0..NUM
    BY NumType DEF Values
  <2> QED BY <1>2, <2>1 DEF Board
<1> QED BY <1>5, <1>6, <1>7 DEF Completes

-----------------------------------------------------------------------------
(* The board the rows taken make. *)

(* What CellOf and ValueOf read in the names of a row. *)
LEMMA RowRead ==
  ASSUME Band <= 3, LinksInv, mesh \in Like(Start),
         NEW a \in InRows(Start), NEW c \in Cells, NEW v \in Values, Stands(Start, a, c, v)
  PROVE  Links!CellOf(a) = c /\ Links!ValueOf(a) = v
<1>1. PICK s : s = Start
  OBVIOUS
<1>2. PICK names : names = {mesh.name[j] : j \in Links!RowNodes(a)}
  OBVIOUS
<1>3. names = Has(c, v)
  <2>1. Woven(s) /\ mesh \in Like(s) /\ a \in InRows(s)
    BY <1>1 DEF LinksInv, Solving
  <2>2. Links!RowNodes(a) = {a} \cup Others(s, a)
    BY <2>1, RowVisited DEF Links!RowNodes
  <2>3. mesh.name = s.name
    BY <2>1, MeshTypes DEF Woven, Like
  <2> QED BY <1>1, <1>2, <2>2, <2>3 DEF Stands
<1>4. \A n : n \in names <=> \E j \in Links!RowNodes(a) : mesh.name[j] = n
  BY <1>2
<1>5. \A q \in 0..2 : /\ Group(q, Part(q, c), v) \notin Cells /\ Group(q, Part(q, c), v) > 100
                      /\ Group(q, Part(q, c), v) % 10 = v /\ Group(q, Part(q, c), v) \in Nat
  BY PartNumber, GroupDigits
<1>6. \A x \in Cells : (\E j \in Links!RowNodes(a) : mesh.name[j] = x) <=> x = c
  BY <1>3, <1>4, <1>5 DEF Has
<1>7. Links!CellOf(a) = c
  <2>1. Links!CellOf(a) = CHOOSE x \in Cells : \E j \in Links!RowNodes(a) : mesh.name[j] = x
    BY LinksBoard DEF Links!CellOf
  <2> QED BY <1>6, <2>1
<1>8. \A u \in Values : (\E j \in Links!RowNodes(a) : mesh.name[j] >= 100 /\ mesh.name[j] % 10 = u) <=> u = v
  <2>1. ASSUME NEW j \in Links!RowNodes(a), mesh.name[j] >= 100 PROVE mesh.name[j] % 10 = v
    <3>1. PICK n : n = mesh.name[j]
      OBVIOUS
    <3>2. n \in Has(c, v) /\ n >= 100
      BY <1>3, <1>4, <2>1, <3>1
    <3>3. n # c
      <4>1. c \in 0..80
        BY Digits10
      <4> QED BY <3>2, <4>1
    <3>4. PICK q \in 0..2 : n = Group(q, Part(q, c), v)
      BY <3>2, <3>3 DEF Has
    <3> QED BY <1>5, <3>1, <3>4
  <2>2. \E j \in Links!RowNodes(a) : mesh.name[j] >= 100
    <3>1. 0 \in 0..2
      OBVIOUS
    <3>2. PICK n : n = Group(0, Part(0, c), v)
      OBVIOUS
    <3>3. n \in names /\ n > 100 /\ n \in Nat
      BY <1>3, <1>5, <3>1, <3>2 DEF Has
    <3>4. n >= 100
      BY <3>3
    <3> QED BY <1>4, <3>3, <3>4
  <2> QED BY <2>1, <2>2
<1>9. Links!ValueOf(a) = v
  <2>1. Links!ValueOf(a)
          = CHOOSE u \in Values : \E j \in Links!RowNodes(a) : mesh.name[j] >= 100 /\ mesh.name[j] % 10 = u
    BY LinksBoard DEF Links!ValueOf, Links!kRow
  <2> QED BY <1>8, <2>1
<1> QED BY <1>7, <1>9

LEMMA SearchFinds ==
  ASSUME Band <= 3, LinksSearch, Links!Found
  PROVE  LinksSearch'
<1>1. /\ at = "call" /\ mesh.left[0] = 0 /\ result' = TRUE /\ at' = "done" /\ puzzle' = puzzle
      /\ board = puzzle /\ puzzle \in Board
  BY DEF Links!Found, LinksSearch, Undecided
<1>2. PICK s, columns : s = Start /\ columns = Links!ColumnNames(puzzle)
  OBVIOUS
<1>3. Woven(s) /\ Encodes(s, puzzle, columns) /\ stack_ \in Seq(InRows(s)) /\ frames \in Seq(Call(s))
  BY <1>2, DanceEncodes DEF LinksSearch, LinksInv, Solving, Start
<1>4. PICK b, o : History(s, mesh, stack_, frames, FALSE, b, o)
  BY <1>1, <1>2 DEF LinksSearch, LinksInv, Solving
<1>5. PICK K : K = RowsTaken(s, stack_)
  OBVIOUS
<1>6. ExactCover(s, K) /\ mesh \in Like(s)
  BY <1>1, <1>3, <1>4, <1>5, TakenCovers
<1>7. PICK T : T = Links!ToSet(stack_)
  OBVIOUS
<1>8. /\ T \subseteq InRows(s) /\ T \subseteq K
      /\ \A a \in K : \E n \in T : {a} \cup Others(s, a) = {n} \cup Others(s, n)
  <2>1. T = {stack_[d] : d \in 1..Len(stack_)}
    BY <1>3, <1>7 DEF Links!ToSet
  <2>2. T \subseteq InRows(s)
    BY <1>3, <2>1
  <2>3. \A a : a \in K <=> \E n \in T : a \in {n} \cup Others(s, n)
    BY <1>5, <2>1 DEF RowsTaken
  <2>4. \A n \in T : \A a \in {n} \cup Others(s, n) : {a} \cup Others(s, a) = {n} \cup Others(s, n)
    BY <1>3, <2>2, RowsMutual
  <2> QED BY <2>2, <2>3, <2>4
<1>9. ASSUME NEW n \in T
      PROVE  \E c \in Cells, v \in Values :
               /\ Stands(s, n, c, v) /\ Possible(puzzle, c, v)
               /\ Links!CellOf(n) = c /\ Links!ValueOf(n) = v
  <2>1. n \in InRows(s)
    BY <1>8
  <2>2. PICK c \in Cells, v \in Values : Possible(puzzle, c, v) /\ Stands(s, n, c, v)
    BY <1>3, <2>1 DEF Encodes
  <2>3. Links!CellOf(n) = c /\ Links!ValueOf(n) = v
    BY <1>2, <1>6, <2>1, <2>2, RowRead DEF LinksSearch
  <2> QED BY <2>2, <2>3
<1>10. board' = [c \in Cells |-> IF \E n \in T : Links!CellOf(n) = c
                                 THEN Links!ValueOf(CHOOSE n \in T : Links!CellOf(n) = c) ELSE board[c]]
  BY <1>7, LinksBoard DEF Links!Found
<1>11. PICK g : g = board'
  OBVIOUS
<1>12. DOMAIN g = Cells /\ g = [c \in Cells |-> g[c]]
  BY <1>10, <1>11
<1>13. ASSUME NEW c \in Blanks(puzzle)
       PROVE  g[c] \in Values /\ \E a \in K : Stands(s, a, c, g[c])
  <2>1. c \in Cells /\ Constraint(c) /\ c \notin Links!Placed(puzzle)
    BY <1>1, BlankOpen DEF Constraint
  <2>2. PICK a \in K : s.name[a] = c
    BY <1>2, <1>3, <1>6, <2>1, CoverKnown
  <2>3. PICK n \in T : {a} \cup Others(s, a) = {n} \cup Others(s, n)
    BY <1>8
  <2>4. PICK d \in Cells, v \in Values :
          Stands(s, n, d, v) /\ Links!CellOf(n) = d
    BY <1>9
  <2>5. c \in Has(d, v)
    BY <2>2, <2>3, <2>4 DEF Stands
  <2>6. c = d
    BY <2>1, <2>4, <2>5, HasDiffer
  <2>7. PICK i : i = CHOOSE n_1 \in T : Links!CellOf(n_1) = c
    OBVIOUS
  <2>8. i \in T /\ Links!CellOf(i) = c
    BY <2>4, <2>6, <2>7
  <2>9. g[c] = Links!ValueOf(i)
    BY <1>10, <1>11, <2>1, <2>7, <2>8
  <2>10. PICK e \in Cells, w \in Values :
           Stands(s, i, e, w) /\ Links!CellOf(i) = e /\ Links!ValueOf(i) = w
    BY <1>9, <2>8
  <2> QED BY <1>8, <2>8, <2>9, <2>10
<1>14. ASSUME NEW c \in Cells \ Blanks(puzzle) PROVE g[c] = puzzle[c]
  <2>1. ASSUME NEW n \in T, Links!CellOf(n) = c PROVE FALSE
    <3>1. PICK d \in Cells, v \in Values : Possible(puzzle, d, v) /\ Links!CellOf(n) = d
      BY <1>9
    <3>2. d \in Blanks(puzzle)
      BY <1>1, <3>1, PossibleBlank
    <3> QED BY <2>1, <3>1, <3>2
  <2>2. g[c] = board[c]
    BY <1>10, <1>11, <2>1
  <2> QED BY <1>1, <2>2
<1>15. Completes(g, puzzle) /\ g \in Board
  BY <1>1, <1>2, <1>3, <1>6, <1>12, <1>13, <1>14, CoverCompletes
<1>16. LinksInv'
  BY LinksFound DEF LinksSearch
<1>17. Undecided' /\ Decided'
  BY <1>1, <1>11, <1>15 DEF Undecided, Decided
<1> QED BY <1>1, <1>16, <1>17 DEF LinksSearch

-----------------------------------------------------------------------------
(* The verdict. *)

LEMMA LinksSearches ==
  ASSUME Band <= 3
  PROVE  /\ Init => (solver = "dancing_links" => LinksSearch)
         /\ (solver = "dancing_links" => LinksSearch) /\ [Next]_vars => (solver = "dancing_links" => LinksSearch)'
<1>1. ASSUME Init, solver = "dancing_links" PROVE LinksSearch
  <2>1. \E p \in Puzzles : Links!Init(p)
    BY <1>1 DEF Init, Search!Init, Search!Solvers
  <2> QED BY <2>1, SearchBegins, PuzzlesAssumption
<1>2. ASSUME solver = "dancing_links" => LinksSearch, [Next]_vars, solver' = "dancing_links"
      PROVE  LinksSearch'
  <2>1. solver = "dancing_links" /\ LinksSearch
    BY <1>2 DEF Next, vars, Search!Next, Search!Found, Search!Enter, Search!Hold, Search!Unhold, Search!Fail
  <2>2. CASE Links!Next
    BY <2>1, <2>2, SearchFinds, SearchChooses, SearchTakes, SearchUndoes, SearchGivesUp DEF Links!Next
  <2>3. CASE UNCHANGED vars
    <3>1. /\ puzzle' = puzzle /\ mesh' = mesh /\ stack_' = stack_ /\ frames' = frames /\ at' = at
          /\ board' = board /\ result' = result
      BY <2>3 DEF vars, links
    <3>2. Start' = Start
      BY <3>1 DEF Start
    <3>3. LinksInv'
      BY <2>1, <3>1, <3>2 DEF LinksSearch, LinksInv
    <3>4. Undecided' /\ Decided'
      BY <2>1, <3>1, <3>2 DEF LinksSearch, Undecided, Decided
    <3> QED BY <2>1, <3>1, <3>3, <3>4 DEF LinksSearch
  <2> QED BY <1>2, <2>1, <2>2, <2>3 DEF Next
<1> QED BY <1>1, <1>2

(* A filling of the blanks that solves the board completes the puzzle. *)
LEMMA SolutionGiven ==
  ASSUME NEW p \in Board, Solvable(p)
  PROVE  \E b \in [Cells -> Values] : Completes(b, p)
<1>1. PICK filled \in [Blanks(p) -> Values] :
        Solved([c \in Cells |-> IF p[c] = 0 THEN filled[c] ELSE p[c]])
  BY DEF Solvable
<1> DEFINE b == [c \in Cells |-> IF p[c] = 0 THEN filled[c] ELSE p[c]]
<1>2. ASSUME NEW c \in Cells PROVE (IF p[c] = 0 THEN filled[c] ELSE p[c]) \in Values
  <2>1. p[c] = 0 => c \in Blanks(p)
    BY DEF Blanks
  <2> QED BY <2>1, BoardHolds
<1>3. b \in [Cells -> Values]
  BY <1>2
<1>4. Completes(b, p)
  BY <1>1 DEF Completes
<1> HIDE DEF b
<1> QED BY <1>3, <1>4

LEMMA LinksDecide ==
  ASSUME Band <= 3, LinksSearch
  PROVE  VerdictRight
<1>1. ASSUME at = "done", ~result, Solvable(puzzle) PROVE FALSE
  <2>1. PICK b \in [Cells -> Values] : Completes(b, puzzle)
    BY <1>1, SolutionGiven DEF LinksSearch
  <2>2. PICK s, columns : s = Start /\ columns = Links!ColumnNames(puzzle)
    OBVIOUS
  <2>3. Woven(s) /\ Encodes(s, puzzle, columns)
    BY <2>2, DanceWoven, DanceEncodes DEF Start
  <2>4. PICK K : ExactCover(s, K)
    BY <2>1, <2>2, <2>3, SolutionCovers DEF LinksSearch
  <2> QED BY <1>1, <2>2, <2>4 DEF LinksSearch, Decided
<1> QED BY <1>1 DEF LinksSearch, Decided, VerdictRight

(* A solver that returns true has completed the puzzle; one that returns   *)
(* false was given a puzzle that cannot be completed, and has left the     *)
(* board alone: for the dancing links on every puzzle, consistent or not,  *)
(* for the searches on those whose givens do not clash.                    *)
THEOREM SolversDecide ==
  ASSUME Band <= 3
  PROVE  Spec => []VerdictRight
<1>1. Init => (solver = "dancing_links" => LinksSearch)
  BY LinksSearches
<1>2. (solver = "dancing_links" => LinksSearch) /\ [Next]_vars => (solver = "dancing_links" => LinksSearch)'
  BY LinksSearches
<1>3. (solver = "dancing_links" => LinksSearch) => (solver = "dancing_links" => VerdictRight)
  BY LinksDecide
<1>4. Spec => [](solver = "dancing_links" => VerdictRight)
  BY <1>1, <1>2, <1>3, PTL DEF Spec
<1>5. (solver = "dancing_links" => VerdictRight) /\ (solver # "dancing_links" => VerdictRight) => VerdictRight
  OBVIOUS
<1> QED BY <1>4, <1>5, SearchDecides, PTL

(* Every variable of the dancing links keeps its type. *)
LEMMA LinksTypes ==
  ASSUME LinksSearch
  PROVE  Links!TypeOK
<1>1. PICK s : s = Start
  OBVIOUS
<1>2. Solving(s, mesh, stack_, frames, at)
  BY <1>1 DEF LinksSearch, LinksInv
<1>3. /\ Hung(s) /\ stack_ \in Seq(InRows(s)) /\ frames \in Seq(Call(s))
      /\ mesh \in Meshes(s)
  <2>1. mesh \in Like(s)
    BY <1>2, SolvingExact DEF Exact
  <2> QED BY <1>2, <2>1 DEF Solving, Woven, Like
<1>4. /\ puzzle \in Links!Board /\ board \in Links!Board
      /\ at \in {"call", "loop", "back", "done"} /\ result \in BOOLEAN
  BY LinksBoard DEF LinksSearch, Undecided, Decided
<1>5. PICK N, C : N = Nodes(s) /\ C = Heads(s)
  OBVIOUS
<1>6. /\ DOMAIN mesh = {"name", "col", "left", "right", "up", "down", "size"}
      /\ mesh.name = s.name /\ mesh.col = s.col /\ DOMAIN mesh.size = C
      /\ mesh.right \in [N -> N] /\ mesh.left \in [N -> N] /\ mesh.down \in [N -> N] /\ mesh.up \in [N -> N]
  BY <1>3, <1>5 DEF Meshes
<1>7. DOMAIN mesh.name = N
  BY <1>5, <1>6 DEF Nodes
<1>8. C \subseteq N /\ mesh.col \in [N -> N]
  BY <1>3, <1>5, <1>6 DEF Hung
<1>9. \A f \in {"col", "left", "right", "up", "down"} : mesh[f] \in [N -> N]
  BY <1>6, <1>8
<1>10. stack_ \in Seq(N)
  BY <1>3, <1>5 DEF InRows
<1>11. frames \in Seq([col : C, row : N])
  BY <1>3, <1>5 DEF Call
<1> QED BY <1>4, <1>6, <1>7, <1>9, <1>10, <1>11 DEF Links!TypeOK

(* Every variable of the solver that runs keeps its type: the links never  *)
(* lead out of the mesh, the stack and the frames hold its nodes.          *)
THEOREM SolversTyped ==
  ASSUME Band <= 3
  PROVE  Spec => []TypeOK
<1>1. Init => (solver = "dancing_links" => LinksSearch)
  BY LinksSearches
<1>2. (solver = "dancing_links" => LinksSearch) /\ [Next]_vars => (solver = "dancing_links" => LinksSearch)'
  BY LinksSearches
<1>3. (solver = "dancing_links" => LinksSearch) => (solver = "dancing_links" => Links!TypeOK)
  BY LinksTypes
<1>4. Spec => [](solver = "dancing_links" => Links!TypeOK)
  BY <1>1, <1>2, <1>3, PTL DEF Spec
<1>5. (solver = "dancing_links" => Links!TypeOK) /\ (solver # "dancing_links" => Search!TypeOK) => TypeOK
  BY DEF TypeOK
<1> QED BY <1>4, <1>5, SearchTypes, PTL

=============================================================================
