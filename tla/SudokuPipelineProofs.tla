------------------------ MODULE SudokuPipelineProofs ------------------------
(***************************************************************************)
(* Theorems about the pipeline of Lab 1, for any number of threads, any    *)
(* input and every interleaving: the types, the ring, the order of the     *)
(* output and the wake-ups of print_order.                                 *)
(*                                                                         *)
(* The argument counts: the puzzles taken and not printed are as many as   *)
(* consumers are busy, so at most n_pthread, and numbers that differ by    *)
(* less than n_pthread have different turns and different slots.           *)
(***************************************************************************)
EXTENDS SudokuPipeline, FiniteSetTheorems, TLAPS

Places == {"ready", "toWait", "waitFull", "solving", "waitTurn", "exited"}

\* The consumers that hold a puzzle.
Busy == {c \in Consumer : consumer[c] \in {"solving", "waitTurn"}}

\* Pointers and turns count what was done, modulo the number of threads.
Pointers ==
  /\ use_ptr = total % n_pthread
  /\ fill_ptr = Len(filled) % n_pthread
  /\ cur_print = Len(printed) % n_pthread

\* The numbers of the puzzles taken and not yet printed.
Open == (Len(printed) + 1)..total

\* Each busy consumer holds an open puzzle, and no two hold the same.
Turns ==
  /\ total = Len(printed) + Cardinality(Busy)
  /\ \A c \in Busy : \E i \in Open : myturn[c] = Turn(i) /\ board[c] = filled[i]
  /\ \A c, d \in Busy : myturn[c] = myturn[d] => c = d

Work == Pointers /\ RingHoldsRest /\ Turns /\ OrderedOutput

IInv == TypeOK /\ Work /\ TurnIsAwake /\ NoSleepWithRoom

---------------------------------------------------------------------------
(* Remainders                                                              *)

\* A number is a multiple of n and a rest.
LEMMA Quotient ==
  ASSUME NEW n \in Nat \ {0}, NEW a \in Nat
  PROVE  \E k \in Nat, r \in 0..(n - 1) : a = n * k + r
<1>1. a = n * (a \div n) + (a % n)
  BY SMT
<1>2. (a \div n) \in Nat
  BY SMT
<1>3. (a % n) \in 0..(n - 1)
  BY SMT
<1> DEFINE q == a \div n
           t == a % n
<1>4. q \in Nat /\ t \in 0..(n - 1) /\ a = n * q + t
  BY <1>1, <1>2, <1>3
<1> HIDE DEF q, t
<1> QED BY <1>4

LEMMA Remainder ==
  ASSUME NEW n \in Nat \ {0}, NEW k \in Nat, NEW r \in 0..(n - 1)
  PROVE  (n * k + r) % n = r
BY SMT

LEMMA RemainderRange ==
  ASSUME NEW n \in Nat \ {0}, NEW a \in Nat
  PROVE  (a % n) \in 0..(n - 1)
BY SMT

LEMMA Distributes == \A n, j, k \in Nat : n * (j + k) = n * j + n * k
BY SMT

\* A counter kept modulo n is the counter modulo n.
LEMMA RemainderOfSum ==
  ASSUME NEW n \in Nat \ {0}, NEW a \in Nat, NEW b \in Nat
  PROVE  ((a % n) + b) % n = (a + b) % n
<1>1. PICK k \in Nat, r \in 0..(n - 1) : a = n * k + r
  BY Quotient
<1>2. a % n = r
  BY <1>1, Remainder
<1>3. PICK j \in Nat, s \in 0..(n - 1) : r + b = n * j + s
  <2>1. r + b \in Nat
    OBVIOUS
  <2> QED BY <2>1, Quotient
<1>4. (r + b) % n = s
  BY <1>3, Remainder
<1>5. a + b = n * (k + j) + s
  <2>1. n * (k + j) = n * k + n * j
    BY Distributes
  <2>2. n * k \in Nat /\ n * j \in Nat /\ n * (k + j) \in Nat
    OBVIOUS
  <2> QED BY <1>1, <1>3, <2>1, <2>2
<1>6. (a + b) % n = s
  <2>1. k + j \in Nat
    OBVIOUS
  <2>2. (n * (k + j) + s) % n = s
    BY <2>1, Remainder
  <2> QED BY <1>5, <2>2
<1> QED BY <1>2, <1>4, <1>6

\* Numbers closer than n have different remainders.
LEMMA CloseDiffer ==
  ASSUME NEW n \in Nat \ {0}, NEW a \in Nat, NEW b \in Nat, a < b, b < a + n
  PROVE  a % n # b % n
<1>1. PICK k \in Nat, r \in 0..(n - 1) : a = n * k + r
  BY Quotient
<1>2. PICK d \in 1..(n - 1) : b = a + d
  <2>1. b - a \in 1..(n - 1) /\ b = a + (b - a)
    OBVIOUS
  <2> QED BY <2>1
<1>3. a % n = r
  BY <1>1, Remainder
<1>4. CASE r + d < n
  <2>1. b = n * k + (r + d) /\ r + d \in 0..(n - 1)
    BY <1>1, <1>2, <1>4
  <2>2. b % n = r + d
    BY <2>1, Remainder
  <2> QED BY <1>3, <2>2
<1>5. CASE r + d >= n
  <2>1. n * (k + 1) = n * k + n
    BY Distributes
  <2>2. b = n * (k + 1) + (r + d - n) /\ r + d - n \in 0..(n - 1) /\ k + 1 \in Nat
    BY <1>1, <1>2, <1>5, <2>1
  <2>3. b % n = r + d - n
    BY <2>2, Remainder
  <2> QED BY <1>3, <2>3
<1> QED BY <1>4, <1>5

\* A turn is the turn of one open puzzle only.
LEMMA TurnsDiffer ==
  ASSUME NEW i \in Nat \ {0}, NEW j \in Nat \ {0}, i < j, j < i + n_pthread
  PROVE  Turn(i) # Turn(j)
<1>1. i - 1 \in Nat /\ j - 1 \in Nat /\ i - 1 < j - 1 /\ j - 1 < (i - 1) + n_pthread
  BY PipelineConstants
<1> QED BY <1>1, CloseDiffer, PipelineConstants DEF Turn

---------------------------------------------------------------------------
(* Steps that move threads and no puzzle                                   *)

\* A consumer is as busy as before, and nothing moves through the ring.
Idle ==
  /\ UNCHANGED <<ringVars, myturn, board, printVars>>
  /\ consumer' \in [Consumer -> Places]
  /\ \A c \in Consumer :
       consumer'[c] \in {"solving", "waitTurn"} <=> consumer[c] \in {"solving", "waitTurn"}

LEMMA IdleKeepsWork == ASSUME Work, Idle PROVE Work'
<1>1. Busy' = Busy
  BY DEF Idle, Busy
<1> QED BY <1>1 DEF Work, Pointers, RingHoldsRest, Turns, OrderedOutput, Open, Turn,
                    Idle, ringVars, printVars

\* A signal to full wakes a consumer that waits for it, or none.
LEMMA SignalWakes ==
  ASSUME TypeOK, SignalFull(consumer')
  PROVE  /\ consumer' \in [Consumer -> Places]
         /\ \A c \in Consumer :
              consumer'[c] = consumer[c] \/ (consumer[c] = "waitFull" /\ consumer'[c] = "ready")
<1>1. CASE Sleepers("waitFull") = {}
  BY <1>1 DEF SignalFull, TypeOK, Places
<1>2. CASE Sleepers("waitFull") # {}
  <2>1. PICK c \in Sleepers("waitFull") : consumer' = [consumer EXCEPT ![c] = "ready"]
    BY <1>2 DEF SignalFull
  <2> QED BY <2>1 DEF Sleepers, TypeOK, Places
<1> QED BY <1>1, <1>2

LEMMA FileThreadKeeps == ASSUME IInv, FileThread PROVE IInv'
<1>1. TypeOK /\ Work
  BY DEF IInv
<1>2. TypeOK'
  <2>1. CASE PushName
    BY <1>1, <2>1 DEF TypeOK, PushName, ProducerAfterFileout, ringVars, printVars
  <2>2. CASE SetEndFile
    BY <1>1, <2>2 DEF TypeOK, SetEndFile, prodVars, ringVars, printVars
  <2>3. CASE SignalEndFile
    BY <1>1, <2>3 DEF TypeOK, SignalEndFile, ProducerAfterFileout, ringVars, printVars
  <2> QED BY <2>1, <2>2, <2>3 DEF FileThread
<1>3. UNCHANGED <<consumer, ringVars, myturn, board, printVars>>
  BY DEF FileThread, PushName, SetEndFile, SignalEndFile
<1>4. Idle
  BY <1>1, <1>3 DEF Idle, TypeOK, Places
<1>5. Work'
  BY <1>1, <1>4, IdleKeepsWork
<1>6. producer' = "waitEmpty" => producer = "waitEmpty"
  BY DEF FileThread, PushName, SetEndFile, SignalEndFile, ProducerAfterFileout, prodVars
<1>7. TurnIsAwake' /\ NoSleepWithRoom'
  BY <1>3, <1>6 DEF IInv, TurnIsAwake, NoSleepWithRoom, Sleepers, ringVars, printVars
<1> QED BY <1>2, <1>5, <1>7 DEF IInv

ProducerAside ==
  \/ OpenFile \/ SeeNoName \/ WaitFileout \/ SetDataEmpty \/ SignalClosing
  \/ ExitProducer \/ WaitEmpty \/ EndOfFile

LEMMA ProducerAsideKeeps == ASSUME IInv, ProducerAside PROVE IInv'
<1>1. TypeOK /\ Work
  BY DEF IInv
<1>2. CASE SignalClosing
  <2>1. /\ UNCHANGED <<fileVars, file_list, flag_end_file, producer, lines, data_empty>>
        /\ UNCHANGED <<ringVars, myturn, board, printVars>>
        /\ signals > 0 /\ signals' = signals - 1
    BY <1>2 DEF SignalClosing
  <2>2. /\ consumer' \in [Consumer -> Places]
        /\ \A c \in Consumer :
             consumer'[c] = consumer[c] \/ (consumer[c] = "waitFull" /\ consumer'[c] = "ready")
    BY <1>1, <1>2, SignalWakes DEF SignalClosing
  <2>3. TypeOK'
    BY <1>1, <2>1, <2>2, PipelineConstants DEF TypeOK, Places, fileVars, ringVars, printVars
  <2>4. Work'
    BY <1>1, <2>1, <2>2, IdleKeepsWork DEF Idle
  <2>5. TurnIsAwake' /\ NoSleepWithRoom'
    BY <2>1, <2>2 DEF IInv, TurnIsAwake, NoSleepWithRoom, Sleepers, ringVars, printVars
  <2> QED BY <2>3, <2>4, <2>5 DEF IInv
<1>3. CASE ~SignalClosing
  <2>1. UNCHANGED <<consumer, ringVars, myturn, board, printVars>>
    BY <1>3 DEF ProducerAside, OpenFile, SeeNoName, WaitFileout, SetDataEmpty,
                ExitProducer, WaitEmpty, EndOfFile
  <2>2. TypeOK'
    <3>1. CASE OpenFile
      BY <1>1, <3>1 DEF TypeOK, OpenFile, fileVars, ringVars, printVars
    <3>2. CASE SeeNoName \/ WaitFileout \/ ExitProducer \/ WaitEmpty \/ EndOfFile
      BY <1>1, <3>2 DEF TypeOK, SeeNoName, WaitFileout, ExitProducer, WaitEmpty, EndOfFile,
                        fileVars, ringVars, printVars
    <3>3. CASE SetDataEmpty
      BY <1>1, <3>3, PipelineConstants DEF TypeOK, SetDataEmpty, fileVars, ringVars, printVars
    <3> QED BY <1>3, <3>1, <3>2, <3>3 DEF ProducerAside
  <2>3. Idle
    BY <1>1, <2>1 DEF Idle, TypeOK, Places
  <2>4. Work'
    BY <1>1, <2>3, IdleKeepsWork
  <2>5. producer' = "waitEmpty" => n_data = n_pthread
    BY <1>3 DEF IInv, NoSleepWithRoom, ProducerAside, OpenFile, SeeNoName, WaitFileout,
                SetDataEmpty, ExitProducer, WaitEmpty, EndOfFile
  <2>6. TurnIsAwake' /\ NoSleepWithRoom'
    BY <2>1, <2>5 DEF IInv, TurnIsAwake, NoSleepWithRoom, Sleepers, ringVars, printVars
  <2> QED BY <2>2, <2>4, <2>6 DEF IInv
<1> QED BY <1>2, <1>3

\* A wait that returns without a signal only sends a thread back to its test.
LEMMA SpuriousKeeps == ASSUME IInv, SpuriousWakeup PROVE IInv'
<1>1. TypeOK /\ Work
  BY DEF IInv
<1>2. /\ UNCHANGED <<fileVars, file_list, flag_end_file, lines, signals, data_empty>>
      /\ UNCHANGED <<ringVars, myturn, board, printVars>>
  BY DEF SpuriousWakeup
<1>3. /\ consumer' \in [Consumer -> Places]
      /\ \A c \in Consumer :
           \/ consumer'[c] = consumer[c]
           \/ consumer[c] = "waitFull" /\ consumer'[c] = "ready"
           \/ consumer[c] = "waitTurn" /\ consumer'[c] = "solving"
  BY <1>1 DEF SpuriousWakeup, Sleepers, TypeOK, Places
<1>4. producer' \in {producer, "names", "fill"}
  BY DEF SpuriousWakeup
<1>5. TypeOK'
  BY <1>1, <1>2, <1>3, <1>4 DEF TypeOK, Places, fileVars, ringVars, printVars
<1>6. Work'
  BY <1>1, <1>2, <1>3, IdleKeepsWork DEF Idle
<1>7. TurnIsAwake' /\ NoSleepWithRoom'
  BY <1>2, <1>3, <1>4 DEF IInv, TurnIsAwake, NoSleepWithRoom, Sleepers, ringVars, printVars
<1> QED BY <1>5, <1>6, <1>7 DEF IInv

ConsumeAside(c) == ExitConsumer(c) \/ SeeNoData(c) \/ WaitFull(c) \/ WaitTurn(c)

LEMMA ConsumeAsideKeeps ==
  ASSUME IInv, NEW c \in Consumer, ConsumeAside(c)
  PROVE  IInv'
<1>1. TypeOK /\ Work
  BY DEF IInv
<1>2. /\ UNCHANGED <<fileVars, file_list, flag_end_file, prodVars, data_empty>>
      /\ UNCHANGED <<ringVars, myturn, board, printVars>>
  BY DEF ConsumeAside, ExitConsumer, SeeNoData, WaitFull, WaitTurn
<1>3. \E there \in Places :
        /\ consumer' = [consumer EXCEPT ![c] = there]
        /\ there \in {"solving", "waitTurn"} <=> consumer[c] \in {"solving", "waitTurn"}
        /\ there = "waitTurn" => myturn[c] # cur_print
  BY DEF ConsumeAside, ExitConsumer, SeeNoData, WaitFull, WaitTurn, Places
<1>4. TypeOK'
  BY <1>1, <1>2, <1>3 DEF TypeOK, Places, fileVars, prodVars, ringVars, printVars
<1>5. Work'
  BY <1>1, <1>2, <1>3, IdleKeepsWork DEF Idle, TypeOK, Places
<1>6. TurnIsAwake' /\ NoSleepWithRoom'
  BY <1>1, <1>2, <1>3 DEF IInv, TypeOK, TurnIsAwake, NoSleepWithRoom, Sleepers, prodVars, ringVars, printVars
<1> QED BY <1>4, <1>5, <1>6 DEF IInv

---------------------------------------------------------------------------
(* A puzzle goes into the ring                                             *)

LEMMA FillLineKeeps == ASSUME IInv, FillLine PROVE IInv'
<1>1. TypeOK /\ Work /\ TurnIsAwake /\ NoSleepWithRoom
  BY DEF IInv
<1>2. /\ UNCHANGED <<fileVars, file_list, flag_end_file, producer, signals, data_empty>>
      /\ UNCHANGED <<use_ptr, total, myturn, board, printVars>>
      /\ producer = "fill" /\ n_data # n_pthread /\ lines # <<>> /\ lines' = Tail(lines)
  BY DEF FillLine, HasRoom
<1>3. /\ consumer' \in [Consumer -> Places]
      /\ \A c \in Consumer :
           consumer'[c] = consumer[c] \/ (consumer[c] = "waitFull" /\ consumer'[c] = "ready")
  BY <1>1, SignalWakes DEF FillLine
<1>4. TurnIsAwake' /\ NoSleepWithRoom'
  BY <1>1, <1>2, <1>3 DEF TurnIsAwake, NoSleepWithRoom, Sleepers, printVars
<1>5. Busy' = Busy
  BY <1>3 DEF Busy
<1>6. Head(lines) \in Puzzle \cup {Short} /\ Tail(lines) \in Seq(Puzzle \cup {Short})
  BY <1>1, <1>2 DEF TypeOK
<1>7. CASE Head(lines) \notin Puzzle
  <2>1. UNCHANGED ringVars
    BY <1>2, <1>7 DEF FillLine, ringVars
  <2>2. TypeOK'
    BY <1>1, <1>2, <1>3, <1>6, <2>1 DEF TypeOK, Places, fileVars, ringVars, printVars
  <2>3. Work'
    BY <1>1, <1>2, <1>3, <2>1, IdleKeepsWork DEF Idle
  <2> QED BY <1>4, <2>2, <2>3 DEF IInv
<1>8. CASE Head(lines) \in Puzzle
  <2> DEFINE p == Head(lines)
  <2>1. /\ buf' = [buf EXCEPT ![fill_ptr] = p]
        /\ fill_ptr' = (fill_ptr + 1) % n_pthread
        /\ n_data' = n_data + 1
        /\ filled' = Append(filled, p)
    BY <1>8 DEF FillLine
  <2>2. n_data \in 0..(n_pthread - 1) /\ n_pthread \in Nat \ {0} /\ total \in Nat
    BY <1>1, <1>2, PipelineConstants DEF TypeOK
  <2>3. filled \in Seq(Puzzle) /\ filled' \in Seq(Puzzle) /\ Len(filled) \in Nat
    BY <1>1, <1>8, <2>1 DEF TypeOK
  <2>4. Len(filled) = total + n_data /\ Len(filled') = total + n_data'
    BY <1>1, <2>1, <2>2, <2>3 DEF Work, RingHoldsRest
  <2>5. \A i \in 1..Len(filled) : filled'[i] = filled[i]
    BY <2>1, <2>3
  <2>6. filled'[total + n_data + 1] = p
    BY <2>1, <2>3, <2>4
  <2>7. fill_ptr' = Len(filled') % n_pthread
    <3>1. Len(filled') = Len(filled) + 1
      BY <2>1, <2>3
    <3>2. ((Len(filled) % n_pthread) + 1) % n_pthread = (Len(filled) + 1) % n_pthread
      BY <2>2, <2>3, RemainderOfSum
    <3> QED BY <1>1, <2>1, <3>1, <3>2 DEF Work, Pointers
  <2>8. TypeOK'
    <3>1. fill_ptr' \in Slot
      <4>1. Len(filled') \in Nat
        BY <2>3
      <4> QED BY <2>2, <2>7, <4>1, RemainderRange DEF Slot
    <3>2. buf' \in [Slot -> Puzzle \cup {Short}]
      BY <1>1, <1>6, <2>1 DEF TypeOK
    <3> QED BY <1>1, <1>2, <1>3, <1>6, <2>1, <2>2, <2>3, <3>1, <3>2 DEF TypeOK, Places, fileVars, printVars
  <2>9. ASSUME NEW i \in 1..n_data'
        PROVE  buf'[(use_ptr' + i - 1) % n_pthread] = filled'[total' + i]
    <3>1. (use_ptr + (i - 1)) % n_pthread = (total + (i - 1)) % n_pthread
      <4>1. i - 1 \in Nat
        BY <2>1, <2>2
      <4>2. ((total % n_pthread) + (i - 1)) % n_pthread = (total + (i - 1)) % n_pthread
        BY <2>2, <4>1, RemainderOfSum
      <4> QED BY <1>1, <4>2 DEF Work, Pointers
    <3>2. /\ use_ptr \in Nat /\ i \in 1..(n_data + 1)
          /\ use_ptr' + i - 1 = use_ptr + (i - 1) /\ total' + i = total + i
      BY <1>1, <1>2, <2>1, <2>2, PipelineConstants DEF TypeOK, Slot
    <3>3. fill_ptr = (total + n_data) % n_pthread
      BY <1>1, <2>4 DEF Work, Pointers
    <3>4. (use_ptr + (i - 1)) % n_pthread \in Slot
      <4>1. use_ptr + (i - 1) \in Nat
        BY <3>2
      <4> QED BY <2>2, <4>1, RemainderRange DEF Slot
    <3>5. CASE i = n_data + 1
      <4>1. (use_ptr + (i - 1)) % n_pthread = fill_ptr
        BY <2>2, <3>1, <3>3, <3>5
      <4>2. total + i = total + n_data + 1
        BY <2>2, <3>5
      <4>3. buf'[fill_ptr] = p
        BY <1>1, <2>1 DEF TypeOK
      <4> QED BY <2>6, <3>2, <4>1, <4>2, <4>3
    <3>6. CASE i \in 1..n_data
      <4>1. (total + (i - 1)) % n_pthread # (total + n_data) % n_pthread
        <5>1. /\ total + (i - 1) \in Nat /\ total + n_data \in Nat
              /\ total + (i - 1) < total + n_data
              /\ total + n_data < (total + (i - 1)) + n_pthread
          BY <2>2, <3>6
        <5> QED BY <2>2, <5>1, CloseDiffer
      <4>2. buf'[(use_ptr + (i - 1)) % n_pthread] = buf[(use_ptr + (i - 1)) % n_pthread]
        BY <1>1, <2>1, <3>1, <3>3, <3>4, <4>1 DEF TypeOK
      <4>3. buf[(use_ptr + (i - 1)) % n_pthread] = filled[total + i]
        <5>1. use_ptr + i - 1 = use_ptr + (i - 1)
          BY <3>2
        <5> QED BY <1>1, <3>6, <5>1 DEF Work, RingHoldsRest
      <4>4. filled'[total + i] = filled[total + i]
        BY <2>2, <2>4, <2>5, <3>6
      <4> QED BY <3>2, <4>2, <4>3, <4>4
    <3>7. i = n_data + 1 \/ i \in 1..n_data
      BY <2>2, <3>2
    <3> QED BY <3>5, <3>6, <3>7
  <2>10. RingHoldsRest'
    BY <1>2, <2>4, <2>9 DEF RingHoldsRest
  <2>11. Pointers'
    BY <1>1, <1>2, <2>7 DEF Work, Pointers, printVars
  <2>12. Len(printed) \in Nat /\ printed' = printed
    BY <1>1, <1>2 DEF TypeOK, printVars
  <2>13. Turns'
    <3>1. Open' = Open /\ Open \subseteq 1..Len(filled)
      BY <1>2, <2>2, <2>4, <2>12 DEF Open
    <3> QED BY <1>1, <1>2, <1>5, <2>5, <3>1, <2>12 DEF Work, Turns, Turn
  <2>14. OrderedOutput'
    BY <1>1, <2>2, <2>3, <2>4, <2>5, <2>1, <2>12 DEF TypeOK, Work, OrderedOutput
  <2> QED BY <1>4, <2>8, <2>10, <2>11, <2>13, <2>14 DEF IInv, Work
<1> QED BY <1>7, <1>8

---------------------------------------------------------------------------
(* A puzzle is taken                                                       *)

LEMMA GetPuzzleKeeps == ASSUME IInv, NEW c \in Consumer, GetPuzzle(c) PROVE IInv'
<1>1. TypeOK /\ Work /\ TurnIsAwake /\ NoSleepWithRoom
  BY DEF IInv
<1>2. /\ UNCHANGED <<fileVars, file_list, flag_end_file, lines, signals, data_empty>>
      /\ UNCHANGED <<buf, fill_ptr, filled, printVars>>
      /\ consumer[c] = "ready" /\ n_data > 0
      /\ total' = total + 1 /\ n_data' = n_data - 1
      /\ use_ptr' = (use_ptr + 1) % n_pthread
      /\ myturn' = [myturn EXCEPT ![c] = Turn(total')]
      /\ board' = [board EXCEPT ![c] = buf[use_ptr]]
      /\ consumer' = [consumer EXCEPT ![c] = "solving"]
      /\ producer' = ProducerAfterEmpty
  BY DEF GetPuzzle
<1>3. /\ n_pthread \in Nat \ {0} /\ total \in Nat /\ n_data \in 1..n_pthread
      /\ Len(printed) \in Nat /\ Len(filled) \in Nat /\ use_ptr \in Slot
  BY <1>1, <1>2, PipelineConstants DEF TypeOK
<1>4. Len(filled) = total + n_data
  BY <1>1 DEF Work, RingHoldsRest
<1>5. buf[use_ptr] = filled[total + 1] /\ filled[total + 1] \in Puzzle
  <2>1. buf[(use_ptr + 1 - 1) % n_pthread] = filled[total + 1]
    BY <1>1, <1>3 DEF Work, RingHoldsRest
  <2>2. (use_ptr + 1 - 1) % n_pthread = use_ptr
    BY <1>3 DEF Slot
  <2>3. total + 1 \in 1..Len(filled)
    BY <1>3, <1>4
  <2> QED BY <1>1, <2>1, <2>2, <2>3 DEF TypeOK
<1>6. use_ptr' = total' % n_pthread
  <2>1. ((total % n_pthread) + 1) % n_pthread = (total + 1) % n_pthread
    BY <1>3, RemainderOfSum
  <2> QED BY <1>1, <1>2, <2>1 DEF Work, Pointers
<1>7. Turn(total') = total % n_pthread /\ Turn(total') \in Slot
  BY <1>2, <1>3, RemainderRange DEF Turn, Slot
<1>8. TypeOK'
  <2>1. use_ptr' \in Slot
    BY <1>2, <1>3, <1>6, RemainderRange DEF Slot
  <2>2. total' \in Nat /\ n_data' \in 0..n_pthread
    BY <1>2, <1>3
  <2>3. producer' \in {producer, "fill"}
    BY <1>2 DEF ProducerAfterEmpty
  <2> QED BY <1>1, <1>2, <1>5, <1>7, <2>1, <2>2, <2>3 DEF TypeOK, fileVars, printVars
<1>9. RingHoldsRest'
  <2>1. ASSUME NEW i \in 1..n_data'
        PROVE  buf[(use_ptr' + i - 1) % n_pthread] = filled[total' + i]
    <3>1. i \in Nat /\ i - 1 \in Nat /\ i + 1 \in 1..n_data /\ use_ptr \in Nat /\ use_ptr + 1 \in Nat
      BY <1>2, <1>3 DEF Slot
    <3>2. (((use_ptr + 1) % n_pthread) + (i - 1)) % n_pthread = ((use_ptr + 1) + (i - 1)) % n_pthread
      BY <1>3, <3>1, RemainderOfSum
    <3>3. ((use_ptr + 1) % n_pthread) \in Nat
      BY <1>3, <3>1, RemainderRange
    <3>4. use_ptr' + i - 1 = ((use_ptr + 1) % n_pthread) + (i - 1)
      BY <1>2, <3>1, <3>3
    <3>5. (use_ptr + 1) + (i - 1) = use_ptr + (i + 1) - 1
      BY <3>1
    <3>6. buf[(use_ptr + (i + 1) - 1) % n_pthread] = filled[total + (i + 1)]
      BY <1>1, <3>1 DEF Work, RingHoldsRest
    <3>7. total' + i = total + (i + 1)
      BY <1>2, <1>3, <3>1
    <3> QED BY <3>2, <3>4, <3>5, <3>6, <3>7
  <2>2. Len(filled) = total' + n_data'
    BY <1>2, <1>3, <1>4
  <2> QED BY <1>2, <2>1, <2>2 DEF RingHoldsRest
<1>10. Busy' = Busy \cup {c} /\ c \notin Busy
  BY <1>1, <1>2 DEF TypeOK, Busy
<1>11. /\ IsFiniteSet(Busy) /\ Cardinality(Busy) \in Nat
       /\ Cardinality(Busy') = Cardinality(Busy) + 1 /\ Cardinality(Busy') <= n_pthread
  <2>1. Busy \subseteq Consumer /\ Busy' \subseteq Consumer
    BY DEF Busy
  <2> HIDE DEF Busy
  <2>2. IsFiniteSet(Busy) /\ Cardinality(Busy) \in Nat
    BY <2>1, FS_Subset, FS_CardinalityType, PipelineConstants
  <2>3. Cardinality(Busy \cup {c}) = Cardinality(Busy) + 1
    BY <1>10, <2>2, FS_AddElement
  <2>4. Cardinality(Busy \cup {c}) <= n_pthread
    BY <1>10, <2>1, FS_Subset, PipelineConstants
  <2> QED BY <1>10, <2>2, <2>3, <2>4
<1>12. total = Len(printed) + Cardinality(Busy)
  BY <1>1 DEF Work, Turns
<1>13. ASSUME NEW d \in Busy
       PROVE  \E i \in Open : myturn[d] = Turn(i) /\ board[d] = filled[i] /\ Turn(i) # Turn(total')
  <2>1. PICK i \in Open : myturn[d] = Turn(i) /\ board[d] = filled[i]
    BY <1>1 DEF Work, Turns
  <2>2. /\ i \in Nat \ {0} /\ total' \in Nat \ {0} /\ i < total' /\ total' < i + n_pthread
    BY <1>2, <1>3, <1>11, <1>12 DEF Open
  <2>3. Turn(i) # Turn(total')
    BY <2>2, TurnsDiffer
  <2> QED BY <2>1, <2>3
<1>14. Open \subseteq Open' /\ total' \in Open'
  BY <1>2, <1>3, <1>11, <1>12 DEF Open, printVars
<1>15. /\ \A d \in Busy : myturn'[d] = myturn[d] /\ board'[d] = board[d]
       /\ myturn'[c] = Turn(total') /\ board'[c] = filled'[total']
  BY <1>1, <1>2, <1>5, <1>10 DEF TypeOK, Busy
<1>16. Turns'
  <2>1. total' = Len(printed') + Cardinality(Busy')
    BY <1>2, <1>3, <1>11, <1>12 DEF printVars
  <2>2. \A d \in Busy' : \E i \in Open' : myturn'[d] = Turn(i) /\ board'[d] = filled'[i]
    BY <1>2, <1>10, <1>13, <1>14, <1>15
  <2>3. \A d \in Busy : myturn'[d] # myturn'[c]
    BY <1>13, <1>15
  <2>4. \A d, e \in Busy' : myturn'[d] = myturn'[e] => d = e
    BY <1>1, <1>10, <1>15, <2>3 DEF Work, Turns
  <2> QED BY <2>1, <2>2, <2>4 DEF Turns, Turn
<1>17. Pointers'
  BY <1>1, <1>2, <1>6 DEF Work, Pointers, printVars
<1>18. OrderedOutput' /\ TurnIsAwake' /\ NoSleepWithRoom'
  <2>1. OrderedOutput'
    BY <1>1, <1>2 DEF Work, OrderedOutput, printVars
  <2>2. TurnIsAwake'
    BY <1>1, <1>2 DEF TypeOK, TurnIsAwake, Sleepers, printVars
  <2>3. producer' # "waitEmpty"
    BY <1>2 DEF ProducerAfterEmpty
  <2> QED BY <2>1, <2>2, <2>3 DEF NoSleepWithRoom
<1> QED BY <1>8, <1>9, <1>16, <1>17, <1>18 DEF IInv, Work

---------------------------------------------------------------------------
(* A solution is printed                                                   *)

LEMMA PrintSolutionKeeps == ASSUME IInv, NEW c \in Consumer, PrintSolution(c) PROVE IInv'
<1>1. TypeOK /\ Work /\ TurnIsAwake /\ NoSleepWithRoom
  BY DEF IInv
<1> DEFINE next == WaitsFor((myturn[c] + 1) % n_pthread)
           back == [consumer EXCEPT ![c] = "ready"]
<1>2. /\ UNCHANGED <<fileVars, file_list, flag_end_file, prodVars, data_empty, ringVars, myturn, board>>
      /\ consumer[c] = "solving" /\ myturn[c] = cur_print
      /\ printed' = Append(printed, board[c])
      /\ cur_print' = (cur_print + 1) % n_pthread
      /\ IF next = {} THEN consumer' = back
         ELSE \E d \in next : consumer' = [back EXCEPT ![d] = "solving"]
  BY DEF PrintSolution, IsTurn
<1>3. /\ n_pthread \in Nat \ {0} /\ total \in Nat /\ n_data \in Nat
      /\ Len(printed) \in Nat /\ Len(filled) \in Nat /\ Len(filled) = total + n_data
  BY <1>1, PipelineConstants DEF TypeOK, Work, RingHoldsRest
<1>4. c \in Busy
  BY <1>2 DEF Busy
<1>5. /\ consumer' \in [Consumer -> Places]
      /\ consumer'[c] = "ready"
      /\ \A d \in Consumer : d # c =>
           \/ consumer'[d] = consumer[d]
           \/ consumer[d] = "waitTurn" /\ consumer'[d] = "solving"
  <2>1. c \notin next
    BY <1>2 DEF WaitsFor, Sleepers
  <2>2. back \in [Consumer -> Places] /\ next \subseteq Consumer
    BY <1>1 DEF TypeOK, Places, WaitsFor, Sleepers
  <2>3. \A d \in next : consumer[d] = "waitTurn"
    BY DEF WaitsFor, Sleepers
  <2> QED BY <1>1, <1>2, <2>1, <2>2, <2>3 DEF TypeOK, Places
<1>6. Busy' = Busy \ {c}
  BY <1>4, <1>5 DEF Busy
<1>7. /\ IsFiniteSet(Busy) /\ Cardinality(Busy) \in Nat /\ Cardinality(Busy) <= n_pthread
      /\ Cardinality(Busy') = Cardinality(Busy) - 1
  <2>1. Busy \subseteq Consumer
    BY DEF Busy
  <2> HIDE DEF Busy
  <2>2. IsFiniteSet(Busy) /\ Cardinality(Busy) \in Nat /\ Cardinality(Busy) <= n_pthread
    BY <2>1, FS_Subset, FS_CardinalityType, PipelineConstants
  <2> QED BY <1>4, <1>6, <2>2, FS_RemoveElement
<1>8. total = Len(printed) + Cardinality(Busy)
  BY <1>1 DEF Work, Turns
\* The turn that prints is that of the oldest open puzzle.
<1>9. ASSUME NEW i \in Open, Turn(i) = cur_print
      PROVE  i = Len(printed) + 1
  <2>1. i \in Nat \ {0} /\ Len(printed) + 1 \in Nat \ {0} /\ Len(printed) + 1 <= i
    BY <1>3 DEF Open
  <2>2. i < Len(printed) + 1 + n_pthread
    BY <1>3, <1>7, <1>8, <2>1 DEF Open
  <2>3. Turn(Len(printed) + 1) = cur_print
    BY <1>1, <1>3 DEF Turn, Work, Pointers
  <2>4. CASE Len(printed) + 1 < i
    BY <1>9, <2>1, <2>2, <2>3, <2>4, TurnsDiffer
  <2> QED BY <2>1, <2>4
<1>10. Len(printed) + 1 \in Open /\ board[c] = filled[Len(printed) + 1]
  <2>1. PICK i \in Open : myturn[c] = Turn(i) /\ board[c] = filled[i]
    BY <1>1, <1>4 DEF Work, Turns
  <2> QED BY <1>2, <1>9, <2>1
<1>11. board[c] \in Puzzle
  <2>1. Len(printed) + 1 \in 1..Len(filled)
    BY <1>3, <1>10 DEF Open
  <2> QED BY <1>1, <1>10, <2>1 DEF TypeOK
<1>12. printed' \in Seq(Puzzle) /\ Len(printed') = Len(printed) + 1
  BY <1>1, <1>2, <1>11 DEF TypeOK
<1>13. cur_print' = Len(printed') % n_pthread
  <2>1. ((Len(printed) % n_pthread) + 1) % n_pthread = (Len(printed) + 1) % n_pthread
    BY <1>3, RemainderOfSum
  <2> QED BY <1>1, <1>2, <1>12, <2>1 DEF Work, Pointers
<1>14. TypeOK'
  <2>1. cur_print' \in Slot
    <3>1. Len(printed') \in Nat
      BY <1>3, <1>12
    <3> QED BY <1>3, <1>13, <3>1, RemainderRange DEF Slot
  <2> QED BY <1>1, <1>2, <1>5, <1>12, <2>1 DEF TypeOK, Places, fileVars, prodVars, ringVars
<1>15. Pointers' /\ RingHoldsRest'
  BY <1>1, <1>2, <1>13 DEF Work, Pointers, RingHoldsRest, ringVars
<1>16. OrderedOutput'
  <2>1. Len(printed') <= Len(filled)
    BY <1>3, <1>10, <1>12 DEF Open
  <2>2. \A i \in DOMAIN printed' : printed'[i] = filled[i]
    <3>1. printed'[Len(printed) + 1] = filled[Len(printed) + 1]
      BY <1>1, <1>2, <1>10 DEF TypeOK
    <3>2. \A i \in 1..Len(printed) : printed'[i] = filled[i]
      BY <1>1, <1>2 DEF TypeOK, Work, OrderedOutput
    <3>3. DOMAIN printed' = 1..(Len(printed) + 1)
      BY <1>12
    <3> QED BY <1>3, <3>1, <3>2, <3>3
  <2> QED BY <1>2, <2>1, <2>2 DEF OrderedOutput, ringVars
<1>17. Turns'
  <2>1. total' = Len(printed') + Cardinality(Busy')
    BY <1>2, <1>3, <1>7, <1>8, <1>12 DEF ringVars
  <2>2. ASSUME NEW d \in Busy'
        PROVE  \E i \in Open' : myturn'[d] = Turn(i) /\ board'[d] = filled'[i]
    <3>1. d \in Busy /\ d # c
      BY <1>6
    <3>2. PICK i \in Open : myturn[d] = Turn(i) /\ board[d] = filled[i]
      BY <1>1, <3>1 DEF Work, Turns
    <3>3. myturn[d] # myturn[c]
      BY <1>1, <1>4, <3>1 DEF Work, Turns
    <3>4. i # Len(printed) + 1
      BY <1>1, <1>2, <1>3, <3>2, <3>3 DEF Turn, Work, Pointers
    <3>5. i \in Open'
      BY <1>2, <1>3, <1>12, <3>4 DEF Open, ringVars
    <3> QED BY <1>2, <3>2, <3>5 DEF ringVars
  <2>3. \A d, e \in Busy' : myturn'[d] = myturn'[e] => d = e
    BY <1>1, <1>2, <1>6 DEF Work, Turns
  <2> QED BY <2>1, <2>2, <2>3 DEF Turns, Turn
\* The next turn has one consumer at most, and the signal is for that one.
<1>18. TurnIsAwake'
  <2> SUFFICES ASSUME NEW d \in Consumer, consumer'[d] = "waitTurn", myturn[d] = cur_print'
               PROVE  FALSE
    BY <1>2 DEF TurnIsAwake, Sleepers
  <2>1. d # c /\ consumer[d] = "waitTurn"
    BY <1>5
  <2>2. d \in next
    BY <1>2, <2>1 DEF WaitsFor, Sleepers
  <2>3. PICK e \in next : consumer' = [back EXCEPT ![e] = "solving"]
    BY <1>2, <2>2
  <2>4. e \in Consumer /\ e \in Busy /\ d \in Busy /\ myturn[e] = myturn[d]
    BY <1>2, <2>2 DEF WaitsFor, Sleepers, Busy
  <2>5. e = d
    BY <1>1, <2>4 DEF Work, Turns
  <2> QED BY <1>1, <2>3, <2>4, <2>5 DEF TypeOK
<1>19. NoSleepWithRoom'
  BY <1>1, <1>2 DEF NoSleepWithRoom, prodVars, ringVars
<1> QED BY <1>14, <1>15, <1>16, <1>17, <1>18, <1>19 DEF IInv, Work

---------------------------------------------------------------------------
(* The theorems                                                            *)

LEMMA InitIInv == ASSUME Init PROVE IInv
<1>1. TypeOK
  <2>1. 0 \in Slot /\ 0 \in 0..n_pthread
    BY PipelineConstants DEF Slot
  <2>2. /\ [i \in Slot |-> Short] \in [Slot -> Puzzle \cup {Short}]
        /\ [c \in Consumer |-> Short] \in [Consumer -> Puzzle \cup {Short}]
        /\ [c \in Consumer |-> 0] \in [Consumer -> Slot]
    BY <2>1
  <2>3. /\ names \in Seq(Seq(Puzzle \cup {Short}) \cup {Missing})
        /\ file_list \in Seq(Seq(Puzzle \cup {Short}) \cup {Missing})
        /\ lines \in Seq(Puzzle \cup {Short})
        /\ filled \in Seq(Puzzle) /\ printed \in Seq(Puzzle)
    BY PipelineConstants DEF Init
  <2>4. consumer \in [Consumer -> {"ready", "toWait", "waitFull", "solving", "waitTurn", "exited"}]
    BY DEF Init
  <2>5. /\ buf \in [Slot -> Puzzle \cup {Short}] /\ board \in [Consumer -> Puzzle \cup {Short}]
        /\ myturn \in [Consumer -> Slot]
    BY <2>2 DEF Init
  <2>6. /\ n_data \in 0..n_pthread /\ signals \in 0..n_pthread /\ total \in Nat
        /\ use_ptr \in Slot /\ fill_ptr \in Slot /\ cur_print \in Slot
    BY <2>1 DEF Init
  <2>7. /\ fileThread = "reading" /\ producer = "names"
        /\ flag_end_file \in BOOLEAN /\ data_empty \in BOOLEAN
    BY DEF Init
  <2> QED BY <2>3, <2>4, <2>5, <2>6, <2>7 DEF TypeOK
<1>2. Busy = {}
  BY DEF Init, Busy
<1>3. Len(filled) = 0 /\ Len(printed) = 0 /\ total = 0 /\ n_data = 0
  BY DEF Init
<1>4. 0 % n_pthread = 0
  BY PipelineConstants
<1>5. Work
  <2>1. Pointers
    BY <1>3, <1>4 DEF Init, Pointers
  <2>2. RingHoldsRest
    BY <1>3 DEF RingHoldsRest
  <2>3. Turns
    BY <1>2, <1>3, FS_EmptySet DEF Turns
  <2>4. OrderedOutput
    BY DEF Init, OrderedOutput
  <2> QED BY <2>1, <2>2, <2>3, <2>4 DEF Work
<1>6. TurnIsAwake /\ NoSleepWithRoom
  BY DEF Init, TurnIsAwake, NoSleepWithRoom, Sleepers
<1> QED BY <1>1, <1>5, <1>6 DEF IInv

LEMMA NextIInv == ASSUME IInv, [Next]_vars PROVE IInv'
<1>1. CASE FileThread
  BY <1>1, FileThreadKeeps
<1>2. CASE Producer
  BY <1>2, ProducerAsideKeeps, FillLineKeeps DEF Producer, ProducerAside
<1>3. CASE SpuriousWakeup
  BY <1>3, SpuriousKeeps
<1>4. ASSUME NEW c \in Consumer, Consume(c) PROVE IInv'
  BY <1>4, ConsumeAsideKeeps, GetPuzzleKeeps, PrintSolutionKeeps DEF Consume, ConsumeAside
<1>5. CASE UNCHANGED vars
  <2>1. Idle
    BY <1>5 DEF Idle, IInv, TypeOK, Places, vars, ringVars, printVars
  <2>2. Work'
    BY <2>1, IdleKeepsWork DEF IInv
  <2>3. TypeOK'
    BY <1>5 DEF IInv, TypeOK, vars, fileVars, prodVars, ringVars, printVars
  <2>4. TurnIsAwake' /\ NoSleepWithRoom'
    BY <1>5 DEF IInv, TurnIsAwake, NoSleepWithRoom, Sleepers, vars, prodVars, ringVars, printVars
  <2> QED BY <2>2, <2>3, <2>4 DEF IInv
<1> QED BY <1>1, <1>2, <1>3, <1>4, <1>5 DEF Next

\* Every part of IInv holds in every state the pipeline reaches.
THEOREM Invariant == Spec => []IInv
<1>1. Init => IInv
  BY InitIInv
<1>2. IInv /\ [Next]_vars => IInv'
  BY NextIInv
<1> QED BY <1>1, <1>2, PTL DEF Spec

\* Every variable keeps its type: the ring has n_pthread slots and never more
\* puzzles, and its pointers and the turns stay below n_pthread.
THEOREM TypeCorrect == Spec => []TypeOK
<1>1. IInv => TypeOK
  BY DEF IInv
<1> QED BY <1>1, Invariant, PTL

\* With any number of consumers, solutions are printed in the order of the
\* input, none twice and none skipped.
THEOREM OutputInOrder == Spec => []OrderedOutput
<1>1. IInv => OrderedOutput
  BY DEF IInv, Work
<1> QED BY <1>1, Invariant, PTL

\* The producer never overwrites a puzzle that is not taken yet.
THEOREM RingIsExact == Spec => []RingHoldsRest
<1>1. IInv => RingHoldsRest
  BY DEF IInv, Work
<1> QED BY <1>1, Invariant, PTL

\* The signal to print_order always reaches the consumer whose turn it is: it
\* never sleeps.
THEOREM NextPrinterAwake == Spec => []TurnIsAwake
<1>1. IInv => TurnIsAwake
  BY DEF IInv
<1> QED BY <1>1, Invariant, PTL

\* The producer never sleeps on empty while the ring has room.
THEOREM ProducerSleepsFull == Spec => []NoSleepWithRoom
<1>1. IInv => NoSleepWithRoom
  BY DEF IInv
<1> QED BY <1>1, Invariant, PTL
=============================================================================
