--------------------------- MODULE SudokuPipeline ---------------------------
(***************************************************************************)
(* The threaded pipeline of Lab1 (Lab1/src/Sudoku/main.cc): get_file reads *)
(* file names, the producer reads the puzzles of each file into a ring of  *)
(* n_pthread slots, n_pthread consumers solve them and print the solutions *)
(* in the order of the input.                                              *)
(*                                                                         *)
(* A critical section that keeps its mutex from lock to unlock or wait is  *)
(* one step.  Where the code touches shared flags without the mutex their  *)
(* readers hold (flag_end_file, data_empty), the test of the flag and the  *)
(* wait that follows are two steps, the mutex held in between.             *)
(*                                                                         *)
(* A thread woken from a wait goes back to the lock and repeats its test.  *)
(* What solve_sudoku_dancing_links computes is left out: a puzzle stands   *)
(* for its solution.                                                       *)
(***************************************************************************)
EXTENDS Naturals, Sequences, FiniteSets

CONSTANTS
  Consumer,   \* the solver threads
  n_pthread,  \* their number, and the number of slots
  Puzzle,     \* lines of 81 characters or more
  Short,      \* a shorter line
  Input,      \* the files named on standard input, each a sequence of lines
  Missing     \* a name of no file

ASSUME PipelineConstants ==
  /\ n_pthread \in Nat \ {0}
  /\ IsFiniteSet(Consumer) /\ Cardinality(Consumer) = n_pthread
  /\ Short \notin Puzzle
  /\ Input \in Seq(Seq(Puzzle \cup {Short}) \cup {Missing})

VARIABLES
  fileThread,     \* where get_file is
  names,          \* what standard input still holds
  file_list,      \* names read and not yet opened
  flag_end_file,  \* standard input is at its end
  producer,       \* where the producer is
  lines,          \* what the open file still holds
  data_empty,     \* no more puzzles will come
  signals,        \* final signals of the producer still to be sent
  consumer,       \* where each consumer is
  buf, n_data, use_ptr, fill_ptr,   \* the ring
  total,          \* puzzles taken from the ring
  myturn,         \* myturn[c]: the turn of c's puzzle
  board,          \* board[c]: the puzzle of c
  cur_print,      \* the turn that prints next
  filled,         \* history: the puzzles put in the ring
  printed         \* the puzzles printed

fileVars  == <<fileThread, names>>
prodVars  == <<producer, lines, signals>>
ringVars  == <<buf, n_data, use_ptr, fill_ptr, total, filled>>
printVars == <<cur_print, printed>>
vars == <<fileVars, file_list, flag_end_file, prodVars, data_empty, consumer,
          ringVars, myturn, board, printVars>>

Slot == 0..(n_pthread - 1)

Init ==
  /\ fileThread = "reading" /\ names = Input
  /\ file_list = <<>> /\ flag_end_file = FALSE
  /\ producer = "names" /\ lines = <<>> /\ signals = 0
  /\ data_empty = FALSE
  /\ consumer = [c \in Consumer |-> "ready"]
  /\ buf = [i \in Slot |-> Short]
  /\ n_data = 0 /\ use_ptr = 0 /\ fill_ptr = 0 /\ total = 0
  /\ myturn = [c \in Consumer |-> 0]
  /\ board = [c \in Consumer |-> Short]
  /\ cur_print = 0
  /\ filled = <<>> /\ printed = <<>>

---------------------------------------------------------------------------
(* Mutexes and condition variables                                         *)

\* lock_file is held across steps only by the producer.
FileFree == producer \notin {"toWait", "closing"}

\* file_buf is held across steps only by a consumer about to wait.
BufFree == \A c \in Consumer : consumer[c] # "toWait"

\* pthread_cond_signal(&fileout), (&empty), (&full) and (&print_order[t]).
ProducerAfterFileout == IF producer = "waitFile" THEN "names" ELSE producer

ProducerAfterEmpty == IF producer = "waitEmpty" THEN "fill" ELSE producer

Sleepers(place) == {c \in Consumer : consumer[c] = place}

SignalFull(cs) ==
  IF Sleepers("waitFull") = {} THEN cs = consumer
  ELSE \E c \in Sleepers("waitFull") : cs = [consumer EXCEPT ![c] = "ready"]

WakesNone(t) == {}

\* The sleepers on print_order[t].
WaitsFor(t) == {c \in Sleepers("waitTurn") : myturn[c] = t}

---------------------------------------------------------------------------
(* get_file                                                                *)

PushName ==
  /\ fileThread = "reading" /\ names # <<>> /\ FileFree
  /\ file_list' = Append(file_list, Head(names))
  /\ names' = Tail(names)
  /\ producer' = ProducerAfterFileout
  /\ UNCHANGED <<fileThread, flag_end_file, lines, signals, data_empty,
                 consumer, ringVars, myturn, board, printVars>>

\* The end of standard input: the flag is set without lock_file ...
SetEndFile ==
  /\ fileThread = "reading" /\ names = <<>>
  /\ flag_end_file' = TRUE
  /\ fileThread' = "signal"
  /\ UNCHANGED <<names, file_list, prodVars, data_empty, consumer,
                 ringVars, myturn, board, printVars>>

\* ... and so is the signal sent.
SignalEndFile ==
  /\ fileThread = "signal"
  /\ fileThread' = "exited"
  /\ producer' = ProducerAfterFileout
  /\ UNCHANGED <<names, file_list, flag_end_file, lines, signals, data_empty,
                 consumer, ringVars, myturn, board, printVars>>

---------------------------------------------------------------------------
(* producer                                                                *)

OpenFile ==
  /\ producer = "names" /\ file_list # <<>>
  /\ file_list' = Tail(file_list)
  /\ IF Head(file_list) = Missing
     THEN UNCHANGED <<producer, lines>>
     ELSE producer' = "fill" /\ lines' = Head(file_list)
  /\ UNCHANGED <<fileVars, flag_end_file, signals, data_empty, consumer,
                 ringVars, myturn, board, printVars>>

\* No name and no end yet: about to wait on fileout, lock_file held.
SeeNoName ==
  /\ producer = "names" /\ file_list = <<>> /\ ~flag_end_file
  /\ producer' = "toWait"
  /\ UNCHANGED <<fileVars, file_list, flag_end_file, lines, signals, data_empty,
                 consumer, ringVars, myturn, board, printVars>>

WaitFileout ==
  /\ producer = "toWait"
  /\ producer' = "waitFile"
  /\ UNCHANGED <<fileVars, file_list, flag_end_file, lines, signals, data_empty,
                 consumer, ringVars, myturn, board, printVars>>

\* The last file is done: data_empty is set without file_buf.
SetDataEmpty ==
  /\ producer = "names" /\ file_list = <<>> /\ flag_end_file
  /\ data_empty' = TRUE
  /\ producer' = "closing"
  /\ signals' = n_pthread
  /\ UNCHANGED <<fileVars, file_list, flag_end_file, lines, consumer,
                 ringVars, myturn, board, printVars>>

\* One of the n_pthread signals that are to wake the waiting consumers.
SignalClosing ==
  /\ producer = "closing" /\ signals > 0
  /\ SignalFull(consumer')
  /\ signals' = signals - 1
  /\ UNCHANGED <<fileVars, file_list, flag_end_file, producer, lines, data_empty,
                 ringVars, myturn, board, printVars>>

ExitProducer ==
  /\ producer = "closing" /\ signals = 0
  /\ producer' = "exited"
  /\ UNCHANGED <<fileVars, file_list, flag_end_file, lines, signals, data_empty,
                 consumer, ringVars, myturn, board, printVars>>

WaitEmpty ==
  /\ producer = "fill" /\ BufFree /\ n_data = n_pthread
  /\ producer' = "waitEmpty"
  /\ UNCHANGED <<fileVars, file_list, flag_end_file, lines, signals, data_empty,
                 consumer, ringVars, myturn, board, printVars>>

HasRoomLate == n_data <= n_pthread

\* The test before a slot is written.
HasRoom == n_data # n_pthread

\* A line: a puzzle goes to the ring, a short one is skipped; full is signalled.
FillLine ==
  /\ producer = "fill" /\ BufFree /\ HasRoom /\ lines # <<>>
  /\ lines' = Tail(lines)
  /\ IF Head(lines) \in Puzzle
     THEN /\ buf' = [buf EXCEPT ![fill_ptr] = Head(lines)]
          /\ fill_ptr' = (fill_ptr + 1) % n_pthread
          /\ n_data' = n_data + 1
          /\ filled' = Append(filled, Head(lines))
     ELSE UNCHANGED <<buf, fill_ptr, n_data, filled>>
  /\ SignalFull(consumer')
  /\ UNCHANGED <<fileVars, file_list, flag_end_file, producer, signals, data_empty,
                 use_ptr, total, myturn, board, printVars>>

EndOfFile ==
  /\ producer = "fill" /\ BufFree /\ n_data # n_pthread /\ lines = <<>>
  /\ producer' = "names"
  /\ UNCHANGED <<fileVars, file_list, flag_end_file, lines, signals, data_empty,
                 consumer, ringVars, myturn, board, printVars>>

---------------------------------------------------------------------------
(* consumed_solver                                                         *)

\* The turn of the n-th puzzle taken.
Turn(n) == (n - 1) % n_pthread

\* get(), and the turn of the puzzle got.
GetPuzzle(c) ==
  /\ consumer[c] = "ready" /\ BufFree /\ n_data > 0
  /\ total' = total + 1
  /\ myturn' = [myturn EXCEPT ![c] = Turn(total')]
  /\ board' = [board EXCEPT ![c] = buf[use_ptr]]
  /\ use_ptr' = (use_ptr + 1) % n_pthread
  /\ n_data' = n_data - 1
  /\ producer' = ProducerAfterEmpty
  /\ consumer' = [consumer EXCEPT ![c] = "solving"]
  /\ UNCHANGED <<fileVars, file_list, flag_end_file, lines, signals, data_empty,
                 buf, fill_ptr, filled, printVars>>

ExitConsumer(c) ==
  /\ consumer[c] = "ready" /\ BufFree /\ n_data = 0 /\ data_empty
  /\ consumer' = [consumer EXCEPT ![c] = "exited"]
  /\ UNCHANGED <<fileVars, file_list, flag_end_file, prodVars, data_empty,
                 ringVars, myturn, board, printVars>>

\* No puzzle and data_empty not seen: about to wait on full, file_buf held.
SeeNoData(c) ==
  /\ consumer[c] = "ready" /\ BufFree /\ n_data = 0 /\ ~data_empty
  /\ consumer' = [consumer EXCEPT ![c] = "toWait"]
  /\ UNCHANGED <<fileVars, file_list, flag_end_file, prodVars, data_empty,
                 ringVars, myturn, board, printVars>>

WaitFull(c) ==
  /\ consumer[c] = "toWait"
  /\ consumer' = [consumer EXCEPT ![c] = "waitFull"]
  /\ UNCHANGED <<fileVars, file_list, flag_end_file, prodVars, data_empty,
                 ringVars, myturn, board, printVars>>

AnyTurn(c) == TRUE

\* The loop condition before printing.
IsTurn(c) == myturn[c] = cur_print

WaitTurn(c) ==
  /\ consumer[c] = "solving" /\ myturn[c] # cur_print
  /\ consumer' = [consumer EXCEPT ![c] = "waitTurn"]
  /\ UNCHANGED <<fileVars, file_list, flag_end_file, prodVars, data_empty,
                 ringVars, myturn, board, printVars>>

\* Print, pass the turn on and wake the consumer that has it, if it sleeps.
PrintSolution(c) ==
  /\ consumer[c] = "solving" /\ IsTurn(c)
  /\ printed' = Append(printed, board[c])
  /\ cur_print' = (cur_print + 1) % n_pthread
  /\ LET next == WaitsFor((myturn[c] + 1) % n_pthread)
         back == [consumer EXCEPT ![c] = "ready"]
     IN  IF next = {} THEN consumer' = back
         ELSE \E d \in next : consumer' = [back EXCEPT ![d] = "solving"]
  /\ UNCHANGED <<fileVars, file_list, flag_end_file, prodVars, data_empty,
                 ringVars, myturn, board>>

\* pthread_cond_wait may return without a signal.
SpuriousWakeup ==
  /\ \/ /\ producer \in {"waitFile", "waitEmpty"}
        /\ producer' = IF producer = "waitFile" THEN "names" ELSE "fill"
        /\ consumer' = consumer
     \/ /\ \E c \in Sleepers("waitFull") : consumer' = [consumer EXCEPT ![c] = "ready"]
        /\ producer' = producer
     \/ /\ \E c \in Sleepers("waitTurn") : consumer' = [consumer EXCEPT ![c] = "solving"]
        /\ producer' = producer
  /\ UNCHANGED <<fileVars, file_list, flag_end_file, lines, signals, data_empty,
                 ringVars, myturn, board, printVars>>

FileThread == PushName \/ SetEndFile \/ SignalEndFile

Producer ==
  \/ OpenFile \/ SeeNoName \/ WaitFileout \/ SetDataEmpty \/ SignalClosing
  \/ ExitProducer \/ WaitEmpty \/ FillLine \/ EndOfFile

Consume(c) ==
  \/ GetPuzzle(c) \/ ExitConsumer(c) \/ SeeNoData(c) \/ WaitFull(c)
  \/ WaitTurn(c) \/ PrintSolution(c)

Next == FileThread \/ Producer \/ SpuriousWakeup \/ \E c \in Consumer : Consume(c)

Spec == Init /\ [][Next]_vars

\* Every thread that can take a step again and again takes one: no mutex
\* starves a thread for ever.
FairSpec ==
  /\ Spec
  /\ SF_vars(FileThread) /\ SF_vars(Producer)
  /\ \A c \in Consumer : SF_vars(Consume(c))

---------------------------------------------------------------------------
(* Properties                                                              *)

\* Every variable keeps its type.
TypeOK ==
  /\ fileThread \in {"reading", "signal", "exited"}
  /\ names \in Seq(Seq(Puzzle \cup {Short}) \cup {Missing})
  /\ file_list \in Seq(Seq(Puzzle \cup {Short}) \cup {Missing})
  /\ flag_end_file \in BOOLEAN /\ data_empty \in BOOLEAN
  /\ producer \in {"names", "toWait", "waitFile", "closing", "exited", "fill", "waitEmpty"}
  /\ lines \in Seq(Puzzle \cup {Short})
  /\ signals \in 0..n_pthread
  /\ consumer \in [Consumer -> {"ready", "toWait", "waitFull", "solving", "waitTurn", "exited"}]
  /\ buf \in [Slot -> Puzzle \cup {Short}]
  /\ n_data \in 0..n_pthread
  /\ use_ptr \in Slot /\ fill_ptr \in Slot /\ cur_print \in Slot
  /\ total \in Nat
  /\ myturn \in [Consumer -> Slot]
  /\ board \in [Consumer -> Puzzle \cup {Short}]
  /\ filled \in Seq(Puzzle) /\ printed \in Seq(Puzzle)

\* Solutions are printed in the order of the puzzles, none skipped and none
\* twice, although consumers solve at once and sleep on n_pthread conditions.
OrderedOutput ==
  /\ Len(printed) <= Len(filled)
  /\ \A i \in DOMAIN printed : printed[i] = filled[i]

\* The slots between use_ptr and fill_ptr hold the puzzles not yet taken, oldest
\* first: the producer never overwrites one.
RingHoldsRest ==
  /\ Len(filled) = total + n_data
  /\ \A i \in 1..n_data : buf[(use_ptr + i - 1) % n_pthread] = filled[total + i]

\* The consumer whose turn it is never sleeps: the signal to print_order[next]
\* is never lost and never goes to another puzzle's consumer.
TurnIsAwake == \A c \in Sleepers("waitTurn") : myturn[c] # cur_print

\* The producer sleeps on empty only while the ring is full.
NoSleepWithRoom == producer = "waitEmpty" => n_data = n_pthread

\* All input is read and all of it printed in the end, whatever the last
\* wake-ups do: consumers drain the ring before they look at data_empty.
AllPrinted ==
  <>[](names = <<>> /\ file_list = <<>> /\ lines = <<>> /\ printed = filled)

\* "Wait for all threads to finish": every consumer leaves its loop.
ConsumersExit == <>(\A c \in Consumer : consumer[c] = "exited")
=============================================================================
