----------------------------- MODULE RespStream -----------------------------
(***************************************************************************)
(* Bytes between the Lab3 router and a server: the RESP encoding, its      *)
(* decoding, the reads that cut a stream anywhere, the log of texts and    *)
(* what a follower is sent of it.                                          *)
(*                                                                         *)
(* A byte is a character, or a word that no test of the code looks into; a *)
(* word is a sequence of bytes and a command a sequence of words.  One     *)
(* user types commands at the router; the server reads, runs and answers   *)
(* them; the router reads the answers.  Both sides use the same encodeResp *)
(* and decodeResp (SinglePC.cpp, func.cpp).  Of the server's table the     *)
(* commands that speak to other servers and showServer, which answers      *)
(* nothing, are left to the modules about connections.                     *)
(***************************************************************************)
EXTENDS Integers, FiniteSets, Sequences

CONSTANTS
  Line,          \* commands the user may type
  MaxLines,      \* bound: commands typed
  BufferSize     \* bytes a read of the server returns at most

(***************************************************************************)
(* The names of the command table, and the word runCommand looks for.      *)
(***************************************************************************)

Set     == <<"set">>
Get     == <<"get">>
Del     == <<"del">>
FlushDb == <<"flushDb">>

\* They write to the server's terminal and change nothing.
Shows == {<<"showOldCmds">>, <<"showClients">>, <<"showCmdTable">>}

\* The rest of the table: not modelled here.
Elsewhere == {<<"showServer">>, <<"slaveof">>, <<"beMy">>, <<"otherFollower">>,
              <<"SYN">>, <<"ACK">>, <<"APPLY">>, <<"VOTE">>}

Onetime == <<"onetime">>

\* The bytes \r and \n.
CR == "CR"
LF == "LF"
CRLF == <<CR, LF>>

\* No word has one of the bytes that strtok or decodeResp look for.
Special == {"*", "$", CR, LF}

ASSUME RespConstants ==
  /\ \A line \in Line : line \in Seq(Seq(STRING)) /\ line # <<>> /\ \A i \in DOMAIN line :
       /\ line[i] # <<>> /\ line[i] \notin Elsewhere
       /\ \A j \in DOMAIN line[i] : line[i][j] \notin Special
  /\ MaxLines \in Nat /\ BufferSize \in Nat \ {0}

VARIABLES
  entered,       \* history: the commands typed
  toServer,      \* bytes from the router to the server
  store,         \* RedisCommand::store; no words for no entry
  oldCmds,       \* the log: texts of packets
  bufferWrite,   \* the answer last filled in; it stays there when written
  armed,         \* what epoll waits for: to read, to write, or nothing
  toRouter,      \* bytes from the server to the router
  ran,           \* history: the commands run; argv holds the last
  logged,        \* history: of each entry, the command run and whether the
                 \* read had no other piece
  printed,       \* history: what the router printed
  tidy,          \* history: each read returned just one packet so far
  crashed        \* argv[0] was read although argv is empty

serverVars == <<store, oldCmds, ran, logged>>
streamVars == <<entered, toServer, serverVars, bufferWrite, armed, toRouter, printed,
                tidy, crashed>>

---------------------------------------------------------------------------
(* encodeResp and decodeResp                                               *)

Digit == <<"0", "1", "2", "3", "4", "5", "6", "7", "8", "9">>

\* to_string
ToDigits(n) ==
  LET digits[m \in 0..n] ==
        IF m < 10 THEN <<Digit[m + 1]>> ELSE Append(digits[m \div 10], Digit[(m % 10) + 1])
  IN  digits[n]

Bulk(word) == <<"$">> \o ToDigits(Len(word)) \o CRLF \o word \o CRLF

\* encodeResp of {"*", "$", command[1], "$", command[2], ...}
EncodeResp(command) ==
  LET bulks[i \in 0..Len(command)] == IF i = 0 THEN <<>> ELSE bulks[i - 1] \o Bulk(command[i])
  IN  <<"*">> \o ToDigits(Len(command)) \o CRLF \o bulks[Len(command)]

\* One round of decodeResp's loop.  What it has of a word is pushed at the
\* carriage return behind it.
NextByte(s, b) ==
  CASE b = CR /\ s.str -> [s EXCEPT !.dollar = FALSE, !.str = FALSE, !.ret = Append(@, s.text)]
    [] b = LF /\ s.dollar -> [s EXCEPT !.str = TRUE, !.text = <<>>]
    [] b = "$" -> [s EXCEPT !.dollar = TRUE]
    [] OTHER -> IF s.str THEN [s EXCEPT !.text = Append(@, b)] ELSE s

\* What decodeResp's loop leaves.  A simple answer is its own first word, and the
\* loop runs over it too.
Decoded(bytes) ==
  LET simple == IF bytes[1] \in {"+", "-", ":"} THEN <<SubSeq(bytes, 2, Len(bytes) - 2)>> ELSE <<>>
      start  == [dollar |-> FALSE, str |-> FALSE, text |-> <<>>, ret |-> simple]
      after[i \in 1..Len(bytes)] == IF i = 1 THEN start ELSE NextByte(after[i - 1], bytes[i])
  IN  IF bytes[1] \in {"+", "-", ":", "*"} THEN after[Len(bytes)] ELSE start

DecodeAll(bytes) ==
  LET d == Decoded(bytes) IN IF d.str THEN Append(d.ret, d.text) ELSE d.ret

DecodeResp(bytes) == Decoded(bytes).ret

\* The pieces up to the byte at i: it is a star, starts a piece or belongs to the last.
NextPieces(pieces, buffer, i) ==
  CASE buffer[i] = "*" -> pieces
    [] buffer[i] # "*" /\ (i = 1 \/ buffer[i - 1] = "*") -> Append(pieces, <<buffer[i]>>)
    [] OTHER -> [pieces EXCEPT ![Len(pieces)] = Append(@, buffer[i])]

\* strtok(buffer, "*"): the pieces between stars, the empty ones left out.
Strtok(buffer) ==
  LET upTo[i \in 0..Len(buffer)] == IF i = 0 THEN <<>> ELSE NextPieces(upTo[i - 1], buffer, i)
  IN  upTo[Len(buffer)]

\* string(bufferRead) once strtok has put a NUL behind the first piece.
FirstText(buffer) ==
  LET ends == {i \in DOMAIN buffer : i > 1 /\ buffer[i] = "*" /\ buffer[i - 1] # "*"}
  IN  IF ends = {} THEN buffer
      ELSE SubSeq(buffer, 1, (CHOOSE i \in ends : \A j \in ends : i <= j) - 1)

---------------------------------------------------------------------------
(* The commands                                                            *)

Simple(sign, word) == <<sign>> \o word \o CRLF

Ok      == Simple("+", <<"OK">>)
Error   == Simple("-", <<"ERROR">>)
Missing == Simple("-", <<"MISSING">>)

Words == UNION {{line[i] : i \in DOMAIN line} : line \in Line}

Arguments(argv) == {argv[i] : i \in 2..Len(argv)}

Stored(st, keys) == {k \in keys : st.store[k] # <<>>}

AnswerError(st) == [st EXCEPT !.bufferWrite = Error]

\* The text goes to the log.
LogText(st, argv, text) ==
  [st EXCEPT !.oldCmds = Append(@, text),
             !.logged = Append(@, [argv |-> argv, alone |-> st.alone])]

FirstWord(argv) == <<argv[3]>>

\* The words behind the key, which the store joins with blanks.
Value(argv) == SubSeq(argv, 3, Len(argv))

SetCommand(st, argv, text) ==
  IF Len(argv) < 3 THEN AnswerError(st)
  ELSE [LogText(st, argv, text) EXCEPT
          !.store[argv[2]] = Value(argv), !.bufferWrite = Ok]

GetCommand(st, argv) ==
  IF Len(argv) # 2 THEN AnswerError(st)
  ELSE [st EXCEPT !.bufferWrite =
          EncodeResp(IF st.store[argv[2]] # <<>> THEN st.store[argv[2]] ELSE <<<<"nil">>>>)]

DelCommand(st, argv, text) ==
  IF Len(argv) <= 1 THEN AnswerError(st)
  ELSE [LogText(st, argv, text) EXCEPT
          !.store = [k \in Words |-> IF k \in Arguments(argv) THEN <<>> ELSE @[k]],
          !.bufferWrite = Simple(":", ToDigits(Cardinality(Stored(st, Arguments(argv)))))]

FlushDbCommand(st, argv, text) ==
  [LogText(st, argv, text) EXCEPT !.store = [k \in Words |-> <<>>], !.bufferWrite = Ok]

\* runCommand's round for one piece of a read; text is what the buffer holds.
RunPiece(st, piece, text) ==
  LET argv == DecodeResp(<<"*">> \o piece)
      seen == [st EXCEPT !.ran = Append(@, argv)]
  IN  CASE st.crashed                   -> st
        [] ~st.crashed /\ argv = <<>>  -> [st EXCEPT !.crashed = TRUE]
        [] OTHER                        ->
             CASE argv[1] = Set      -> SetCommand(seen, argv, text)
               [] argv[1] = Get      -> GetCommand(seen, argv)
               [] argv[1] = Del      -> DelCommand(seen, argv, text)
               [] argv[1] = FlushDb  -> FlushDbCommand(seen, argv, text)
               [] argv[1] \in Shows -> [seen EXCEPT !.bufferWrite = Ok]
               [] OTHER              -> [seen EXCEPT !.bufferWrite = Missing]

\* A command whose second word is onetime gets no answer.
Answered(argv) == Len(argv) <= 1 \/ argv[2] # Onetime

\* What runCommand arms behind the last round: argv is the last one run, also
\* when the read had no piece at all.
Arms(commands) ==
  IF commands = <<>> \/ Answered(commands[Len(commands)]) THEN "out" ELSE "in"

CutOneLess(head, cnt) == SubSeq(head, 1, Len(head) - 7 * (cnt - 1))

\* The packet without its last cnt words of one byte.
Cut(head, cnt) == SubSeq(head, 1, Len(head) - 7 * cnt)

\* heartBeat_send of SYN for the entry at offset: a packet is encoded with a
\* question mark for each word of the entry, these are cut off again, and the
\* entry's text from its first "$" is put in their place.
HeartBeatSend(offset) ==
  LET text    == oldCmds[offset]
      dollars == {i \in DOMAIN text : text[i] = "$"}
      first   == CHOOSE i \in dollars : \A j \in dollars : i <= j
      head    == EncodeResp(<<<<"SYN">>, <<"times">>, ToDigits(offset)>>
                            \o [i \in 1..Cardinality(dollars) |-> <<"?">>])
  IN  Cut(head, Cardinality(dollars)) \o SubSeq(text, first, Len(text))

---------------------------------------------------------------------------
(* The router and the server                                               *)

StreamInit ==
  /\ entered = <<>> /\ toServer = <<>> /\ toRouter = <<>>
  /\ store = [k \in Words |-> <<>>] /\ oldCmds = <<>>
  /\ bufferWrite = <<>> /\ armed = "in"
  /\ ran = <<>> /\ logged = <<>> /\ printed = <<>>
  /\ tidy = TRUE /\ crashed = FALSE

\* STDINRunCommand: the words of a line are encoded and sent.
STDINRunCommand(line) ==
  /\ ~crashed /\ Len(entered) < MaxLines
  /\ entered' = Append(entered, line)
  /\ toServer' = toServer \o EncodeResp(line)
  /\ UNCHANGED <<serverVars, bufferWrite, armed, toRouter, printed, tidy, crashed>>

IsNextPacket(bytes) ==
  /\ Len(ran) < Len(entered)
  /\ bytes = EncodeResp(entered[Len(ran) + 1])

\* clientRead and runCommand: n bytes have arrived and are run, piece by piece.
ClientRead(n) ==
  /\ ~crashed /\ armed = "in"
  /\ n <= Len(toServer)
  /\ LET buffer == SubSeq(toServer, 1, n)
         before == [store |-> store, oldCmds |-> oldCmds, bufferWrite |-> bufferWrite,
                    ran |-> ran, logged |-> logged, crashed |-> FALSE,
                    alone |-> Len(Strtok(buffer)) = 1]
         pieces == Strtok(buffer)
         after[i \in 0..Len(pieces)] ==
           IF i = 0 THEN before ELSE RunPiece(after[i - 1], pieces[i], FirstText(buffer))
         done   == after[Len(pieces)]
     IN  /\ store' = done.store /\ oldCmds' = done.oldCmds
         /\ bufferWrite' = done.bufferWrite /\ armed' = Arms(done.ran)
         /\ ran' = done.ran /\ logged' = done.logged /\ crashed' = done.crashed
         /\ tidy' = (tidy /\ IsNextPacket(buffer))
  /\ toServer' = SubSeq(toServer, n + 1, Len(toServer))
  /\ UNCHANGED <<entered, toRouter, printed>>

\* clientWrite: the answer to the last piece goes out.  Where none was ever filled
\* in, write returns 0 and nothing is armed again.
ClientWrite ==
  /\ ~crashed /\ armed = "out"
  /\ toRouter' = toRouter \o bufferWrite
  /\ armed' = IF bufferWrite = <<>> THEN "none" ELSE "in"
  /\ tidy' = (tidy /\ toRouter = <<>>)
  /\ UNCHANGED <<entered, toServer, serverVars, bufferWrite, printed, crashed>>

\* The router's runCommand: what was read is one answer to it.
RunAnswer ==
  /\ ~crashed /\ toRouter # <<>>
  /\ printed' = Append(printed, DecodeResp(toRouter))
  /\ toRouter' = <<>>
  /\ UNCHANGED <<entered, toServer, serverVars, bufferWrite, armed, tidy, crashed>>

StreamNext ==
  \/ \E line \in Line : STDINRunCommand(line)
  \/ \E n \in 1..BufferSize : ClientRead(n)
  \/ ClientWrite
  \/ RunAnswer

StreamSpec == StreamInit /\ [][StreamNext]_streamVars

---------------------------------------------------------------------------
(* Properties                                                              *)

IsSegment(argv, command) ==
  \E from \in DOMAIN command : \E to \in from..Len(command) : argv = SubSeq(command, from, to)

\* Wherever reads cut the stream, no word is ever torn or joined with another:
\* what is run is a contiguous part of one command typed.
RunsSegments == \A i \in DOMAIN ran : \E j \in DOMAIN entered : IsSegment(ran[i], entered[j])

\* What a follower is sent of an entry decodes to the command the leader ran for
\* it, also when a read had cut its text, before its end or behind its start.
\* (A read of several packets logs the text of the first for each of them: the
\* finding of KvReplication.)
EntryReplays ==
  \A i \in DOMAIN logged : logged[i].alone =>
    LET wire == HeartBeatSend(i) \o EncodeResp(<<<<"SYN">>>>)
    IN  DecodeResp(<<"*">> \o Strtok(wire)[1])
          = <<<<"SYN">>, <<"times">>, ToDigits(i)>> \o logged[i].argv

IsWrite(c) ==
  (c[1] = Set /\ Len(c) >= 3) \/ (c[1] = Del /\ Len(c) >= 2) \/ c[1] = FlushDb

\* The keys c gives a value or takes one from.
KeysOf(c) ==
  CASE c[1] = Set -> {c[2]}
    [] c[1] = Del -> Arguments(c)
    [] OTHER      -> Words

\* The value a key has before the i-th command typed: its last write's.
ValueBefore(i, k) ==
  LET writes == {j \in 1..i - 1 : IsWrite(entered[j]) /\ k \in KeysOf(entered[j])}
      last   == entered[CHOOSE j \in writes : \A h \in writes : h <= j]
  IN  IF writes = {} \/ last[1] # Set THEN <<>> ELSE SubSeq(last, 3, Len(last))

\* The answer the user expects to the i-th command.
Expected(i) ==
  LET c == entered[i]
  IN  CASE (c[1] = Set /\ IsWrite(c)) \/ c[1] = FlushDb \/ c[1] \in Shows -> <<<<"OK">>>>
        [] c[1] = Del /\ IsWrite(c) ->
             <<ToDigits(Cardinality({k \in Arguments(c) : ValueBefore(i, k) # <<>>}))>>
        [] c[1] = Get /\ Len(c) = 2 ->
             IF ValueBefore(i, c[2]) # <<>> THEN ValueBefore(i, c[2]) ELSE <<<<"nil">>>>
        [] c[1] \notin {Set, Get, Del, FlushDb} \cup Shows -> <<<<"MISSING">>>>
        [] OTHER -> <<<<"ERROR">>>>

\* How many answers are due up to the i-th command.
Due(i) == Cardinality({j \in 1..i : Answered(entered[j])})

\* As long as each read returns just one packet, the user reads just the answers
\* to what was typed, one by one and in its order, and none to a command whose
\* second word is onetime, although that is run like the others: values come back
\* word for word through two encodings, the store, which joins them with blanks,
\* and the router's decoding.
AnswersFit ==
  tidy =>
    /\ Len(printed) <= Due(Len(ran))
    /\ \A i \in DOMAIN ran : Answered(entered[i]) /\ Due(i) <= Len(printed)
         => printed[Due(i)] = Expected(i)

---------------------------------------------------------------------------
(* What does not hold of the code (see Findings in the README)             *)

\* A read that ends anywhere is survived.
SurvivesAnyCut == ~crashed

\* What is typed is run, in this order, however the bytes arrive.
RunsWhatWasTyped == \A i \in DOMAIN ran : i \in DOMAIN entered /\ ran[i] = entered[i]

\* Whoever waits for the answer to a command that was run gets it: it is still to be
\* written or read.
AllIsAnswered ==
  tidy /\ Len(printed) < Len(ran) => armed = "out" \/ toRouter # <<>>

===========================================================================
