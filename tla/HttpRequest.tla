---------------------------- MODULE HttpRequest ----------------------------
(***************************************************************************)
(* What a worker of the web server (Lab2/src) does with one connection:    *)
(* HttpCon::process reads the lines of the request byte by byte while they *)
(* arrive in pieces, and http_request reads the body, looks the path up    *)
(* and answers.  HttpServer has the workers and the descriptors.           *)
(*                                                                         *)
(* A byte is a character, or a word no test looks into.  File names begin  *)
(* with "static" or "data" for ./static/ and ./data/.  A line has LineSize *)
(* bytes at most, as buffers of 1024 hold; path, body and names fit their  *)
(* buffers, and the first line has a path.  send does not fail.            *)
(***************************************************************************)
EXTENDS Integers, FiniteSets, Sequences, SequencesExt

CONSTANTS
  Requests,  \* what clients send
  LineSize,  \* bytes in the buffer of a line
  Disk,      \* the size of each file, Directory for directories
  Plain,     \* bytes encode_str leaves as they are
  Code       \* the codes of bytes that are written as %xx

CR == "CR"
LF == "LF"
Directory == -1

NotFound       == <<"static", "404", ".", "html">>
NotImplemented == <<"static", "501", ".", "html">>
Index          == <<"static", "index", ".", "html">>
DataText       == <<"data", "data", ".", "txt">>
ErrorText      == <<"data", "error", ".", "txt">>

ASSUME RequestConstants ==
  /\ LineSize \in Nat \ {0}
  /\ {NotFound, NotImplemented, Index, DataText, ErrorText} \subseteq DOMAIN Disk
  /\ \A b \in DOMAIN Code : Code[b] \in 0..255
  /\ Requests \subseteq Seq(STRING)

\* encode_str can write any byte of a name below ./static/, each in its own way,
\* and no name ends with the "/" that is put behind directories.
ASSUME LinkableNames ==
  /\ Plain \cap {"%", " "} = {}
  /\ \A b, c \in DOMAIN Code : Code[b] = Code[c] => b = c
  /\ \A f \in DOMAIN Disk :
       /\ f \in Seq(STRING) /\ f # <<>> /\ Last(f) # "/"
       /\ f[1] = "static" => \A i \in 2..Len(f) : f[i] \in Plain \cup DOMAIN Code

VARIABLES
  request,   \* history: all the client sends
  closes,    \* the client closes when it has sent it
  toCome,    \* what is still under way
  arrived,   \* what recv finds
  pc,
  peek,      \* get_line looks at the byte after a CR
  buf,       \* the line get_line has read so far
  line,      \* the request line
  answer     \* what was sent

client      == <<request, closes>>
requestVars == <<client, toCome, arrived, pc, peek, buf, line, answer>>

NoAnswer == [status |-> 0]

RequestInit ==
  /\ request \in Requests /\ closes \in BOOLEAN
  /\ toCome = request /\ arrived = <<>>
  /\ pc = "requestLine" /\ peek = FALSE /\ buf = <<>> /\ line = <<>>
  /\ answer = NoAnswer

\* The network delivers what was sent in any pieces.
Arrive ==
  \E n \in 1..Len(toCome) :
    /\ arrived' = arrived \o SubSeq(toCome, 1, n)
    /\ toCome' = SubSeq(toCome, n + 1, Len(toCome))
    /\ UNCHANGED <<client, pc, peek, buf, line, answer>>

---------------------------------------------------------------------------
(* get_line and the header                                                 *)

NothingThere == arrived = <<>>

\* recv returns 0.
EndOfStream == arrived = <<>> /\ toCome = <<>> /\ closes

Reading  == pc \in {"requestLine", "header"}
LineRead == Len(buf) = LineSize \/ (buf # <<>> /\ Last(buf) = LF)

\* recv of a byte, which is looked into further when it is a CR ...
RecvByte ==
  /\ Reading /\ ~LineRead /\ ~peek /\ arrived # <<>>
  /\ arrived' = Tail(arrived)
  /\ peek' = (Head(arrived) = CR)
  /\ buf' = IF Head(arrived) = CR THEN buf ELSE Append(buf, Head(arrived))
  /\ UNCHANGED <<client, toCome, pc, line, answer>>

LeavesPeeked == arrived

AfterPeek == IF arrived # <<>> /\ Head(arrived) = LF THEN Tail(arrived) ELSE arrived

\* ... to take the LF after it as part of the same end of line.
PeekByte ==
  /\ peek /\ (arrived # <<>> \/ EndOfStream)
  /\ arrived' = AfterPeek
  /\ peek' = FALSE
  /\ buf' = Append(buf, LF)
  /\ UNCHANGED <<client, toCome, pc, line, answer>>

\* process with the line get_line returned, of which nothing is left at the end
\* of the stream.  Within the header that is taken for another line, for ever.
RequestLine(l) ==
  /\ pc = "requestLine"
  /\ line' = l
  /\ pc' = IF l = <<>> THEN "done" ELSE "header"

HeaderLine(l) ==
  /\ pc = "header"
  /\ pc' = IF l # <<>> /\ l[1] = LF THEN "request" ELSE "header"
  /\ UNCHANGED line

GetLine ==
  /\ ~peek /\ (LineRead \/ EndOfStream)
  /\ RequestLine(buf) \/ HeaderLine(buf)
  /\ buf' = <<>>
  /\ UNCHANGED <<client, toCome, arrived, peek, answer>>

---------------------------------------------------------------------------
(* Paths and names                                                         *)

hexDigits == <<"0", "1", "2", "3", "4", "5", "6", "7", "8", "9", "a", "b", "c", "d", "e", "f">>
upper     == <<"0", "1", "2", "3", "4", "5", "6", "7", "8", "9", "A", "B", "C", "D", "E", "F">>
isxdigit(b) == b \in ToSet(hexDigits) \cup ToSet(upper)
hexit(b) == CHOOSE d \in 0..15 : b \in {hexDigits[d + 1], upper[d + 1]}

Escape(b) == <<"%", hexDigits[(Code[b] \div 16) + 1], hexDigits[(Code[b] % 16) + 1]>>

KeepsPercent(s) ==
  FlattenSeq([i \in DOMAIN s |-> IF s[i] \in Plain \cup {"%"} THEN <<s[i]>> ELSE Escape(s[i])])

encode_str(s) ==
  FlattenSeq([i \in DOMAIN s |-> IF s[i] \in Plain THEN <<s[i]>> ELSE Escape(s[i])])

Escaped(s, i) ==
  s[i] = "%" /\ i + 2 <= Len(s) /\ isxdigit(s[i + 1]) /\ isxdigit(s[i + 2])

decode_str(s) ==
  LET from[i \in 1..Len(s) + 1] ==
        IF i > Len(s) THEN <<>>
        ELSE IF Escaped(s, i)
        THEN <<CHOOSE b \in DOMAIN Code : Code[b] = hexit(s[i + 1]) * 16 + hexit(s[i + 2])>> \o from[i + 3]
        ELSE <<s[i]>> \o from[i + 1]
  IN  from[1]

\* The length of the longest start of s without a b.
Before(s, b) == IF b \in ToSet(s) THEN SelectInSeq(s, LAMBDA c : c = b) - 1 ELSE Len(s)

\* sscanf with "%[^ ] %[^ ] ...": words end at a space, and what is white before
\* the next one is skipped.
Word(s) == SubSeq(s, 1, Before(s, " "))
NextWords(s) ==
  LET rest == SubSeq(s, Before(s, " ") + 1, Len(s))
      first == SelectInSeq(rest, LAMBDA c : c \notin {" ", CR, LF})
  IN  IF first = 0 THEN <<>> ELSE SubSeq(rest, first, Len(rest))

Path(l) == decode_str(Word(NextWords(l)))

\* The file of a name that stat finds: a directory also with a "/" behind it.
Stat(f) ==
  IF f \in DOMAIN Disk THEN {f}
  ELSE {d \in DOMAIN Disk : Disk[d] = Directory /\ f = d \o <<"/">>}

\* get_file_type: by what follows the last dot.
FileType(f) ==
  LET dot == SelectLastInSeq(f, LAMBDA c : c = ".")
      end == IF dot = 0 THEN <<>> ELSE SubSeq(f, dot + 1, Len(f))
  IN  IF end \in {<<"html">>, <<"htm">>} THEN "text/html"
      ELSE IF end = <<"css">> THEN "text/css" ELSE "text/plain"

---------------------------------------------------------------------------
(* http_request                                                            *)

\* send_respond_head, and after it the content in so many bytes.
SendHead(status, type, length, what, content, sent) ==
  [status |-> status, type |-> type, length |-> length,
   what |-> what, content |-> content, sent |-> sent]

\* ... with the whole of a file.
SendFile(status, f) == SendHead(status, FileType(f), Disk[f], "file", f, Disk[f])

\* send_dir: what the directory holds, each entry with its link.
Within(d) == IF Last(d) \in {"/", "static"} THEN d ELSE Append(d, "/")
Entries(d) ==
  {n \in {SubSeq(f, Len(Within(d)) + 1, Len(f)) : f \in {g \in DOMAIN Disk : IsPrefix(Within(d), g)}} :
     n # <<>> /\ "/" \notin ToSet(n)}
Link(d, n) ==
  encode_str(n) \o IF Disk[Within(d) \o n] = Directory THEN <<"/">> ELSE <<>>

SendDir(d) ==
  SendHead(200, "text/html", -1, "directory", {<<n, Link(d, n)>> : n \in Entries(d)}, 0)

AnswerGet(path) ==
  LET file  == IF path = <<"/">> THEN Index
               ELSE IF path = <<"/", "api", "/", "check">> THEN DataText
               ELSE <<"static">> \o Tail(path)
      found == Stat(file)
  IN  IF found = {} \/ file = NotFound THEN SendFile(404, NotFound)
      ELSE IF \E d \in found : Disk[d] = Directory THEN SendDir(file)
      ELSE SendFile(IF file = NotImplemented THEN 501 ELSE 200, file)

\* get_name_id: "id" with or without a value, "&", and "name" with or without one.
get_name_id(str) ==
  LET spite  == Before(str, "&")
      first  == SubSeq(str, 1, spite)
      second == SubSeq(str, spite + 2, Len(str))
  IN  /\ spite < Len(str)
      /\ SubSeq(first, 1, Before(first, "=")) = <<"i", "d">>
      /\ SubSeq(second, 1, Before(second, "=")) = <<"n", "a", "m", "e">>

\* error.txt is sent with a line feed behind it.
ErrorLength == Disk[ErrorText] + 1

AnswerPost(path, body) ==
  IF path # <<"/", "api", "/", "echo">> THEN SendFile(404, NotFound)
  ELSE IF ~get_name_id(body)
  THEN SendHead(404, "text/plain", ErrorLength, "file", ErrorText, Disk[ErrorText] + 1)
  ELSE SendHead(200, "application/x-www-form-urlencoded", Len(body), "echo", body, Len(body))

AnswerTo(l, body) ==
  CASE Word(l) = <<"POST">> -> AnswerPost(Path(l), body)
    [] Word(l) = <<"GET">>  -> AnswerGet(Path(l))
    [] OTHER -> SendFile(501, NotImplemented)

\* http_request, after which process closes the connection.  A POST waits in
\* read() and takes what is there for the body.
HttpRequest ==
  /\ pc = "request"
  /\ IF Word(line) = <<"POST">>
     THEN /\ arrived # <<>> \/ EndOfStream
          /\ answer' = AnswerTo(line, arrived)
          /\ arrived' = <<>>
     ELSE /\ answer' = AnswerTo(line, <<>>)
          /\ UNCHANGED arrived
  /\ pc' = "done"
  /\ UNCHANGED <<client, toCome, peek, buf, line>>

RequestNext == Arrive \/ RecvByte \/ PeekByte \/ GetLine \/ HttpRequest

RequestSpec == RequestInit /\ [][RequestNext]_requestVars

---------------------------------------------------------------------------
(* Properties                                                              *)

\* Position i of r ends a line: LF, CR LF or a CR alone.
EndsLine(r, i) == r[i] = LF \/ (r[i] = CR /\ (i = Len(r) \/ r[i + 1] # LF))

\* The head of r ends with its first empty line.
EndsHead(r, i) ==
  /\ EndsLine(r, i)
  /\ \E j \in 1..i - 1 : EndsLine(r, j) /\ SubSeq(r, j + 1, i) \in {<<LF>>, <<CR>>, <<CR, LF>>}

HeadEnds(r) == {i \in DOMAIN r : EndsHead(r, i) /\ \A j \in 1..i - 1 : ~EndsHead(r, j)}

\* What stands between i and the end j of a line.
Text(r, i, j) == SubSeq(r, i + 1, i + Cardinality({k \in i + 1..j : r[k] \notin {CR, LF}}))

FirstEnds(r) == {i \in DOMAIN r : EndsLine(r, i) /\ \A j \in 1..i - 1 : ~EndsLine(r, j)}

StartLine(r) == Append(Text(r, 0, CHOOSE i \in FirstEnds(r) : TRUE), LF)

\* No line has exactly the bytes that fit its buffer, without its end.
LinesFit(r) ==
  LET ends == {0} \cup {i \in DOMAIN r : EndsLine(r, i)}
  IN  \A i, j \in ends :
        i < j /\ (\A e \in ends : ~(i < e /\ e < j)) =>
          Text(r, i, j) = <<>> \/ Len(Text(r, i, j)) % LineSize # 0

\* However the request arrives and whatever ends its lines have, what process
\* has taken when it calls http_request is the head, to the first empty line,
\* and nothing of the body.
HeadIsRead ==
  pc = "request" /\ LinesFit(request) =>
    \E i \in HeadEnds(request) : arrived \o toCome = SubSeq(request, i + 1, Len(request))

\* Lines of any length.  This does not hold: after a header line of LineSize
\* bytes its line feed is read as an empty line.
HeadIsReadAnyway ==
  pc = "request" =>
    \E i \in HeadEnds(request) : arrived \o toCome = SubSeq(request, i + 1, Len(request))

\* The answer does not depend on how the request arrived, except that a POST is
\* answered for what has arrived of its body: something, unless none was sent.
AnswerFits ==
  pc = "done" /\ answer # NoAnswer /\ LinesFit(request) /\ Len(StartLine(request)) <= LineSize =>
    \E i \in HeadEnds(request), n \in 0..Len(request) :
      /\ n >= i /\ (n = i => n = Len(request) \/ Word(line) # <<"POST">>)
      /\ answer = AnswerTo(StartLine(request), SubSeq(request, i + 1, n))

\* The same with the whole body.  This does not hold: read() is called once.
BodyIsRead ==
  pc = "done" /\ answer # NoAnswer /\ LinesFit(request) /\ Len(StartLine(request)) <= LineSize =>
    \E i \in HeadEnds(request) :
      answer = AnswerTo(StartLine(request), SubSeq(request, i + 1, Len(request)))

\* What a POST gets back is a pair of keys, each with a value.  This does not
\* hold: get_name_id does not miss the "=".
EchoIsForm ==
  pc = "done" /\ answer # NoAnswer /\ answer.what = "echo" =>
    \E i, j \in DOMAIN answer.content :
      i < j /\ answer.content[i] = "=" /\ answer.content[j] = "="

\* Every link of a listing leads to its entry, whatever bytes the name has, when
\* the client asks for it below the path of the listing.
LinksLead ==
  pc = "done" /\ answer # NoAnswer /\ answer.what = "directory" =>
    \A entry \in answer.content :
      LET base == Word(NextWords(line))
          file == AnswerTo(<<"GET", " ">> \o base \o entry[2] \o <<" ", "HTTP/1.1", LF>>, <<>>)
          name == Within(<<"static">> \o Tail(decode_str(base))) \o entry[1]
      IN  Last(base) = "/" =>
            IF Disk[name] = Directory THEN file = SendDir(Append(name, "/"))
            ELSE file.what = "file" /\ file.content = name
=============================================================================
