------------------------ MODULE KvReplicationProofs ------------------------
(***************************************************************************)
(* Proofs about KvReplication, for any mesh, workload and bounds.  Every   *)
(* invariant speaks of the packets that can still be read: what a server   *)
(* has written (From), what a batch holds and what the logs hold.          *)
(***************************************************************************)
EXTENDS KvReplication, FiniteSetTheorems, SequenceTheorems, TLAPS

InSeq(m, q) == \E i \in DOMAIN q : q[i] = m

(* m is a packet of the batch s works through, or the one it logs. *)
InBatch(m, s) == Running(s) /\ (m = handler[s].first \/ InSeq(m, handler[s].todo))

(* The server q wrote m, or is about to, and nobody is done with it. *)
From(q, m) ==
  \E p \in Server :
    InSeq(m, wire[q][p]) \/ InSeq(m, reply[q][p]) \/ (handler[p].client = q /\ InBatch(m, p))

(* A packet all of whose headers are SYNs of entries carries a command. *)
HasCommand(m) ==
  (\A i \in DOMAIN m.hdr : m.hdr[i].type = "SYN" /\ m.hdr[i].off > 0) => m.cmd \in CommandType

(* Packets of servers have a header and those of users none; a log is as long *)
(* as what was executed; no server is connected to itself.                    *)
Packets ==
  /\ \A q \in Server : \A m \in Packet : From(q, m) => m.hdr # <<>> /\ HasCommand(m)
  /\ \A s \in Server : \A m \in Packet : handler[s].client = User /\ InBatch(m, s) =>
       m.hdr = <<>> /\ HasCommand(m)
  /\ \A s \in Server : \A i \in DOMAIN oldCmds[s] : HasCommand(oldCmds[s][i])
  /\ \A s \in Server : Len(oldCmds[s]) = Len(applied[s])
  /\ \A s \in Server : /\ clientType[s][s] = "closed"
                       /\ Running(s) => handler[s].client # s

Sound == TypeOK /\ Packets

-----------------------------------------------------------------------------
(* Sequences *)

LEMMA InAppend ==
  ASSUME NEW S, NEW q \in Seq(S), NEW x \in S, NEW m
  PROVE  InSeq(m, Append(q, x)) <=> InSeq(m, q) \/ m = x
<1>1. /\ Len(q) \in Nat /\ DOMAIN q = 1..Len(q)
      /\ DOMAIN Append(q, x) = 1..Len(q) + 1
      /\ \A i \in 1..Len(q) : Append(q, x)[i] = q[i]
      /\ Append(q, x)[Len(q) + 1] = x
  BY LenProperties, AppendProperties
<1> QED
  BY <1>1 DEF InSeq

LEMMA InTail ==
  ASSUME NEW S, NEW q \in Seq(S), q # <<>>, NEW m
  PROVE  /\ InSeq(m, Tail(q)) => InSeq(m, q)
         /\ InSeq(Head(q), q) /\ Head(q) \in S /\ Tail(q) \in Seq(S)
<1>1. /\ Len(q) \in Nat \ {0} /\ DOMAIN q = 1..Len(q) /\ Head(q) = q[1]
      /\ Tail(q) \in Seq(S) /\ Len(Tail(q)) = Len(q) - 1 /\ Head(q) \in S
      /\ \A i \in 1..Len(Tail(q)) : Tail(q)[i] = q[i + 1]
  BY EmptySeq, LenProperties, HeadTailProperties
<1>2. DOMAIN Tail(q) = 1..Len(q) - 1
  BY <1>1, LenProperties
<1> QED
  BY <1>1, <1>2 DEF InSeq

LEMMA InSubSeq ==
  ASSUME NEW S, NEW q \in Seq(S), NEW a \in Nat \ {0}, NEW b \in Nat, b <= Len(q), NEW m
  PROVE  /\ InSeq(m, SubSeq(q, a, b)) => InSeq(m, q)
         /\ SubSeq(q, a, b) \in Seq(S)
<1>1. Len(q) \in Nat /\ DOMAIN q = 1..Len(q) /\ \A i \in 1..Len(q) : q[i] \in S
  BY LenProperties, ElementOfSeq
<1>2. \A i \in a..b : q[i] \in S
  BY <1>1
<1>3. /\ SubSeq(q, a, b) \in Seq(S)
      /\ Len(SubSeq(q, a, b)) = IF a <= b THEN b - a + 1 ELSE 0
      /\ \A i \in 1..b - a + 1 : SubSeq(q, a, b)[i] = q[a + i - 1]
  BY <1>2, SubSeqProperties
<1>4. DOMAIN SubSeq(q, a, b) = 1..Len(SubSeq(q, a, b))
  BY <1>3, LenProperties
<1>5. ASSUME NEW i \in DOMAIN SubSeq(q, a, b)
      PROVE  a + i - 1 \in DOMAIN q /\ SubSeq(q, a, b)[i] = q[a + i - 1]
  BY <1>1, <1>3, <1>4, <1>5
<1> QED
  BY <1>3, <1>5 DEF InSeq

LEMMA InOne ==
  ASSUME NEW x, NEW m
  PROVE  (InSeq(m, <<x>>) <=> m = x) /\ ~InSeq(m, <<>>)
BY DEF InSeq

LEMMA InTyped ==
  ASSUME NEW S, NEW q \in Seq(S), NEW m, InSeq(m, q)
  PROVE  m \in S /\ q # <<>>
BY LenProperties, ElementOfSeq, EmptySeq DEF InSeq

-----------------------------------------------------------------------------
(* Packets *)

LEMMA PacketParts ==
  /\ BeMy \in Packet /\ BeMy.hdr # <<>> /\ HasCommand(BeMy)
  /\ \A c \in CommandType : Request(c) \in Packet /\ Request(c).hdr = <<>> /\ HasCommand(Request(c))
  /\ \A n \in Nat : \A once \in BOOLEAN :
       /\ Acknowledge(once, n) \in Packet /\ Acknowledge(once, n).hdr # <<>>
       /\ HasCommand(Acknowledge(once, n))
<1>1. ASSUME NEW h \in Header PROVE <<h>> \in Seq(Header) /\ <<h>> # <<>> /\ DOMAIN <<h>> = {1} /\ <<h>>[1] = h
  OBVIOUS
<1>2. BeMy \in Packet /\ BeMy.hdr # <<>> /\ HasCommand(BeMy)
  BY DEF BeMy, Packet, Header, HasCommand
<1>3. ASSUME NEW c \in CommandType
      PROVE  Request(c) \in Packet /\ Request(c).hdr = <<>> /\ HasCommand(Request(c))
  BY DEF Request, Packet, HasCommand
<1>4. ASSUME NEW n \in Nat, NEW once \in BOOLEAN
      PROVE  /\ Acknowledge(once, n) \in Packet /\ Acknowledge(once, n).hdr # <<>>
             /\ HasCommand(Acknowledge(once, n))
  BY DEF Acknowledge, Packet, Header, HasCommand
<1> QED
  BY <1>2, <1>3, <1>4

(* What a heartbeat is. *)
LEMMA HeartBeatIs ==
  ASSUME NEW log \in Seq(Packet), NEW once \in BOOLEAN, NEW n \in Nat,
         NEW b, b = HeartBeat(log, "SYN", once, n)
  PROVE  /\ b \in Packet /\ b.hdr # <<>>
         /\ b.hdr[1].type = "SYN" /\ b.hdr[1].once = once
         /\ b.hdr[1].off \in Nat /\ b.hdr[1].off <= Len(log) /\ b.hdr[1].off <= n
         /\ \/ b.hdr[1].off = 0 /\ Len(b.hdr) = 1 /\ b.cmd = NoCommand
            \/ /\ b.hdr[1].off \in 1..Len(log)
               /\ LET e == log[b.hdr[1].off]
                  IN  /\ Len(b.hdr) = Len(e.hdr) + 1 /\ b.cmd = e.cmd
                      /\ \A i \in 1..Len(e.hdr) : b.hdr[i + 1] = e.hdr[i]
<1> DEFINE off == Smaller(n, Len(log))
           h   == <<[type |-> "SYN", once |-> once, off |-> off]>>
           e   == log[off]
<1>1. /\ Len(log) \in Nat /\ off \in Nat /\ off <= Len(log) /\ off <= n
  BY LenProperties DEF Smaller
<1>2. h \in Seq(Header) /\ Len(h) = 1 /\ h # <<>>
  BY <1>1 DEF Header
<1>6. h[1].type = "SYN" /\ h[1].once = once /\ h[1].off = off
  OBVIOUS
<1>3. ASSUME NEW q \in Seq(Header), NEW c \in CommandType \cup {NoCommand}
      PROVE  [hdr |-> q, cmd |-> c] \in Packet
  BY DEF Packet
<1>4. CASE off = 0
  <2>1. b = [hdr |-> h, cmd |-> NoCommand]
    BY <1>4 DEF HeartBeat
  <2> HIDE DEF off, h
  <2>2. b.hdr = h /\ b.cmd = NoCommand /\ b \in Packet
    BY <1>2, <1>3, <2>1
  <2> QED
    BY <1>1, <1>2, <1>6, <1>4, <2>2
<1>5. CASE off > 0
  <2>1. b = [hdr |-> h \o e.hdr, cmd |-> e.cmd]
    BY <1>5 DEF HeartBeat
  <2>2. off \in 1..Len(log) /\ e \in Packet
    BY <1>1, <1>5, ElementOfSeq
  <2>3. e.hdr \in Seq(Header) /\ e.cmd \in CommandType \cup {NoCommand}
    BY <2>2 DEF Packet
  <2> DEFINE g == e.hdr
             k == h \o g
  <2> HIDE DEF off, h, e, g
  <2>4. g \in Seq(Header) /\ Len(g) \in Nat
    BY <2>3, LenProperties DEF g
  <2>5. /\ k \in Seq(Header) /\ Len(k) = Len(h) + Len(g)
        /\ \A i \in 1..Len(h) + Len(g) : k[i] = IF i <= Len(h) THEN h[i] ELSE g[i - Len(h)]
    BY <1>2, <2>4, ConcatProperties
  <2> HIDE DEF k
  <2>6. Len(k) = 1 + Len(g) /\ k[1] = h[1] /\ \A i \in 1..Len(g) : k[i + 1] = g[i]
    BY <1>2, <2>4, <2>5
  <2>7. k # <<>>
    BY <2>4, <2>6, EmptySeq
  <2>8. b = [hdr |-> k, cmd |-> e.cmd]
    BY <2>1 DEF k, g
  <2>9. b.hdr = k /\ b.cmd = e.cmd /\ b \in Packet
    BY <1>3, <2>3, <2>5, <2>8
  <2>10. b.hdr[1].type = "SYN" /\ b.hdr[1].once = once /\ b.hdr[1].off = off
    BY <1>6, <2>6, <2>9
  <2>11. /\ Len(b.hdr) = Len(e.hdr) + 1 /\ b.cmd = e.cmd
         /\ \A i \in 1..Len(e.hdr) : b.hdr[i + 1] = e.hdr[i]
    BY <2>4, <2>6, <2>9 DEF g
  <2> QED
    BY <1>1, <2>2, <2>7, <2>9, <2>10, <2>11 DEF e
<1> QED
  BY <1>1, <1>4, <1>5

LEMMA HeartBeatCommand ==
  ASSUME NEW log \in Seq(Packet), NEW once \in BOOLEAN, NEW n \in Nat,
         \A i \in DOMAIN log : HasCommand(log[i])
  PROVE  HasCommand(HeartBeat(log, "SYN", once, n))
<1> DEFINE b == HeartBeat(log, "SYN", once, n)
           e == log[b.hdr[1].off]
<1> HIDE DEF b
<1>0. /\ b \in Packet /\ b.hdr # <<>>
      /\ \/ b.hdr[1].off = 0
         \/ /\ b.hdr[1].off \in 1..Len(log)
            /\ Len(b.hdr) = Len(e.hdr) + 1 /\ b.cmd = e.cmd
            /\ \A i \in 1..Len(e.hdr) : b.hdr[i + 1] = e.hdr[i]
  BY HeartBeatIs DEF b
<1>1. SUFFICES ASSUME \A i \in DOMAIN b.hdr : b.hdr[i].type = "SYN" /\ b.hdr[i].off > 0
               PROVE  b.cmd \in CommandType
  BY DEF HasCommand, b
<1>3. DOMAIN b.hdr = 1..Len(b.hdr) /\ 1 \in DOMAIN b.hdr
  BY <1>0, LenProperties, EmptySeq DEF Packet
<1>4. /\ b.hdr[1].off \in 1..Len(log)
      /\ Len(b.hdr) = Len(e.hdr) + 1 /\ b.cmd = e.cmd
      /\ \A i \in 1..Len(e.hdr) : b.hdr[i + 1] = e.hdr[i]
  <2>1. b.hdr[1].off # 0
    BY <1>1, <1>3
  <2> QED
    BY <1>0, <2>1
<1>5. e \in Packet /\ HasCommand(e) /\ Len(e.hdr) \in Nat /\ DOMAIN e.hdr = 1..Len(e.hdr)
  <2>1. e \in Packet /\ DOMAIN log = 1..Len(log)
    BY <1>4, ElementOfSeq, LenProperties
  <2> QED
    BY <1>4, <2>1, LenProperties DEF Packet
<1>6. \A i \in DOMAIN e.hdr : e.hdr[i].type = "SYN" /\ e.hdr[i].off > 0
  <2> TAKE i \in DOMAIN e.hdr
  <2> HIDE DEF e
  <2>1. i \in 1..Len(e.hdr) /\ i + 1 \in 1..Len(e.hdr) + 1
    BY <1>5
  <2>2. i + 1 \in DOMAIN b.hdr /\ b.hdr[i + 1] = e.hdr[i]
    BY <1>3, <1>4, <2>1
  <2> QED
    BY <1>1, <2>2
<1> QED
  BY <1>4, <1>5, <1>6 DEF HasCommand

-----------------------------------------------------------------------------
(* What the parts of the handlers do. *)

Wires == [Server -> [Server -> Seq(Packet)]]

LEMMA SentEffect ==
  ASSUME NEW w \in Wires, NEW s, NEW ps, NEW m \in Packet
  PROVE  /\ Sent(w, s, ps, m) \in Wires
         /\ \A q, p \in Server : \/ Sent(w, s, ps, m)[q][p] = w[q][p]
                                 \/ q = s /\ Sent(w, s, ps, m)[q][p] = Append(w[q][p], m)
<1> DEFINE row == [p \in Server |->
                     IF p \in ps /\ Open(p, s) THEN Append(w[s][p], m) ELSE w[s][p]]
<1>1. Sent(w, s, ps, m) = [w EXCEPT ![s] = row]
  BY DEF Sent
<1>2. s \in Server => row \in [Server -> Seq(Packet)]
  <2> SUFFICES ASSUME s \in Server, NEW p \in Server
               PROVE  w[s][p] \in Seq(Packet) /\ Append(w[s][p], m) \in Seq(Packet)
    OBVIOUS
  <2>1. w[s][p] \in Seq(Packet)
    BY DEF Wires
  <2> QED
    BY <2>1, AppendProperties
<1>3. [w EXCEPT ![s] = row] \in Wires
  BY <1>2 DEF Wires
<1>4. \A p \in Server : row[p] = w[s][p] \/ row[p] = Append(w[s][p], m)
  OBVIOUS
<1> HIDE DEF row
<1>5. \A q \in Server : [w EXCEPT ![s] = row][q] = IF q = s THEN row ELSE w[q]
  BY DEF Wires
<1> QED
  BY <1>1, <1>3, <1>4, <1>5

LEMMA HandlerParts ==
  ASSUME TypeOK, NEW s \in Server
  PROVE  /\ handler[s] \in HandlerType
         /\ handler[s].client \in Server \cup {User}
         /\ handler[s].first \in Packet /\ handler[s].todo \in Seq(Packet)
         /\ Running(s) => /\ Head(handler[s].todo) \in Packet
                          /\ InBatch(Head(handler[s].todo), s) /\ InBatch(handler[s].first, s)
                          /\ Tail(handler[s].todo) \in Seq(Packet)
<1>1. handler[s] \in HandlerType
  BY DEF TypeOK
<1>2. /\ handler[s].client \in Server \cup {User}
      /\ handler[s].first \in Packet /\ handler[s].todo \in Seq(Packet)
  BY <1>1 DEF HandlerType
<1>3. ASSUME Running(s)
      PROVE  /\ Head(handler[s].todo) \in Packet /\ InSeq(Head(handler[s].todo), handler[s].todo)
             /\ Tail(handler[s].todo) \in Seq(Packet)
  BY <1>2, <1>3, InTail DEF Running
<1> QED
  BY <1>1, <1>2, <1>3 DEF InBatch

LEMMA IdleTyped == \A s \in Server : Idle(s) \in HandlerType /\ Idle(s).todo = <<>>
<1>1. <<>> \in Seq(Packet)
  BY EmptySeq
<1> QED
  BY <1>1, PacketParts DEF Idle, HandlerType

(* The batch after a packet. *)
Advanced(s) ==
  /\ \A p \in Server : p # s => handler'[p] = handler[p]
  /\ \/ handler'[s].todo = <<>> /\ handler'[s] = Idle(s)
     \/ /\ handler'[s].todo = Tail(handler[s].todo)
        /\ handler'[s].client = handler[s].client /\ handler'[s].first = handler[s].first

LEMMA FinishEffect ==
  ASSUME TypeOK, NEW s \in Server, Handles(s), NEW answer \in Seq(Packet),
         FinishPacket(s, answer)
  PROVE  /\ handler' \in [Server -> HandlerType] /\ reply' \in Wires
         /\ Advanced(s)
         /\ \A q, p \in Server : reply'[q][p] = reply[q][p] \/ (q = s /\ reply'[q][p] = answer)
<1> DEFINE h    == handler[s]
           rest == Tail(h.todo)
<1>1. h \in HandlerType /\ rest \in Seq(Packet) /\ h.client \in Server \cup {User}
  BY HandlerParts DEF Handles
<1>2. [h EXCEPT !.todo = rest] \in HandlerType
  BY <1>1 DEF HandlerType
<1>3. handler' = [handler EXCEPT ![s] = IF rest = <<>> THEN Idle(s) ELSE [h EXCEPT !.todo = rest]]
  BY DEF FinishPacket
<1>4. reply' = IF rest = <<>> /\ h.client # User /\ Open(s, h.client)
               THEN [reply EXCEPT ![s][h.client] = answer] ELSE reply
  BY DEF FinishPacket
<1>5. handler \in [Server -> HandlerType] /\ reply \in Wires
  BY DEF TypeOK, Wires
<1> HIDE DEF rest
<1>6. handler' \in [Server -> HandlerType] /\ \A p \in Server : p # s => handler'[p] = handler[p]
  BY <1>2, <1>3, <1>5, IdleTyped
<1>7. handler'[s] = IF rest = <<>> THEN Idle(s) ELSE [h EXCEPT !.todo = rest]
  BY <1>3, <1>5
<1>8. /\ [h EXCEPT !.todo = rest].todo = rest /\ [h EXCEPT !.todo = rest].client = h.client
      /\ [h EXCEPT !.todo = rest].first = h.first
  BY <1>1 DEF HandlerType
<1>9. Advanced(s)
  BY <1>6, <1>7, <1>8, IdleTyped DEF Advanced, rest
<1>10. CASE ~(rest = <<>> /\ h.client # User /\ Open(s, h.client))
  BY <1>4, <1>5, <1>6, <1>9, <1>10
<1>11. CASE rest = <<>> /\ h.client # User /\ Open(s, h.client)
  <2>1. h.client \in Server /\ reply' = [reply EXCEPT ![s][h.client] = answer]
    BY <1>1, <1>4, <1>11
  <2>2. reply' \in Wires
    BY <1>5, <2>1 DEF Wires
  <2>3. \A q, p \in Server : reply'[q][p] = IF q = s /\ p = h.client THEN answer ELSE reply[q][p]
    BY <1>5, <2>1 DEF Wires
  <2> QED
    BY <1>6, <1>9, <2>2, <2>3
<1> QED
  BY <1>10, <1>11

LEMMA RunWriteEffect ==
  ASSUME TypeOK, NEW s \in Server, Handles(s), NEW c \in CommandType, RunWrite(s, c)
  PROVE  /\ oldCmds' \in [Server -> Seq(Packet)] /\ applied' \in [Server -> Seq(CommandType)]
         /\ store' \in [Server -> [Key -> Value \cup {Nil}]] /\ wire' \in Wires
         /\ \A p \in Server : p # s => /\ oldCmds'[p] = oldCmds[p] /\ applied'[p] = applied[p]
                                       /\ store'[p] = store[p]
         /\ oldCmds'[s] = Append(oldCmds[s], handler[s].first)
         /\ applied'[s] = Append(applied[s], c)
         /\ store'[s] = Executed(c, store[s])
         /\ \E m \in Packet :
              /\ m = HeartBeat(oldCmds'[s], "SYN", FALSE, Len(oldCmds'[s]))
              /\ \A q, p \in Server :
                   wire'[q][p] = wire[q][p] \/ (q = s /\ wire'[q][p] = Append(wire[q][p], m))
<1> DEFINE log == Append(oldCmds[s], handler[s].first)
           m   == HeartBeat(log, "SYN", FALSE, Len(log))
<1>1. /\ oldCmds \in [Server -> Seq(Packet)] /\ applied \in [Server -> Seq(CommandType)]
      /\ store \in [Server -> [Key -> Value \cup {Nil}]] /\ wire \in Wires
  BY DEF TypeOK, Wires
<1>2. handler[s].first \in Packet
  BY HandlerParts
<1>3. log \in Seq(Packet) /\ Len(log) \in Nat
  BY <1>1, <1>2, AppendProperties, LenProperties
<1>4. Append(applied[s], c) \in Seq(CommandType)
  BY <1>1, AppendProperties
<1>5. Executed(c, store[s]) \in [Key -> Value \cup {Nil}]
  BY <1>1 DEF Executed, CommandType
<1> HIDE DEF log
<1>6. /\ oldCmds' = [oldCmds EXCEPT ![s] = log]
      /\ store' = [store EXCEPT ![s] = Executed(c, store[s])]
      /\ applied' = [applied EXCEPT ![s] = Append(applied[s], c)]
      /\ wire' = Sent(wire, s, Followers(s), m)
  BY DEF RunWrite, Logged, log
<1>7. m \in Packet
  BY <1>3, HeartBeatIs
<1>8. oldCmds'[s] = log
  BY <1>1, <1>6
<1> HIDE DEF m
<1>9. /\ wire' \in Wires
      /\ \A q, p \in Server : wire'[q][p] = wire[q][p] \/ (q = s /\ wire'[q][p] = Append(wire[q][p], m))
  BY <1>1, <1>6, <1>7, SentEffect
<1>10. /\ oldCmds' \in [Server -> Seq(Packet)]
       /\ \A p \in Server : p # s => oldCmds'[p] = oldCmds[p]
  BY <1>1, <1>3, <1>6
<1>11. /\ applied' \in [Server -> Seq(CommandType)] /\ applied'[s] = Append(applied[s], c)
       /\ \A p \in Server : p # s => applied'[p] = applied[p]
  BY <1>1, <1>4, <1>6
<1>12. /\ store' \in [Server -> [Key -> Value \cup {Nil}]] /\ store'[s] = Executed(c, store[s])
       /\ \A p \in Server : p # s => store'[p] = store[p]
  BY <1>1, <1>5, <1>6
<1> QED
  BY <1>7, <1>8, <1>9, <1>10, <1>11, <1>12 DEF log, m

-----------------------------------------------------------------------------
(* Where packets come from. *)

(* What q may write that nobody had before. *)
Appears(q, m) ==
  \/ m = BeMy /\ serverType[q] = "candidate" /\ serverType'[q] = "leader"
  \/ \E once \in BOOLEAN, n \in Nat : m = Acknowledge(once, n)
  \/ \E once \in BOOLEAN, n \in Nat : m = HeartBeat(oldCmds'[q], "SYN", once, n)

Comes(q, m) == From(q, m) \/ Appears(q, m)

WireFlows ==
  \A q, p \in Server : \A m \in Packet : InSeq(m, wire'[q][p]) => Comes(q, m)

ReplyFlows ==
  \A q, p \in Server : \A m \in Packet : InSeq(m, reply'[q][p]) => Comes(q, m)

BatchFlows ==
  \A p \in Server : \A m \in Packet : InBatch(m, p)' =>
    /\ handler'[p].client \in Server => Comes(handler'[p].client, m)
    /\ handler'[p].client = User =>
         \/ handler[p].client = User /\ InBatch(m, p)
         \/ \E c \in CommandType : m = Request(c)

(* A step keeps the types and brings no packet but those. *)
Flows == TypeOK' /\ WireFlows /\ ReplyFlows /\ BatchFlows

LEMMA FromParts ==
  ASSUME NEW q \in Server, NEW p \in Server, NEW m
  PROVE  /\ InSeq(m, wire[q][p]) => From(q, m)
         /\ InSeq(m, reply[q][p]) => From(q, m)
         /\ handler[p].client = q /\ InBatch(m, p) => From(q, m)
BY DEF From

LEMMA FromNext ==
  ASSUME Flows, NEW q \in Server, NEW m \in Packet, From(q, m)'
  PROVE  Comes(q, m)
<1>1. PICK p \in Server :
        InSeq(m, wire'[q][p]) \/ InSeq(m, reply'[q][p])
          \/ (handler'[p].client = q /\ InBatch(m, p)')
  BY DEF From, InSeq
<1> QED
  BY <1>1 DEF Flows, WireFlows, ReplyFlows, BatchFlows

LEMMA WiresKept == ASSUME UNCHANGED wire PROVE WireFlows
BY FromParts DEF WireFlows, Comes

LEMMA RepliesKept == ASSUME UNCHANGED reply PROVE ReplyFlows
BY FromParts DEF ReplyFlows, Comes

LEMMA BatchesKept == ASSUME UNCHANGED handler PROVE BatchFlows
<1>1. \A p, m : InBatch(m, p)' => InBatch(m, p)
  BY DEF InBatch, Running, InSeq
<1> QED
  BY <1>1, FromParts DEF BatchFlows, Comes

LEMMA BatchesAdvance ==
  ASSUME TypeOK, NEW s \in Server, Running(s), Advanced(s)
  PROVE  BatchFlows
<1> SUFFICES ASSUME NEW p \in Server, NEW m \in Packet, InBatch(m, p)'
             PROVE  InBatch(m, p) /\ handler'[p].client = handler[p].client
  BY FromParts DEF BatchFlows, Comes
<1>1. handler'[p].todo # <<>> /\ (m = handler'[p].first \/ InSeq(m, handler'[p].todo))
  BY DEF InBatch, Running, InSeq
<1>2. CASE p # s
  BY <1>1, <1>2 DEF Advanced, InBatch, Running
<1>3. CASE p = s
  <2>1. /\ handler'[s].todo = Tail(handler[s].todo)
        /\ handler'[s].client = handler[s].client /\ handler'[s].first = handler[s].first
    BY <1>1, <1>3 DEF Advanced
  <2>2. handler[s].todo \in Seq(Packet) /\ handler[s].todo # <<>>
    BY HandlerParts DEF Running
  <2>3. InSeq(m, Tail(handler[s].todo)) => InSeq(m, handler[s].todo)
    BY <2>2, InTail
  <2> QED
    BY <1>1, <1>3, <2>1, <2>2, <2>3 DEF InBatch, Running
<1> QED
  BY <1>2, <1>3

LEMMA WiresGrow ==
  ASSUME TypeOK, NEW s \in Server, NEW m \in Packet, Appears(s, m),
         \A q, p \in Server :
           wire'[q][p] = wire[q][p] \/ (q = s /\ wire'[q][p] = Append(wire[q][p], m))
  PROVE  WireFlows
<1> SUFFICES ASSUME NEW q \in Server, NEW p \in Server, NEW x \in Packet, InSeq(x, wire'[q][p])
             PROVE  From(q, x) \/ (q = s /\ x = m)
  BY DEF WireFlows, Comes
<1>1. CASE wire'[q][p] = wire[q][p]
  BY <1>1, FromParts
<1>2. CASE q = s /\ wire'[q][p] = Append(wire[q][p], m)
  <2>1. wire[q][p] \in Seq(Packet)
    BY DEF TypeOK
  <2>2. InSeq(x, wire[q][p]) \/ x = m
    BY <1>2, <2>1, InAppend
  <2> QED
    BY <1>2, <2>2, FromParts
<1> QED
  BY <1>1, <1>2

LEMMA RepliesChange ==
  ASSUME NEW s \in Server, NEW answer \in Seq(Packet),
         \A m \in Packet : InSeq(m, answer) => Appears(s, m),
         \A q, p \in Server : reply'[q][p] = reply[q][p] \/ (q = s /\ reply'[q][p] = answer)
  PROVE  ReplyFlows
<1> SUFFICES ASSUME NEW q \in Server, NEW p \in Server, NEW x \in Packet, InSeq(x, reply'[q][p])
             PROVE  Comes(q, x)
  BY DEF ReplyFlows
<1>1. CASE reply'[q][p] = reply[q][p]
  BY <1>1, FromParts DEF Comes
<1>2. CASE q = s /\ reply'[q][p] = answer
  BY <1>2 DEF Comes
<1> QED
  BY <1>1, <1>2

-----------------------------------------------------------------------------
(* The steps of the loop and of the mesh keep the types. *)

LEMMA FlowsIssue == ASSUME TypeOK, NEW s \in Server, Issue(s) PROVE Flows
<1> DEFINE q == Append(requests[s], Workload[writes + 1])
<1>1. writes \in Nat /\ Len(Workload) \in Nat /\ writes + 1 \in 1..Len(Workload)
  BY ReplicationConstants, LenProperties DEF Issue, TypeOK
<1>2. q \in Seq(CommandType) /\ writes + 1 \in Nat
  BY <1>1, ReplicationConstants, ElementOfSeq, AppendProperties DEF TypeOK
<1>3. requests' = [requests EXCEPT ![s] = q]
  BY DEF Issue
<1> HIDE DEF q
<1>4. requests' \in [Server -> Seq(CommandType)]
  BY <1>2, <1>3 DEF TypeOK
<1>5. TypeOK'
  BY <1>2, <1>4 DEF Issue, TypeOK, roleVars, dataVars, pastVars
<1> QED
  BY <1>5, WiresKept, RepliesKept, BatchesKept DEF Issue, Flows

(* What a read from a user brings. *)
LEMMA RequestsRead ==
  ASSUME TypeOK, NEW s \in Server, ReadRequests(s)
  PROVE  /\ Flows
         /\ \A p \in Server : p # s => handler'[p] = handler[p] /\ requests'[p] = requests[p]
         /\ handler'[s].client = User
         /\ \E n \in 1..MaxUserBatch :
              /\ n <= Len(requests[s])
              /\ handler'[s].first = Request(requests[s][1])
              /\ handler'[s].todo = [i \in 1..n |-> Request(requests[s][i])]
              /\ requests'[s] = SubSeq(requests[s], n + 1, Len(requests[s]))
<1> DEFINE q == requests[s]
<1>1. PICK n \in 1..MaxUserBatch :
        /\ n <= Len(q)
        /\ handler' = [handler EXCEPT ![s] =
             [client |-> User, first |-> Request(q[1]), todo |-> [i \in 1..n |-> Request(q[i])]]]
        /\ requests' = [requests EXCEPT ![s] = SubSeq(q, n + 1, Len(q))]
  BY DEF ReadRequests
<1>2. n \in Nat /\ n > 0 /\ Len(q) \in Nat /\ q \in Seq(CommandType)
  BY ReplicationConstants, LenProperties DEF TypeOK
<1> HIDE DEF q
<1> DEFINE t == [i \in 1..n |-> Request(q[i])]
           r == SubSeq(q, n + 1, Len(q))
           b == [client |-> User, first |-> Request(q[1]), todo |-> t]
<1>3. \A i \in 1..n : q[i] \in CommandType
  BY <1>1, <1>2, ElementOfSeq
<1>4. \A i \in 1..n : Request(q[i]) \in Packet
  BY <1>3, PacketParts
<1>5. t \in Seq(Packet) /\ DOMAIN t = 1..n /\ \A i \in 1..n : t[i] = Request(q[i])
  BY <1>2, <1>4, SeqDef
<1>6. r \in Seq(CommandType)
  BY <1>1, <1>2, InSubSeq
<1> HIDE DEF t, r
<1>7. b \in HandlerType /\ b.client = User /\ b.first = Request(q[1]) /\ b.todo = t
  BY <1>2, <1>4, <1>5 DEF HandlerType
<1>8. handler' = [handler EXCEPT ![s] = b] /\ requests' = [requests EXCEPT ![s] = r]
  BY <1>1 DEF t, r
<1> HIDE DEF b
<1>9. /\ \A p \in Server : p # s => handler'[p] = handler[p] /\ requests'[p] = requests[p]
      /\ handler'[s] = b /\ handler' \in [Server -> HandlerType]
      /\ requests'[s] = r /\ requests' \in [Server -> Seq(CommandType)]
  BY <1>6, <1>7, <1>8 DEF TypeOK
<1>10. TypeOK'
  BY <1>9 DEF ReadRequests, TypeOK, roleVars, dataVars, pastVars
<1>11. BatchFlows
  <2> SUFFICES ASSUME NEW p \in Server, NEW m \in Packet, InBatch(m, p)'
               PROVE  /\ handler'[p].client \in Server => Comes(handler'[p].client, m)
                      /\ handler'[p].client = User =>
                           \/ handler[p].client = User /\ InBatch(m, p)
                           \/ \E c \in CommandType : m = Request(c)
    BY DEF BatchFlows
  <2>1. handler'[p].todo # <<>> /\ (m = handler'[p].first \/ InSeq(m, handler'[p].todo))
    BY DEF InBatch, Running, InSeq
  <2>2. CASE p # s
    BY <1>9, <2>1, <2>2, FromParts DEF InBatch, Running, Comes
  <2>3. CASE p = s
    <3>1. handler'[p].client = User /\ User \notin Server
      BY <1>7, <1>9, <2>3, ReplicationConstants
    <3>2. m = Request(q[1]) \/ \E i \in 1..n : m = Request(q[i])
      BY <1>5, <1>7, <1>9, <2>1, <2>3 DEF InSeq
    <3>3. \E c \in CommandType : m = Request(c)
      BY <1>2, <1>3, <3>2
    <3> QED
      BY <3>1, <3>3
  <2> QED
    BY <2>2, <2>3
<1>12. Flows
  BY <1>10, <1>11, WiresKept, RepliesKept DEF ReadRequests, Flows
<1> QED
  BY <1>1, <1>7, <1>9, <1>12 DEF t, r, q

LEMMA FlowsReadPackets ==
  ASSUME TypeOK, NEW s \in Server, NEW p \in Server, ReadPackets(s, p)
  PROVE  /\ Flows
         /\ handler'[s].client = p /\ \A r \in Server : r # s => handler'[r] = handler[r]
<1> DEFINE q == wire[p][s]
<1>1. PICK n \in 1..MaxBatch :
        /\ n <= Len(q)
        /\ handler' = [handler EXCEPT ![s] =
             [client |-> p, first |-> q[1], todo |-> SubSeq(q, 1, n)]]
        /\ wire' = [wire EXCEPT ![p][s] = SubSeq(q, n + 1, Len(q))]
  BY DEF ReadPackets
<1>2. q \in Seq(Packet) /\ n \in Nat /\ n > 0 /\ Len(q) \in Nat
  BY ReplicationConstants, LenProperties DEF TypeOK
<1> DEFINE t == SubSeq(q, 1, n)
           r == SubSeq(q, n + 1, Len(q))
           b == [client |-> p, first |-> q[1], todo |-> t]
<1>3. /\ t \in Seq(Packet) /\ r \in Seq(Packet)
      /\ \A m : InSeq(m, t) \/ InSeq(m, r) => InSeq(m, q)
  <2>1. n + 1 \in Nat \ {0} /\ n <= Len(q) /\ 1 \in Nat \ {0}
    BY <1>1, <1>2
  <2> HIDE DEF q
  <2>2. t \in Seq(Packet) /\ \A m : InSeq(m, t) => InSeq(m, q)
    BY <1>2, <2>1, InSubSeq
  <2>3. r \in Seq(Packet) /\ \A m : InSeq(m, r) => InSeq(m, q)
    BY <1>2, <2>1, InSubSeq
  <2> QED
    BY <2>2, <2>3
<1>4. q[1] \in Packet /\ InSeq(q[1], q)
  BY <1>1, <1>2, ElementOfSeq, LenProperties DEF InSeq
<1> HIDE DEF t, r, q
<1>5. b \in HandlerType /\ b.client = p /\ b.first = q[1] /\ b.todo = t
  BY <1>3, <1>4 DEF HandlerType
<1>6. handler \in [Server -> HandlerType] /\ wire \in Wires
  BY DEF TypeOK, Wires
<1> HIDE DEF b
<1>7. handler' = [handler EXCEPT ![s] = b] /\ wire' = [wire EXCEPT ![p][s] = r]
  BY <1>1 DEF b, t, r
<1>8. /\ handler' \in [Server -> HandlerType] /\ handler'[s] = b
      /\ \A x \in Server : x # s => handler'[x] = handler[x]
  BY <1>5, <1>6, <1>7
<1>9. /\ wire' \in Wires
      /\ \A x, y \in Server : wire'[x][y] = IF x = p /\ y = s THEN r ELSE wire[x][y]
  BY <1>3, <1>6, <1>7 DEF Wires
<1>10. TypeOK'
  BY <1>8, <1>9 DEF ReadPackets, TypeOK, Wires, roleVars, dataVars, pastVars
<1>11. WireFlows
  <2> SUFFICES ASSUME NEW x \in Server, NEW y \in Server, NEW m \in Packet, InSeq(m, wire'[x][y])
               PROVE  From(x, m)
    BY DEF WireFlows, Comes
  <2>1. InSeq(m, wire[x][y])
    BY <1>3, <1>9 DEF q
  <2> QED
    BY <2>1, FromParts
<1>12. BatchFlows
  <2> SUFFICES ASSUME NEW x \in Server, NEW m \in Packet, InBatch(m, x)'
               PROVE  /\ handler'[x].client \in Server => From(handler'[x].client, m)
                      /\ handler'[x].client = User => handler[x].client = User /\ InBatch(m, x)
    BY DEF BatchFlows, Comes
  <2>1. handler'[x].todo # <<>> /\ (m = handler'[x].first \/ InSeq(m, handler'[x].todo))
    BY DEF InBatch, Running, InSeq
  <2>2. CASE x # s
    BY <1>8, <2>1, <2>2, FromParts DEF InBatch, Running
  <2>3. CASE x = s
    <3>1. InSeq(m, q)
      BY <1>3, <1>4, <1>5, <1>8, <2>1, <2>3
    <3>2. handler'[x].client = p /\ p # User
      BY <1>5, <1>8, <2>3, ReplicationConstants
    <3> QED
      BY <3>1, <3>2, FromParts DEF q
  <2> QED
    BY <2>2, <2>3
<1> QED
  BY <1>5, <1>8, <1>10, <1>11, <1>12, RepliesKept DEF ReadPackets, Flows

LEMMA FlowsClientWrite ==
  ASSUME TypeOK, NEW s \in Server, NEW p \in Server, ClientWrite(s, p)
  PROVE  Flows
<1> DEFINE a == Head(reply[s][p])
<1>1. wire \in Wires /\ reply \in Wires /\ reply[s][p] \in Seq(Packet) /\ reply[s][p] # <<>>
  BY DEF ClientWrite, TypeOK, Wires
<1>2. a \in Packet /\ InSeq(a, reply[s][p])
  BY <1>1, InTail
<1> HIDE DEF a
<1>3. wire' = Sent(wire, s, {p}, a) /\ reply' = [reply EXCEPT ![s][p] = <<>>]
  BY DEF ClientWrite, a
<1>4. /\ wire' \in Wires
      /\ \A x, y \in Server : wire'[x][y] = wire[x][y] \/ (x = s /\ wire'[x][y] = Append(wire[x][y], a))
  BY <1>1, <1>2, <1>3, SentEffect
<1>5. /\ reply' \in Wires
      /\ \A x, y \in Server : reply'[x][y] = reply[x][y] \/ reply'[x][y] = <<>>
  <2>1. <<>> \in Seq(Packet)
    BY EmptySeq
  <2> QED
    BY <1>1, <1>3, <2>1 DEF Wires
<1>6. TypeOK'
  BY <1>4, <1>5 DEF ClientWrite, TypeOK, Wires, roleVars, dataVars, pastVars
<1>7. WireFlows
  <2> SUFFICES ASSUME NEW x \in Server, NEW y \in Server, NEW m \in Packet, InSeq(m, wire'[x][y])
               PROVE  From(x, m)
    BY DEF WireFlows, Comes
  <2>1. CASE wire'[x][y] = wire[x][y]
    BY <2>1, FromParts
  <2>2. CASE x = s /\ wire'[x][y] = Append(wire[x][y], a)
    <3>1. InSeq(m, wire[x][y]) \/ m = a
      <4>1. wire[x][y] \in Seq(Packet)
        BY <1>1 DEF Wires
      <4> QED
        BY <1>2, <2>2, <4>1, InAppend
    <3> QED
      BY <1>2, <2>2, <3>1, FromParts
  <2> QED
    BY <1>4, <2>1, <2>2
<1>8. ReplyFlows
  <2> SUFFICES ASSUME NEW x \in Server, NEW y \in Server, NEW m \in Packet, InSeq(m, reply'[x][y])
               PROVE  From(x, m)
    BY DEF ReplyFlows, Comes
  <2>1. reply'[x][y] = reply[x][y]
    BY <1>5 DEF InSeq
  <2> QED
    BY <2>1, FromParts
<1> QED
  BY <1>6, <1>7, <1>8, BatchesKept DEF ClientWrite, Flows

(* The handlers, from what they write and answer. *)
LEMMA FlowsHandler ==
  ASSUME TypeOK, NEW s \in Server, Handles(s), NEW answer \in Seq(Packet),
         FinishPacket(s, answer), \A m \in Packet : InSeq(m, answer) => Appears(s, m),
         UNCHANGED <<requests, writes, pastVars>>,
         /\ serverType' \in [Server -> {"leader", "follower", "candidate", "down"}]
         /\ clientType' \in [Server -> [Server -> {"leader", "follower", "closed"}]],
         UNCHANGED <<dataVars, wire>> \/ \E c \in CommandType : RunWrite(s, c)
  PROVE  Flows /\ Advanced(s)
<1>1. /\ handler' \in [Server -> HandlerType] /\ reply' \in Wires /\ Advanced(s)
      /\ \A q, p \in Server : reply'[q][p] = reply[q][p] \/ (q = s /\ reply'[q][p] = answer)
  BY FinishEffect
<1>2. BatchFlows /\ ReplyFlows
  BY <1>1, BatchesAdvance, RepliesChange DEF Handles
<1>3. CASE UNCHANGED <<dataVars, wire>>
  <2>1. TypeOK'
    BY <1>1, <1>3 DEF TypeOK, Wires, dataVars, pastVars
  <2> QED
    BY <1>1, <1>2, <1>3, <2>1, WiresKept DEF Flows
<1>4. ASSUME NEW c \in CommandType, RunWrite(s, c)
      PROVE  Flows
  <2>1. /\ oldCmds' \in [Server -> Seq(Packet)] /\ applied' \in [Server -> Seq(CommandType)]
        /\ store' \in [Server -> [Key -> Value \cup {Nil}]] /\ wire' \in Wires
    BY <1>4, RunWriteEffect
  <2>2. TypeOK'
    BY <1>1, <2>1 DEF TypeOK, Wires, pastVars
  <2>3. PICK m \in Packet :
          /\ m = HeartBeat(oldCmds'[s], "SYN", FALSE, Len(oldCmds'[s]))
          /\ \A q, p \in Server :
               wire'[q][p] = wire[q][p] \/ (q = s /\ wire'[q][p] = Append(wire[q][p], m))
    BY <1>4, RunWriteEffect
  <2>4. Appears(s, m)
    <3>1. Len(oldCmds'[s]) \in Nat
      BY <2>1, LenProperties
    <3> QED
      BY <2>3, <3>1 DEF Appears
  <2>5. WireFlows
    BY <2>3, <2>4, WiresGrow
  <2> QED
    BY <1>2, <2>2, <2>5 DEF Flows
<1> QED
  BY <1>1, <1>3, <1>4

-----------------------------------------------------------------------------
(* The handlers. *)

Packet1(s) == Head(handler[s].todo)

LEMMA PacketRead ==
  ASSUME Sound, NEW s \in Server, Handles(s)
  PROVE  /\ Packet1(s) \in Packet /\ InBatch(Packet1(s), s) /\ HasCommand(Packet1(s))
         /\ Len(oldCmds[s]) \in Nat
         /\ \/ handler[s].client = User /\ Packet1(s).hdr = <<>>
            \/ /\ handler[s].client \in Server \ {s} /\ From(handler[s].client, Packet1(s))
               /\ Packet1(s).hdr # <<>>
<1>1. /\ Packet1(s) \in Packet /\ InBatch(Packet1(s), s) /\ Running(s)
      /\ handler[s].client \in Server \cup {User}
  BY HandlerParts DEF Sound, Handles, Packet1
<1>2. Len(oldCmds[s]) \in Nat
  BY LenProperties DEF Sound, TypeOK
<1>3. CASE handler[s].client = User
  BY <1>1, <1>2, <1>3 DEF Sound, Packets
<1>4. CASE handler[s].client \in Server
  <2>1. From(handler[s].client, Packet1(s)) /\ handler[s].client # s
    BY <1>1, <1>4, FromParts DEF Sound, Packets
  <2> QED
    BY <1>1, <1>2, <1>4, <2>1 DEF Sound, Packets
<1> QED
  BY <1>1, <1>3, <1>4

LEMMA WriteFacts ==
  ASSUME Sound, NEW s \in Server, WriteCommand(s)
  PROVE  /\ Handles(s) /\ handler[s].client = User
         /\ Packet1(s).cmd \in CommandType /\ RunWrite(s, Packet1(s).cmd)
         /\ Flows /\ Advanced(s)
<1>1. /\ Handles(s) /\ Packet1(s).hdr = <<>> /\ RunWrite(s, Packet1(s).cmd)
      /\ FinishPacket(s, <<>>) /\ UNCHANGED <<roleVars, requests, writes, pastVars>>
  BY DEF WriteCommand, Packet1
<1>2. handler[s].client = User /\ HasCommand(Packet1(s))
  BY <1>1, PacketRead
<1>3. Packet1(s).cmd \in CommandType
  BY <1>1, <1>2 DEF HasCommand
<1>4. <<>> \in Seq(Packet) /\ \A m : ~InSeq(m, <<>>)
  BY EmptySeq DEF InSeq
<1>5. Flows /\ Advanced(s)
  BY <1>1, <1>3, <1>4, FlowsHandler DEF Sound, TypeOK, roleVars
<1> QED
  BY <1>1, <1>2, <1>3, <1>5

LEMMA SynFacts ==
  ASSUME Sound, NEW s \in Server, SynNext(s)
  PROVE  /\ Handles(s) /\ handler[s].client \in Server \ {s}
         /\ From(handler[s].client, Packet1(s)) /\ Unwraps(Packet1(s), Len(oldCmds[s]))
         /\ Packet1(s).hdr # <<>>
         /\ Packet1(s).cmd \in CommandType /\ RunWrite(s, Packet1(s).cmd)
         /\ Flows /\ Advanced(s)
<1> DEFINE m == Packet1(s)
           n == Len(oldCmds[s])
<1>1. PICK answers \in BOOLEAN :
        /\ Handles(s) /\ m.hdr # <<>> /\ Unwraps(m, n) /\ RunWrite(s, m.cmd)
        /\ FinishPacket(s, IF answers THEN <<Acknowledge(FALSE, n + 1)>> ELSE <<>>)
        /\ UNCHANGED <<roleVars, requests, writes, pastVars>>
  BY DEF SynNext, Packet1
<1> DEFINE answer == IF answers THEN <<Acknowledge(FALSE, n + 1)>> ELSE <<>>
<1>2. /\ handler[s].client \in Server \ {s} /\ From(handler[s].client, m) /\ HasCommand(m)
      /\ m \in Packet /\ n \in Nat
  BY <1>1, PacketRead
<1>3. m.cmd \in CommandType
  BY <1>1, <1>2 DEF HasCommand, Unwraps, IsNext
<1>4. Acknowledge(FALSE, n + 1) \in Packet /\ Appears(s, Acknowledge(FALSE, n + 1))
  <2> HIDE DEF n
  <2>1. n + 1 \in Nat
    BY <1>2
  <2> QED
    BY <2>1, PacketParts DEF Appears
<1>5. answer \in Seq(Packet) /\ \A x : InSeq(x, answer) => Appears(s, x)
  <2> DEFINE k == Acknowledge(FALSE, n + 1)
  <2> HIDE DEF k
  <2>1. k \in Packet /\ Appears(s, k)
    BY <1>4 DEF k
  <2>2. /\ <<k>> \in Seq(Packet) /\ <<>> \in Seq(Packet)
        /\ \A x : ~InSeq(x, <<>>) /\ (InSeq(x, <<k>>) => x = k)
    BY <2>1 DEF InSeq
  <2> QED
    BY <2>1, <2>2 DEF k
<1> HIDE DEF answer
<1>6. FinishPacket(s, answer)
  BY <1>1 DEF answer
<1>7. Flows /\ Advanced(s)
  BY <1>1, <1>3, <1>5, <1>6, FlowsHandler DEF Sound, TypeOK, roleVars
<1> QED
  BY <1>1, <1>2, <1>3, <1>7

LEMMA AnswerOne ==
  ASSUME NEW s, NEW k \in Packet, Appears(s, k)
  PROVE  /\ <<k>> \in Seq(Packet) /\ <<>> \in Seq(Packet)
         /\ \A x : ~InSeq(x, <<>>) /\ (InSeq(x, <<k>>) => Appears(s, x))
<1>1. <<k>> \in Seq(Packet) /\ <<>> \in Seq(Packet)
  OBVIOUS
<1>2. \A x : ~InSeq(x, <<>>) /\ (InSeq(x, <<k>>) => x = k)
  BY DEF InSeq
<1> QED
  BY <1>1, <1>2

LEMMA OtherFacts ==
  ASSUME Sound, NEW s \in Server, SynOther(s)
  PROVE  Handles(s) /\ Flows /\ Advanced(s)
<1> DEFINE m == Packet1(s)
           n == Len(oldCmds[s])
           k == Acknowledge(Head(m.hdr).off = n, n)
           answer == IF StopsAt(m, n).once THEN <<>> ELSE <<k>>
<1>1. /\ Handles(s) /\ FinishPacket(s, answer)
      /\ UNCHANGED <<roleVars, dataVars, requests, wire, writes, pastVars>>
  BY DEF SynOther, Packet1
<1>2. k \in Packet /\ Appears(s, k)
  <2>1. n \in Nat /\ (Head(m.hdr).off = n) \in BOOLEAN
    BY <1>1, PacketRead
  <2> HIDE DEF n
  <2> QED
    BY <2>1, PacketParts DEF Appears
<1> HIDE DEF k
<1>3. answer \in Seq(Packet) /\ \A x : InSeq(x, answer) => Appears(s, x)
  BY <1>2, AnswerOne
<1> HIDE DEF answer
<1>4. Flows /\ Advanced(s)
  BY <1>1, <1>3, FlowsHandler DEF Sound, TypeOK, roleVars
<1> QED
  BY <1>1, <1>4

LEMMA AckFacts ==
  ASSUME Sound, NEW s \in Server, AckResponse(s)
  PROVE  Handles(s) /\ Flows /\ Advanced(s)
<1> DEFINE h   == Head(Packet1(s).hdr)
           log == oldCmds[s]
           k   == HeartBeat(log, "SYN", TRUE, Len(log))
           l   == HeartBeat(log, "SYN", FALSE, EntryAfter(h))
           answer == IF h.once THEN <<>> ELSE IF h.off = Len(log) THEN <<k>> ELSE <<l>>
<1>1. /\ Handles(s) /\ FinishPacket(s, answer) /\ Packet1(s).hdr # <<>>
      /\ UNCHANGED <<roleVars, dataVars, requests, wire, writes, pastVars>>
  BY DEF AckResponse, Packet1
<1>2. log \in Seq(Packet) /\ Len(log) \in Nat /\ EntryAfter(h) \in Nat
  <2>1. Packet1(s).hdr \in Seq(Header)
    BY <1>1, PacketRead DEF Packet
  <2>2. h \in Header
    BY <1>1, <2>1, InTail
  <2>3. h.off \in Nat
    BY <2>2 DEF Header
  <2> QED
    BY <2>3, LenProperties DEF EntryAfter, Sound, TypeOK
<1>3. oldCmds'[s] = log
  BY <1>1 DEF dataVars
<1> HIDE DEF log, h
<1>4. k \in Packet /\ Appears(s, k) /\ l \in Packet /\ Appears(s, l)
  BY <1>2, <1>3, HeartBeatIs DEF Appears
<1> HIDE DEF k, l
<1>5. answer \in Seq(Packet) /\ \A x : InSeq(x, answer) => Appears(s, x)
  BY <1>4, AnswerOne
<1> HIDE DEF answer
<1>6. Flows /\ Advanced(s)
  BY <1>1, <1>5, FlowsHandler DEF Sound, TypeOK, roleVars
<1> QED
  BY <1>1, <1>6

LEMMA BeMyFacts ==
  ASSUME Sound, NEW s \in Server, BeMyFollower(s)
  PROVE  /\ Handles(s) /\ Flows /\ Advanced(s)
         /\ handler[s].client \in Server \ {s}
         /\ clientType'[s][s] = "closed"
         /\ \A p \in Server : p # s => clientType'[p] = clientType[p]
<1> DEFINE row == [p \in Server |-> IF clientType[s][p] = "closed" THEN "closed"
                                   ELSE IF p = handler[s].client THEN "leader" ELSE "follower"]
<1>1. /\ Handles(s) /\ FinishPacket(s, <<>>) /\ Packet1(s).hdr # <<>>
      /\ serverType' = [serverType EXCEPT ![s] = "follower"]
      /\ clientType' = [clientType EXCEPT ![s] = row]
      /\ UNCHANGED <<dataVars, requests, wire, writes, pastVars>>
  BY DEF BeMyFollower, Packet1
<1>2. handler[s].client \in Server \ {s}
  BY <1>1, PacketRead
<1>3. /\ serverType \in [Server -> {"leader", "follower", "candidate", "down"}]
      /\ clientType \in [Server -> [Server -> {"leader", "follower", "closed"}]]
      /\ clientType[s][s] = "closed"
  BY DEF Sound, TypeOK, Packets
<1>4. row \in [Server -> {"leader", "follower", "closed"}] /\ row[s] = "closed"
  BY <1>2, <1>3
<1> HIDE DEF row
<1>5. /\ clientType' \in [Server -> [Server -> {"leader", "follower", "closed"}]]
      /\ clientType'[s] = row /\ \A p \in Server : p # s => clientType'[p] = clientType[p]
  BY <1>1, <1>3, <1>4
<1>6. serverType' \in [Server -> {"leader", "follower", "candidate", "down"}]
  BY <1>1, <1>3
<1>7. <<>> \in Seq(Packet) /\ \A m : ~InSeq(m, <<>>)
  BY EmptySeq DEF InSeq
<1>8. Flows /\ Advanced(s)
  BY <1>1, <1>5, <1>6, <1>7, FlowsHandler DEF Sound
<1> QED
  BY <1>1, <1>2, <1>4, <1>5, <1>8

-----------------------------------------------------------------------------
(* The timer, the crash and the change of leader. *)

LEMMA CronFacts ==
  ASSUME TypeOK, NEW s \in Server, ServerCron(s)
  PROVE  Flows
<1> DEFINE log == oldCmds[s]
           m   == HeartBeat(log, "SYN", FALSE, Len(log))
<1>1. log \in Seq(Packet) /\ Len(log) \in Nat /\ wire \in Wires
  BY LenProperties DEF TypeOK, Wires
<1>2. /\ wire' = Sent(wire, s, Followers(s), m) /\ oldCmds'[s] = log
      /\ UNCHANGED <<roleVars, dataVars, requests, reply, handler, writes, pastVars>>
  BY DEF ServerCron, dataVars
<1> HIDE DEF log
<1>3. m \in Packet /\ Appears(s, m)
  BY <1>1, <1>2, HeartBeatIs DEF Appears
<1> HIDE DEF m
<1>4. /\ wire' \in Wires
      /\ \A q, p \in Server : wire'[q][p] = wire[q][p] \/ (q = s /\ wire'[q][p] = Append(wire[q][p], m))
  BY <1>1, <1>2, <1>3, SentEffect
<1>5. TypeOK'
  BY <1>2, <1>4 DEF TypeOK, Wires, roleVars, dataVars, pastVars
<1> QED
  BY <1>2, <1>3, <1>4, <1>5, WiresGrow, RepliesKept, BatchesKept DEF Flows

(* Packets may be lost. *)
LEMMA LossFlows ==
  ASSUME TypeOK, TypeOK', NEW s \in Server,
         \A q, p \in Server : wire'[q][p] = wire[q][p] \/ wire'[q][p] = <<>>,
         \A q, p \in Server : reply'[q][p] = reply[q][p] \/ reply'[q][p] = <<>>,
         \A p \in Server : handler'[p] = handler[p] \/ handler'[p].todo = <<>>
  PROVE  Flows
<1>1. WireFlows
  <2> SUFFICES ASSUME NEW q \in Server, NEW p \in Server, NEW m \in Packet, InSeq(m, wire'[q][p])
               PROVE  From(q, m)
    BY DEF WireFlows, Comes
  <2>1. wire'[q][p] = wire[q][p]
    BY DEF InSeq
  <2> QED
    BY <2>1, FromParts
<1>2. ReplyFlows
  <2> SUFFICES ASSUME NEW q \in Server, NEW p \in Server, NEW m \in Packet, InSeq(m, reply'[q][p])
               PROVE  From(q, m)
    BY DEF ReplyFlows, Comes
  <2>1. reply'[q][p] = reply[q][p]
    BY DEF InSeq
  <2> QED
    BY <2>1, FromParts
<1>3. BatchFlows
  <2> SUFFICES ASSUME NEW p \in Server, NEW m \in Packet, InBatch(m, p)'
               PROVE  InBatch(m, p) /\ handler'[p].client = handler[p].client
    BY FromParts DEF BatchFlows, Comes
  <2>1. handler'[p].todo # <<>> /\ (m = handler'[p].first \/ InSeq(m, handler'[p].todo))
    BY DEF InBatch, Running, InSeq
  <2> QED
    BY <2>1 DEF InBatch, Running
<1> QED
  BY <1>1, <1>2, <1>3 DEF Flows

LEMMA CrashFacts ==
  ASSUME TypeOK, NEW s \in Server, Crash(s)
  PROVE  /\ Flows /\ handler'[s].todo = <<>> /\ requests'[s] = <<>>
         /\ \A p \in Server : p # s => handler'[p] = handler[p] /\ requests'[p] = requests[p]
         /\ clientType'[s][s] = "closed" /\ \A p \in Server : p # s => clientType'[p] = clientType[p]
<1>1. <<>> \in Seq(Packet) /\ <<>> \in Seq(CommandType)
  BY EmptySeq
<1>2. /\ serverType' = [serverType EXCEPT ![s] = "down"]
      /\ clientType' = [clientType EXCEPT ![s] = [p \in Server |-> "closed"]]
      /\ handler' = [handler EXCEPT ![s] = Idle(s)]
      /\ reply' = [reply EXCEPT ![s] = [p \in Server |-> <<>>]]
      /\ wire' = [p \in Server |-> [wire[p] EXCEPT ![s] = <<>>]]
      /\ requests' = [requests EXCEPT ![s] = <<>>]
      /\ UNCHANGED <<dataVars, writes, pastVars>>
  BY DEF Crash
<1>3. handler \in [Server -> HandlerType] /\ reply \in Wires /\ wire \in Wires
      /\ serverType \in [Server -> {"leader", "follower", "candidate", "down"}]
      /\ clientType \in [Server -> [Server -> {"leader", "follower", "closed"}]]
      /\ requests \in [Server -> Seq(CommandType)]
  BY DEF TypeOK, Wires
<1>4. /\ handler' \in [Server -> HandlerType] /\ handler'[s].todo = <<>>
      /\ \A p \in Server : p # s => handler'[p] = handler[p]
  BY <1>2, <1>3, IdleTyped
<1>5. /\ reply' \in Wires
      /\ \A q, p \in Server : reply'[q][p] = reply[q][p] \/ reply'[q][p] = <<>>
  BY <1>1, <1>2, <1>3 DEF Wires
<1>6. /\ wire' \in Wires
      /\ \A q, p \in Server : wire'[q][p] = wire[q][p] \/ wire'[q][p] = <<>>
  BY <1>1, <1>2, <1>3 DEF Wires
<1>7. serverType' \in [Server -> {"leader", "follower", "candidate", "down"}]
  BY <1>2, <1>3
<1>8. /\ requests' \in [Server -> Seq(CommandType)] /\ requests'[s] = <<>>
      /\ \A p \in Server : p # s => requests'[p] = requests[p]
  BY <1>1, <1>2, <1>3
<1>9. /\ clientType' \in [Server -> [Server -> {"leader", "follower", "closed"}]]
      /\ clientType'[s][s] = "closed" /\ \A p \in Server : p # s => clientType'[p] = clientType[p]
  BY <1>2, <1>3
<1>10. TypeOK'
  BY <1>2, <1>4, <1>5, <1>6, <1>7, <1>8, <1>9 DEF TypeOK, Wires, dataVars, pastVars
<1>11. Flows
  BY <1>4, <1>5, <1>6, <1>10, LossFlows
<1> QED
  BY <1>4, <1>8, <1>9, <1>11

LEMMA CloseFacts ==
  ASSUME TypeOK, NEW s \in Server, NEW p \in Server, CloseClient(s, p)
  PROVE  /\ clientType' \in [Server -> [Server -> {"leader", "follower", "closed"}]]
         /\ wire' \in Wires /\ reply' \in Wires
         /\ \A q, r \in Server : /\ wire'[q][r] = wire[q][r] \/ wire'[q][r] = <<>>
                                 /\ reply'[q][r] = reply[q][r] \/ reply'[q][r] = <<>>
                                 /\ clientType'[q][r] = clientType[q][r] \/ clientType'[q][r] = "closed"
<1>1. <<>> \in Seq(Packet) /\ wire \in Wires /\ reply \in Wires
      /\ clientType \in [Server -> [Server -> {"leader", "follower", "closed"}]]
  BY EmptySeq DEF TypeOK, Wires
<1>2. /\ clientType' = [clientType EXCEPT ![s][p] = "closed"]
      /\ reply' = [reply EXCEPT ![s][p] = <<>>]
      /\ wire' = [wire EXCEPT ![p][s] = <<>>]
  BY DEF CloseClient
<1>3. /\ clientType' \in [Server -> [Server -> {"leader", "follower", "closed"}]]
      /\ \A q, r \in Server : clientType'[q][r] = clientType[q][r] \/ clientType'[q][r] = "closed"
  BY <1>1, <1>2
<1>4. reply' \in Wires /\ \A q, r \in Server : reply'[q][r] = reply[q][r] \/ reply'[q][r] = <<>>
  BY <1>1, <1>2 DEF Wires
<1>5. wire' \in Wires /\ \A q, r \in Server : wire'[q][r] = wire[q][r] \/ wire'[q][r] = <<>>
  BY <1>1, <1>2 DEF Wires
<1> QED
  BY <1>3, <1>4, <1>5

LEMMA EndFacts ==
  ASSUME TypeOK, NEW s \in Server, NEW p \in Server, ReadEnd(s, p)
  PROVE  /\ Flows
         /\ \A q \in Server : clientType[q][q] = "closed" => clientType'[q][q] = "closed"
<1>1. /\ CloseClient(s, p)
      /\ UNCHANGED <<serverType, dataVars, requests, handler, writes, pastVars>>
  BY DEF ReadEnd
<1>2. TypeOK'
  BY <1>1, CloseFacts DEF TypeOK, Wires, dataVars, pastVars
<1> QED
  BY <1>1, <1>2, CloseFacts, LossFlows

LEMMA FollowerFacts ==
  ASSUME TypeOK, NEW s \in Server, CronFollower(s)
  PROVE  /\ Flows
         /\ \A q \in Server : clientType[q][q] = "closed" => clientType'[q][q] = "closed"
<1>1. /\ serverType' = [serverType EXCEPT ![s] = "candidate"]
      /\ timeouts' = timeouts + 1
      /\ UNCHANGED <<dataVars, requests, handler, writes, inherited>>
      /\ UNCHANGED <<clientType, reply, wire>> \/ \E p \in Server : CloseClient(s, p)
  BY DEF CronFollower
<1>2. /\ clientType' \in [Server -> [Server -> {"leader", "follower", "closed"}]]
      /\ wire' \in Wires /\ reply' \in Wires
      /\ \A q, r \in Server : /\ wire'[q][r] = wire[q][r] \/ wire'[q][r] = <<>>
                              /\ reply'[q][r] = reply[q][r] \/ reply'[q][r] = <<>>
                              /\ clientType'[q][r] = clientType[q][r] \/ clientType'[q][r] = "closed"
  <2>1. CASE UNCHANGED <<clientType, reply, wire>>
    BY <2>1 DEF TypeOK, Wires
  <2>2. CASE \E p \in Server : CloseClient(s, p)
    BY <2>2, CloseFacts
  <2> QED
    BY <1>1, <2>1, <2>2
<1>3. serverType' \in [Server -> {"leader", "follower", "candidate", "down"}] /\ timeouts' \in Nat
  BY <1>1 DEF TypeOK
<1>4. TypeOK'
  BY <1>1, <1>2, <1>3 DEF TypeOK, Wires, dataVars
<1> QED
  BY <1>1, <1>2, <1>4, LossFlows

LEMMA CandidateFacts ==
  ASSUME TypeOK, NEW s \in Server, CronCandidate(s)
  PROVE  Flows
<1>1. /\ serverType[s] = "candidate"
      /\ serverType' = [serverType EXCEPT ![s] = "leader"]
      /\ wire' = Sent(wire, s, Followers(s), BeMy)
      /\ inherited' = applied[s]
      /\ UNCHANGED <<clientType, dataVars, requests, reply, handler, writes, timeouts>>
  BY DEF CronCandidate
<1>2. wire \in Wires /\ serverType \in [Server -> {"leader", "follower", "candidate", "down"}]
  BY DEF TypeOK, Wires
<1>3. /\ wire' \in Wires
      /\ \A q, p \in Server : wire'[q][p] = wire[q][p] \/ (q = s /\ wire'[q][p] = Append(wire[q][p], BeMy))
  BY <1>1, <1>2, PacketParts, SentEffect
<1>4. serverType' \in [Server -> {"leader", "follower", "candidate", "down"}] /\ serverType'[s] = "leader"
  BY <1>1, <1>2
<1>5. inherited' \in Seq(CommandType)
  BY <1>1 DEF TypeOK
<1>6. TypeOK'
  BY <1>1, <1>3, <1>4, <1>5 DEF TypeOK, Wires, dataVars
<1>7. Appears(s, BeMy) /\ BeMy \in Packet
  BY <1>1, <1>4, PacketParts DEF Appears
<1> QED
  BY <1>1, <1>3, <1>6, <1>7, WiresGrow, RepliesKept, BatchesKept DEF Flows

-----------------------------------------------------------------------------
(* The types. *)

LEMMA FlowsNext == ASSUME Sound, Next PROVE Flows
<1>1. ASSUME NEW s \in Server, Issue(s) \/ ReadRequests(s) \/ WriteCommand(s) \/ SynNext(s) \/ SynOther(s)
      PROVE  Flows
  BY <1>1, FlowsIssue, RequestsRead, WriteFacts, SynFacts, OtherFacts DEF Sound
<1>2. ASSUME NEW s \in Server, AckResponse(s) \/ BeMyFollower(s) \/ ServerCron(s)
      PROVE  Flows
  BY <1>2, AckFacts, BeMyFacts, CronFacts DEF Sound
<1>3. ASSUME NEW s \in Server, Crash(s) \/ CronFollower(s) \/ CronCandidate(s)
      PROVE  Flows
  BY <1>3, CrashFacts, FollowerFacts, CandidateFacts DEF Sound
<1>4. ASSUME NEW s \in Server, NEW p \in Server, ReadPackets(s, p) \/ ClientWrite(s, p) \/ ReadEnd(s, p)
      PROVE  Flows
  BY <1>4, FlowsReadPackets, FlowsClientWrite, EndFacts DEF Sound
<1> QED
  BY <1>1, <1>2, <1>3, <1>4 DEF Next

(* What a server executes is a user's command or a SYN's. *)
LEMMA LogsNext ==
  ASSUME Sound, Next, NEW s \in Server
  PROVE  \/ oldCmds'[s] = oldCmds[s] /\ applied'[s] = applied[s] /\ store'[s] = store[s]
         \/ /\ WriteCommand(s) \/ SynNext(s)
            /\ Packet1(s).cmd \in CommandType
            /\ oldCmds'[s] = Append(oldCmds[s], handler[s].first)
            /\ applied'[s] = Append(applied[s], Packet1(s).cmd)
            /\ store'[s] = Executed(Packet1(s).cmd, store[s])
            /\ \A p \in Server : p # s => /\ oldCmds'[p] = oldCmds[p] /\ applied'[p] = applied[p]
                                          /\ store'[p] = store[p]
<1>1. CASE UNCHANGED dataVars
  BY <1>1 DEF dataVars
<1>2. ASSUME NEW r \in Server, WriteCommand(r) \/ SynNext(r)
      PROVE  /\ Packet1(r).cmd \in CommandType
             /\ oldCmds'[r] = Append(oldCmds[r], handler[r].first)
             /\ applied'[r] = Append(applied[r], Packet1(r).cmd)
             /\ store'[r] = Executed(Packet1(r).cmd, store[r])
             /\ \A p \in Server : p # r => /\ oldCmds'[p] = oldCmds[p] /\ applied'[p] = applied[p]
                                           /\ store'[p] = store[p]
  <2>1. Handles(r) /\ Packet1(r).cmd \in CommandType /\ RunWrite(r, Packet1(r).cmd)
    BY <1>2, WriteFacts, SynFacts
  <2> QED
    BY <2>1, RunWriteEffect DEF Sound
<1>3. CASE \E r \in Server : WriteCommand(r) \/ SynNext(r)
  BY <1>2, <1>3
<1>4. UNCHANGED dataVars \/ \E r \in Server : WriteCommand(r) \/ SynNext(r)
  <2>1. ASSUME NEW r \in Server,
               \/ Issue(r) \/ ReadRequests(r) \/ SynOther(r) \/ AckResponse(r) \/ BeMyFollower(r)
               \/ ServerCron(r) \/ Crash(r) \/ CronFollower(r) \/ CronCandidate(r)
        PROVE  UNCHANGED dataVars
    BY <2>1 DEF Issue, ReadRequests, SynOther, AckResponse, BeMyFollower, ServerCron, Crash,
                CronFollower, CronCandidate
  <2>2. ASSUME NEW r \in Server, NEW p \in Server, ReadPackets(r, p) \/ ClientWrite(r, p) \/ ReadEnd(r, p)
        PROVE  UNCHANGED dataVars
    BY <2>2 DEF ReadPackets, ClientWrite, ReadEnd
  <2> QED
    BY <2>1, <2>2 DEF Next
<1> QED
  BY <1>1, <1>3, <1>4

(* What a batch is logged as. *)
LEMMA FirstRead ==
  ASSUME Sound, NEW s \in Server, Running(s)
  PROVE  /\ handler[s].first \in Packet /\ HasCommand(handler[s].first)
         /\ \/ handler[s].client = User /\ handler[s].first.hdr = <<>>
            \/ /\ handler[s].client \in Server \ {s} /\ From(handler[s].client, handler[s].first)
               /\ handler[s].first.hdr # <<>>
<1>1. /\ handler[s].first \in Packet /\ InBatch(handler[s].first, s)
      /\ handler[s].client \in Server \cup {User}
  BY HandlerParts DEF Sound
<1>2. CASE handler[s].client = User
  BY <1>1, <1>2 DEF Sound, Packets
<1>3. CASE handler[s].client \in Server
  <2>1. From(handler[s].client, handler[s].first) /\ handler[s].client # s
    BY <1>1, <1>3, FromParts DEF Sound, Packets
  <2> QED
    BY <1>1, <1>3, <2>1 DEF Sound, Packets
<1> QED
  BY <1>1, <1>2, <1>3

(* A batch keeps its client. *)
ClientsKept ==
  \A s \in Server : clientType[s][s] = "closed" /\ (Running(s) => handler[s].client # s)

LEMMA ClientsNext ==
  ASSUME Sound, Next
  PROVE  ClientsKept'
<1>0. ClientsKept /\ handler \in [Server -> HandlerType]
  BY DEF Sound, Packets, TypeOK, ClientsKept
<1>1. ASSUME UNCHANGED handler,
             \A p \in Server : clientType[p][p] = "closed" => clientType'[p][p] = "closed"
      PROVE  ClientsKept'
  BY <1>0, <1>1 DEF ClientsKept, Running
<1>2. ASSUME NEW s \in Server, Running(s), Advanced(s),
             \A p \in Server : clientType[p][p] = "closed" => clientType'[p][p] = "closed"
      PROVE  ClientsKept'
  <2> SUFFICES ASSUME NEW p \in Server, Running(p)'
               PROVE  handler'[p].client # p
    BY <1>0, <1>2 DEF ClientsKept
  <2>1. handler'[p].client = handler[p].client /\ Running(p)
    BY <1>2 DEF Advanced, Running
  <2> QED
    BY <1>0, <2>1 DEF ClientsKept
<1>3. ASSUME NEW s \in Server, WriteCommand(s) \/ SynNext(s) \/ SynOther(s) \/ AckResponse(s)
      PROVE  ClientsKept'
  <2>1. Running(s) /\ Advanced(s)
    BY <1>3, WriteFacts, SynFacts, OtherFacts, AckFacts DEF Handles
  <2>2. UNCHANGED clientType
    BY <1>3 DEF WriteCommand, SynNext, SynOther, AckResponse, roleVars
  <2> QED
    BY <1>2, <2>1, <2>2
<1>4. ASSUME NEW s \in Server, BeMyFollower(s) PROVE ClientsKept'
  <2>1. /\ Running(s) /\ Advanced(s)
        /\ clientType'[s][s] = "closed" /\ \A p \in Server : p # s => clientType'[p] = clientType[p]
    BY <1>4, BeMyFacts DEF Handles
  <2>2. \A p \in Server : clientType[p][p] = "closed" => clientType'[p][p] = "closed"
    BY <2>1
  <2> QED
    BY <1>2, <2>1, <2>2
<1>5. ASSUME NEW s \in Server, ReadRequests(s) PROVE ClientsKept'
  <2>1. handler'[s].client = User /\ \A p \in Server : p # s => handler'[p] = handler[p]
    BY <1>5, RequestsRead DEF Sound
  <2>2. UNCHANGED clientType
    BY <1>5 DEF ReadRequests, roleVars
  <2> QED
    BY <1>0, <2>1, <2>2, ReplicationConstants DEF ClientsKept, Running
<1>6. ASSUME NEW s \in Server, NEW p \in Server, ReadPackets(s, p) PROVE ClientsKept'
  <2>1. UNCHANGED clientType /\ clientType[s][p] # "closed"
    BY <1>6 DEF ReadPackets, Open, roleVars
  <2>2. handler'[s].client = p /\ \A r \in Server : r # s => handler'[r] = handler[r]
    BY <1>6, FlowsReadPackets DEF Sound
  <2> QED
    BY <1>0, <2>1, <2>2 DEF ClientsKept, Running
<1>7. ASSUME NEW s \in Server, Crash(s) PROVE ClientsKept'
  <2>1. /\ handler'[s].todo = <<>> /\ \A p \in Server : p # s => handler'[p] = handler[p]
        /\ clientType'[s][s] = "closed" /\ \A p \in Server : p # s => clientType'[p] = clientType[p]
    BY <1>7, CrashFacts DEF Sound
  <2> QED
    BY <1>0, <2>1 DEF ClientsKept, Running
<1>8. ASSUME NEW s \in Server, CronFollower(s) PROVE ClientsKept'
  BY <1>1, <1>8, FollowerFacts DEF Sound, CronFollower
<1>9. ASSUME NEW s \in Server, NEW p \in Server, ReadEnd(s, p) PROVE ClientsKept'
  BY <1>1, <1>9, EndFacts DEF Sound, ReadEnd
<1>10. \A s \in Server : Issue(s) \/ ServerCron(s) \/ CronCandidate(s) => UNCHANGED <<handler, clientType>>
  BY DEF Issue, ServerCron, CronCandidate, roleVars
<1>11. \A s, p \in Server : ClientWrite(s, p) => UNCHANGED <<handler, clientType>>
  BY DEF ClientWrite, roleVars
<1> QED
  BY <1>1, <1>3, <1>4, <1>5, <1>6, <1>7, <1>8, <1>9, <1>10, <1>11 DEF Next

LEMMA SoundNext ==
  ASSUME Sound, [Next]_vars
  PROVE  Sound'
<1>1. CASE UNCHANGED vars
  BY <1>1 DEF vars, roleVars, dataVars, pastVars, Sound, TypeOK, Packets, From, InBatch, Running, InSeq
<1>2. CASE Next
  <2>1. Flows
    BY <1>2, FlowsNext
  <2>2. ClientsKept'
    BY <1>2, ClientsNext
  <2>3. ASSUME NEW s \in Server
        PROVE  /\ \A i \in DOMAIN oldCmds'[s] : HasCommand(oldCmds'[s][i])
               /\ Len(oldCmds'[s]) = Len(applied'[s])
    <3>1. /\ oldCmds[s] \in Seq(Packet) /\ applied[s] \in Seq(CommandType)
          /\ Len(oldCmds[s]) = Len(applied[s]) /\ \A i \in DOMAIN oldCmds[s] : HasCommand(oldCmds[s][i])
      BY DEF Sound, TypeOK, Packets
    <3>2. CASE oldCmds'[s] = oldCmds[s] /\ applied'[s] = applied[s]
      BY <3>1, <3>2
    <3>3. CASE /\ WriteCommand(s) \/ SynNext(s)
               /\ Packet1(s).cmd \in CommandType
               /\ oldCmds'[s] = Append(oldCmds[s], handler[s].first)
               /\ applied'[s] = Append(applied[s], Packet1(s).cmd)
      <4>1. Running(s)
        BY <3>3, WriteFacts, SynFacts DEF Handles
      <4>2. handler[s].first \in Packet /\ HasCommand(handler[s].first)
        BY <4>1, FirstRead
      <4>3. /\ DOMAIN oldCmds'[s] = 1..Len(oldCmds[s]) + 1 /\ Len(oldCmds[s]) \in Nat
            /\ DOMAIN oldCmds[s] = 1..Len(oldCmds[s])
            /\ \A i \in 1..Len(oldCmds[s]) : oldCmds'[s][i] = oldCmds[s][i]
            /\ oldCmds'[s][Len(oldCmds[s]) + 1] = handler[s].first
            /\ Len(oldCmds'[s]) = Len(oldCmds[s]) + 1
        BY <3>1, <3>3, <4>2, AppendProperties, LenProperties
      <4>4. Len(applied'[s]) = Len(applied[s]) + 1
        BY <3>1, <3>3, AppendProperties
      <4> QED
        BY <3>1, <4>2, <4>3, <4>4
    <3> QED
      BY <1>2, <3>2, <3>3, LogsNext
  <2>4. \A q \in Server : \A m \in Packet : From(q, m)' => m.hdr # <<>> /\ HasCommand(m)
    <3> SUFFICES ASSUME NEW q \in Server, NEW m \in Packet, From(q, m)'
                 PROVE  m.hdr # <<>> /\ HasCommand(m)
      OBVIOUS
    <3>1. From(q, m) \/ Appears(q, m)
      BY <2>1, FromNext DEF Comes
    <3>2. CASE From(q, m)
      BY <3>2 DEF Sound, Packets
    <3>3. ASSUME NEW once \in BOOLEAN, NEW n \in Nat, m = HeartBeat(oldCmds'[q], "SYN", once, n)
          PROVE  m.hdr # <<>> /\ HasCommand(m)
      <4>1. oldCmds'[q] \in Seq(Packet)
        BY <2>1 DEF Flows, TypeOK
      <4> QED
        BY <2>3, <3>3, <4>1, HeartBeatIs, HeartBeatCommand
    <3> QED
      BY <3>1, <3>2, <3>3, PacketParts DEF Appears
  <2>5. \A s \in Server : \A m \in Packet : handler'[s].client = User /\ InBatch(m, s)' =>
          m.hdr = <<>> /\ HasCommand(m)
    BY <2>1, PacketParts DEF Flows, BatchFlows, Sound, Packets
  <2> QED
    BY <2>1, <2>2, <2>3, <2>4, <2>5 DEF Sound, Packets, Flows, ClientsKept
<1> QED
  BY <1>1, <1>2

-----------------------------------------------------------------------------

LEMMA NothingInFlight ==
  ASSUME Init
  PROVE  /\ \A q \in Server : \A m : ~From(q, m)
         /\ \A s \in Server : ~Running(s) /\ handler[s] = Idle(s)
<1>1. \A q, p \in Server : wire[q][p] = <<>> /\ reply[q][p] = <<>> /\ handler[p] = Idle(p)
  BY DEF Init, InitAfter
<1>2. \A p \in Server : handler[p].todo = <<>>
  BY <1>1, IdleTyped
<1> QED
  BY <1>1, <1>2 DEF From, InBatch, Running, InSeq

LEMMA LogsInit ==
  ASSUME NEW n \in 0..Len(Workload), InitAfter(n)
  PROVE  /\ n \in Nat /\ oldCmds \in [Server -> Seq(Packet)] /\ applied \in [Server -> Seq(CommandType)]
         /\ Len(oldCmds[FirstLeader]) = n /\ Len(applied[FirstLeader]) = n
         /\ \A i \in 1..n : /\ applied[FirstLeader][i] \in CommandType
                            /\ oldCmds[FirstLeader][i] = Request(applied[FirstLeader][i])
         /\ \A s \in Server \ {FirstLeader} : oldCmds[s] = <<>> /\ applied[s] = <<>>
<1> DEFINE log == [i \in 1..n |-> Request(Workload[i])]
           cs  == SubSeq(Workload, 1, n)
<1>1. Workload \in Seq(CommandType) /\ Len(Workload) \in Nat /\ n \in Nat /\ n <= Len(Workload)
  BY ReplicationConstants, LenProperties
<1>2. \A i \in 1..n : Workload[i] \in CommandType
  BY <1>1, ElementOfSeq
<1>3. log \in Seq(Packet) /\ DOMAIN log = 1..n
  BY <1>1, <1>2, PacketParts, SeqDef
<1>4. Len(log) = n
  BY <1>1, <1>3, LenProperties
<1>5. cs \in Seq(CommandType) /\ Len(cs) = n /\ \A i \in 1..n : cs[i] = Workload[i]
  BY <1>1, <1>2, SubSeqProperties
<1>6. <<>> \in Seq(Packet) /\ <<>> \in Seq(CommandType)
  BY EmptySeq
<1>7. /\ oldCmds = [s \in Server |-> IF s = FirstLeader THEN log ELSE <<>>]
      /\ applied = [s \in Server |-> IF s = FirstLeader THEN cs ELSE <<>>]
  BY DEF InitAfter
<1>8. \A i \in 1..n : log[i] = Request(Workload[i])
  OBVIOUS
<1> HIDE DEF log, cs
<1>9. /\ oldCmds \in [Server -> Seq(Packet)] /\ applied \in [Server -> Seq(CommandType)]
      /\ oldCmds[FirstLeader] = log /\ applied[FirstLeader] = cs
      /\ \A s \in Server \ {FirstLeader} : oldCmds[s] = <<>> /\ applied[s] = <<>>
  BY <1>3, <1>5, <1>6, <1>7, ReplicationConstants
<1> QED
  BY <1>1, <1>2, <1>4, <1>5, <1>8, <1>9

LEMMA SoundInit == Init => Sound
<1> SUFFICES ASSUME Init PROVE Sound
  OBVIOUS
<1>1. PICK n \in 0..Len(Workload) : InitAfter(n)
  BY DEF Init
<1>2. /\ n \in Nat /\ oldCmds \in [Server -> Seq(Packet)] /\ applied \in [Server -> Seq(CommandType)]
      /\ Len(oldCmds[FirstLeader]) = n /\ Len(applied[FirstLeader]) = n
      /\ \A i \in 1..n : /\ applied[FirstLeader][i] \in CommandType
                         /\ oldCmds[FirstLeader][i] = Request(applied[FirstLeader][i])
      /\ \A s \in Server \ {FirstLeader} : oldCmds[s] = <<>> /\ applied[s] = <<>>
  BY <1>1, LogsInit
<1>3. \A s \in Server : Len(oldCmds[s]) = Len(applied[s])
  BY <1>2
<1>4. ASSUME NEW s \in Server, NEW i \in DOMAIN oldCmds[s] PROVE HasCommand(oldCmds[s][i])
  <2>1. s = FirstLeader /\ i \in 1..n
    <3>1. DOMAIN oldCmds[s] = 1..Len(oldCmds[s])
      BY <1>2, LenProperties
    <3> QED
      BY <1>2, <1>4, <3>1
  <2> QED
    BY <1>2, <2>1, PacketParts
<1>5. store \in [Server -> [Key -> Value \cup {Nil}]]
  <2> DEFINE cs == SubSeq(Workload, 1, n)
  <2>1. PICK h \in Stores(cs) : store = [s \in Server |-> h[IF s = FirstLeader THEN n ELSE 0]]
    BY <1>1 DEF InitAfter
  <2>2. Len(cs) = n
    BY <1>1, <1>2, ReplicationConstants DEF InitAfter
  <2> HIDE DEF cs
  <2>3. h \in [0..n -> [Key -> Value \cup {Nil}]]
    BY <2>2 DEF Stores
  <2> QED
    BY <1>2, <2>1, <2>3
<1>6. <<>> \in Seq(Packet) /\ <<>> \in Seq(CommandType)
  BY EmptySeq
<1>7. TypeOK
  BY <1>1, <1>2, <1>5, <1>6, IdleTyped DEF InitAfter, TypeOK
<1>8. \A s \in Server : clientType[s][s] = "closed"
  BY <1>1 DEF InitAfter
<1> QED
  BY <1>3, <1>4, <1>7, <1>8, NothingInFlight DEF Sound, Packets, InBatch

(* Every variable of the replication keeps its type: logs and packets hold    *)
(* packets, what servers execute are commands, whatever is logged under a     *)
(* wrong text.                                                                *)
THEOREM TypeCorrect == Spec => []TypeOK
<1>1. Sound => TypeOK
  BY DEF Sound
<1> QED
  BY <1>1, SoundInit, SoundNext, PTL DEF Spec

-----------------------------------------------------------------------------
(* The texts. *)

(* All headers of m are SYNs of one entry. *)
Uniform(m) ==
  m.hdr # <<>> /\ \A i \in DOMAIN m.hdr : m.hdr[i].type = "SYN" /\ m.hdr[i].off = m.hdr[1].off

(* m passes on no other command as an entry than the one A has there. *)
Says(m, A) == Uniform(m) /\ m.hdr[1].off \in DOMAIN A => m.cmd = A[m.hdr[1].off]

(* So does the i-th entry of a log, which may be a user's packet. *)
Entry(e, i, A) == IF e.hdr = <<>> THEN i \in DOMAIN A => e.cmd = A[i] ELSE Says(e, A)

Logs(A) == \A s \in Server : \A i \in DOMAIN oldCmds[s] : Entry(oldCmds[s][i], i, A)

(* What is executed, logged or in flight agrees with A. *)
Texts(A) ==
  /\ \A q \in Server : \A m \in Packet : From(q, m) => Says(m, A)
  /\ Logs(A)
  /\ \A s \in Server : Agree(applied[s], A)

(* A user's batch is one packet. *)
Singles ==
  \A s \in Server : Running(s) /\ handler[s].client = User => handler[s].todo = <<handler[s].first>>

LEMMA SinglesNext ==
  ASSUME Sound, MaxUserBatch = 1, Singles, [Next]_vars
  PROVE  Singles'
<1>0. handler \in [Server -> HandlerType]
  BY DEF Sound, TypeOK
<1>1. ASSUME UNCHANGED handler PROVE Singles'
  BY <1>1 DEF Singles, Running
<1>2. ASSUME NEW s \in Server, Running(s), Advanced(s) PROVE Singles'
  <2> SUFFICES ASSUME NEW p \in Server, handler'[p].todo # <<>>, handler'[p].client = User
               PROVE  handler'[p].todo = <<handler'[p].first>>
    BY DEF Singles, Running
  <2>1. CASE p # s
    BY <1>2, <2>1 DEF Advanced, Singles, Running
  <2>2. CASE p = s
    <3>1. handler'[s].todo = Tail(handler[s].todo) /\ handler[s].client = User
      BY <1>2, <2>2 DEF Advanced
    <3>2. handler[s].todo = <<handler[s].first>>
      BY <1>2, <3>1 DEF Singles
    <3>3. Tail(<<handler[s].first>>) = <<>>
      OBVIOUS
    <3> QED
      BY <2>2, <3>1, <3>2, <3>3
  <2> QED
    BY <2>1, <2>2
<1>3. ASSUME NEW s \in Server,
             WriteCommand(s) \/ SynNext(s) \/ SynOther(s) \/ AckResponse(s) \/ BeMyFollower(s)
      PROVE  Singles'
  BY <1>2, <1>3, WriteFacts, SynFacts, OtherFacts, AckFacts, BeMyFacts DEF Handles
<1>4. ASSUME NEW s \in Server, ReadRequests(s) PROVE Singles'
  <2> DEFINE r == Request(requests[s][1])
  <2>1. /\ \A p \in Server : p # s => handler'[p] = handler[p]
        /\ \E n \in 1..1 : /\ handler'[s].first = r
                           /\ handler'[s].todo = [i \in 1..n |-> Request(requests[s][i])]
    BY <1>4, RequestsRead DEF Sound
  <2>2. [i \in 1..1 |-> Request(requests[s][i])] = <<r>>
    OBVIOUS
  <2>3. handler'[s].first = r /\ handler'[s].todo = <<r>>
    BY <2>1, <2>2
  <2> QED
    BY <2>1, <2>3 DEF Singles, Running
<1>5. ASSUME NEW s \in Server, NEW p \in Server, ReadPackets(s, p) PROVE Singles'
  <2>1. handler'[s].client = p /\ \A r \in Server : r # s => handler'[r] = handler[r]
    BY <1>5, FlowsReadPackets DEF Sound
  <2> QED
    BY <2>1, ReplicationConstants DEF Singles, Running
<1>6. ASSUME NEW s \in Server, Crash(s) PROVE Singles'
  BY <1>6, CrashFacts DEF Singles, Running, Sound
<1>7. UNCHANGED vars => UNCHANGED handler
  BY DEF vars
<1>8. \A s \in Server :
        Issue(s) \/ ServerCron(s) \/ CronFollower(s) \/ CronCandidate(s) => UNCHANGED handler
  BY DEF Issue, ServerCron, CronFollower, CronCandidate
<1>9. \A s, p \in Server : ClientWrite(s, p) \/ ReadEnd(s, p) => UNCHANGED handler
  BY DEF ClientWrite, ReadEnd
<1> QED
  BY <1>1, <1>3, <1>4, <1>5, <1>6, <1>7, <1>8, <1>9 DEF Next

(* A user's command is logged as itself. *)
LEMMA WriteLogs ==
  ASSUME Sound, Singles, NEW s \in Server, WriteCommand(s)
  PROVE  handler[s].first = Packet1(s) /\ Packet1(s).hdr = <<>>
<1>1. Handles(s) /\ handler[s].client = User
  BY WriteFacts
<1>2. handler[s].todo = <<handler[s].first>>
  BY <1>1 DEF Singles, Handles
<1>3. Packet1(s) = handler[s].first
  BY <1>2 DEF Packet1
<1> QED
  BY <1>3 DEF WriteCommand, Packet1

LEMMA HeartBeatSays ==
  ASSUME NEW A, NEW log \in Seq(Packet), \A i \in DOMAIN log : Entry(log[i], i, A),
         A \in Seq(CommandType), NEW once \in BOOLEAN, NEW n \in Nat
  PROVE  Says(HeartBeat(log, "SYN", once, n), A)
<1> DEFINE b == HeartBeat(log, "SYN", once, n)
           k == b.hdr[1].off
           e == log[k]
<1> HIDE DEF b
<1>1. SUFFICES ASSUME Uniform(b), k \in DOMAIN A
               PROVE  b.cmd = A[k]
  BY DEF Says, b
<1>2. /\ b \in Packet /\ b.hdr # <<>>
      /\ k = 0 \/ /\ k \in 1..Len(log) /\ Len(b.hdr) = Len(e.hdr) + 1 /\ b.cmd = e.cmd
                  /\ \A i \in 1..Len(e.hdr) : b.hdr[i + 1] = e.hdr[i]
  BY HeartBeatIs DEF b
<1>3. k # 0
  BY <1>1, LenProperties
<1>4. /\ k \in DOMAIN log /\ e \in Packet
      /\ Len(e.hdr) \in Nat /\ DOMAIN e.hdr = 1..Len(e.hdr)
      /\ DOMAIN b.hdr = 1..Len(e.hdr) + 1
  <2>1. k \in DOMAIN log /\ e \in Packet
    BY <1>2, <1>3, ElementOfSeq, LenProperties
  <2>2. Len(e.hdr) \in Nat /\ DOMAIN e.hdr = 1..Len(e.hdr)
    BY <2>1, LenProperties DEF Packet
  <2>3. DOMAIN b.hdr = 1..Len(b.hdr)
    BY <1>2, LenProperties DEF Packet
  <2> QED
    BY <1>2, <1>3, <2>1, <2>2, <2>3
<1>5. Entry(e, k, A)
  BY <1>4
<1>6. CASE e.hdr = <<>>
  BY <1>1, <1>2, <1>3, <1>5, <1>6 DEF Entry
<1>7. CASE e.hdr # <<>>
  <2>1. \A i \in DOMAIN e.hdr : e.hdr[i].type = "SYN" /\ e.hdr[i].off = k
    <3> TAKE i \in DOMAIN e.hdr
    <3> HIDE DEF e, k
    <3>1. i \in 1..Len(e.hdr) /\ i + 1 \in 1..Len(e.hdr) + 1
      BY <1>4
    <3>2. i + 1 \in DOMAIN b.hdr /\ b.hdr[i + 1] = e.hdr[i]
      BY <1>2, <1>3, <1>4, <3>1
    <3> QED
      BY <1>1, <3>2 DEF Uniform, k
  <2>2. 1 \in DOMAIN e.hdr
    <3>1. Len(e.hdr) # 0
      BY <1>4, <1>7, EmptySeq DEF Packet
    <3> QED
      BY <1>4, <3>1
  <2>3. Uniform(e) /\ e.hdr[1].off = k
    BY <1>7, <2>1, <2>2 DEF Uniform
  <2> QED
    BY <1>1, <1>2, <1>3, <1>5, <1>7, <2>3 DEF Entry, Says
<1> QED
  BY <1>6, <1>7

(* A SYN that is executed is that of the next entry. *)
LEMMA SynSays ==
  ASSUME Sound, NEW A, Texts(A), NEW s \in Server, SynNext(s)
  PROVE  /\ Uniform(Packet1(s)) /\ Packet1(s).hdr[1].off = Len(applied[s]) + 1
         /\ Packet1(s).hdr[1].type = "SYN"
         /\ Len(applied[s]) + 1 \in DOMAIN A => Packet1(s).cmd = A[Len(applied[s]) + 1]
<1> DEFINE m == Packet1(s)
<1>1. /\ handler[s].client \in Server /\ From(handler[s].client, m)
      /\ Unwraps(m, Len(oldCmds[s])) /\ m.hdr # <<>> /\ Handles(s)
  BY SynFacts
<1>2. m \in Packet /\ Len(oldCmds[s]) = Len(applied[s])
  BY <1>1, PacketRead DEF Sound, Packets
<1>3. 1 \in DOMAIN m.hdr
  <2>1. Len(m.hdr) \in Nat \ {0} /\ DOMAIN m.hdr = 1..Len(m.hdr)
    BY <1>1, <1>2, EmptySeq, LenProperties DEF Packet
  <2> QED
    BY <2>1
<1>4. \A i \in DOMAIN m.hdr : m.hdr[i].type = "SYN" /\ m.hdr[i].off = Len(applied[s]) + 1
  BY <1>1, <1>2 DEF Unwraps, IsNext
<1>5. Uniform(m) /\ m.hdr[1].off = Len(applied[s]) + 1 /\ m.hdr[1].type = "SYN"
  BY <1>1, <1>3, <1>4 DEF Uniform
<1>6. Says(m, A)
  BY <1>1, <1>2 DEF Texts
<1> QED
  BY <1>5, <1>6 DEF Says

(* A step keeps the texts in agreement with A, if the user's command it may   *)
(* execute does not contradict A.                                             *)
LEMMA TextsNext ==
  ASSUME Sound, Singles, Next, NEW A \in Seq(CommandType), Texts(A),
         \A s \in Server : WriteCommand(s) /\ Len(applied[s]) + 1 \in DOMAIN A =>
           Packet1(s).cmd = A[Len(applied[s]) + 1]
  PROVE  Texts(A)'
<1>0. Flows
  BY FlowsNext
<1>1. ASSUME NEW s \in Server
      PROVE  /\ oldCmds'[s] \in Seq(Packet)
             /\ \A i \in DOMAIN oldCmds'[s] : Entry(oldCmds'[s][i], i, A)
             /\ Agree(applied'[s], A)
  <2>1. /\ oldCmds[s] \in Seq(Packet) /\ applied[s] \in Seq(CommandType)
        /\ Len(oldCmds[s]) = Len(applied[s]) /\ oldCmds'[s] \in Seq(Packet)
    BY <1>0 DEF Sound, TypeOK, Packets, Flows
  <2>2. Agree(applied[s], A) /\ \A i \in DOMAIN oldCmds[s] : Entry(oldCmds[s][i], i, A)
    BY DEF Texts, Logs
  <2>3. CASE oldCmds'[s] = oldCmds[s] /\ applied'[s] = applied[s]
    BY <2>1, <2>2, <2>3
  <2>4. CASE /\ WriteCommand(s) \/ SynNext(s)
             /\ Packet1(s).cmd \in CommandType
             /\ oldCmds'[s] = Append(oldCmds[s], handler[s].first)
             /\ applied'[s] = Append(applied[s], Packet1(s).cmd)
    <3> DEFINE n == Len(applied[s])
    <3>1. n + 1 \in DOMAIN A => Packet1(s).cmd = A[n + 1]
      BY <2>4, SynSays
    <3>2. Entry(handler[s].first, n + 1, A)
      <4>1. CASE WriteCommand(s)
        BY <3>1, <4>1, WriteLogs DEF Entry
      <4>2. CASE SynNext(s)
        <5>1. Running(s) /\ handler[s].client # User
          BY <4>2, SynFacts, ReplicationConstants DEF Handles
        <5>2. /\ handler[s].first \in Packet /\ handler[s].first.hdr # <<>>
              /\ handler[s].client \in Server /\ From(handler[s].client, handler[s].first)
          BY <5>1, FirstRead
        <5> QED
          BY <5>2 DEF Entry, Texts
      <4> QED
        BY <2>4, <4>1, <4>2
    <3>3. handler[s].first \in Packet
      BY HandlerParts DEF Sound
    <3>4. /\ DOMAIN oldCmds'[s] = 1..n + 1 /\ n \in Nat
          /\ DOMAIN oldCmds[s] = 1..n
          /\ \A i \in 1..n : oldCmds'[s][i] = oldCmds[s][i]
          /\ oldCmds'[s][n + 1] = handler[s].first
      BY <2>1, <2>4, <3>3, AppendProperties, LenProperties
    <3>5. /\ DOMAIN applied'[s] = 1..n + 1 /\ DOMAIN applied[s] = 1..n
          /\ \A i \in 1..n : applied'[s][i] = applied[s][i]
          /\ applied'[s][n + 1] = Packet1(s).cmd
      BY <2>1, <2>4, AppendProperties, LenProperties
    <3> HIDE DEF n
    <3>6. \A i \in DOMAIN oldCmds'[s] : Entry(oldCmds'[s][i], i, A)
      <4> SUFFICES ASSUME NEW i \in 1..n + 1 PROVE Entry(oldCmds'[s][i], i, A)
        BY <3>4
      <4>1. CASE i = n + 1
        BY <3>2, <3>4, <4>1
      <4>2. CASE i \in 1..n
        BY <2>2, <3>4, <4>2
      <4> QED
        BY <3>4, <4>1, <4>2
    <3>7. Agree(applied'[s], A)
      <4> SUFFICES ASSUME NEW i \in 1..n + 1, i \in DOMAIN A PROVE applied'[s][i] = A[i]
        BY <3>5 DEF Agree
      <4>1. CASE i = n + 1
        BY <3>1, <3>5, <4>1 DEF n
      <4>2. CASE i \in 1..n
        BY <2>2, <3>5, <4>2 DEF Agree
      <4> QED
        BY <3>4, <4>1, <4>2
    <3> QED
      BY <2>1, <3>6, <3>7
  <2> QED
    BY <2>3, <2>4, LogsNext
<1>2. ASSUME NEW q \in Server, NEW m \in Packet, From(q, m)'
      PROVE  Says(m, A)
  <2>1. From(q, m) \/ Appears(q, m)
    BY <1>0, <1>2, FromNext DEF Comes
  <2>2. CASE From(q, m)
    BY <2>2 DEF Texts
  <2>3. ASSUME NEW once \in BOOLEAN, NEW n \in Nat, m = HeartBeat(oldCmds'[q], "SYN", once, n)
        PROVE  Says(m, A)
    BY <1>1, <2>3, HeartBeatSays
  <2>4. ASSUME m = BeMy PROVE Says(m, A)
    BY <2>4 DEF BeMy, Says, Uniform
  <2>5. ASSUME NEW once \in BOOLEAN, NEW n \in Nat, m = Acknowledge(once, n) PROVE Says(m, A)
    BY <2>5 DEF Acknowledge, Says, Uniform
  <2> QED
    BY <2>1, <2>2, <2>3, <2>4, <2>5 DEF Appears
<1> QED
  BY <1>1, <1>2 DEF Texts, Logs

-----------------------------------------------------------------------------
(* Which header of a packet runs last. *)

LEMMA StopsInside ==
  ASSUME NEW m \in Packet, NEW n, ~Unwraps(m, n)
  PROVE  \E k \in DOMAIN m.hdr :
           /\ StopsAt(m, n) = m.hdr[k] /\ ~IsNext(m.hdr[k], n)
           /\ \A j \in 1..k - 1 : IsNext(m.hdr[j], n)
<1> DEFINE P == {i \in DOMAIN m.hdr : \A j \in 1..i : IsNext(m.hdr[j], n)}
           c == Cardinality(P)
<1>1. m.hdr \in Seq(Header) /\ Len(m.hdr) \in Nat /\ DOMAIN m.hdr = 1..Len(m.hdr)
  BY LenProperties DEF Packet
<1>2. IsFiniteSet(P) /\ c \in Nat
  <2>1. IsFiniteSet(1..Len(m.hdr)) /\ P \in SUBSET (1..Len(m.hdr))
    BY <1>1, FS_Interval
  <2> HIDE DEF P
  <2> QED
    BY <2>1, FS_Subset, FS_CardinalityType
<1>3. \A i \in P : i \in Nat /\ 1..i \in SUBSET P
  BY <1>1
<1> HIDE DEF P
<1>4. ASSUME NEW i \in P PROVE i \in 1..c
  <2>1. Cardinality(1..i) <= c
    BY <1>2, <1>3, FS_Subset
  <2>2. i \in Nat /\ i > 0
    BY <1>1, <1>3 DEF P
  <2>3. Cardinality(1..i) = i
    BY <2>2, FS_Interval
  <2> QED
    BY <1>2, <2>1, <2>2, <2>3
<1>5. P = 1..c
  <2>1. IsFiniteSet(1..c) /\ Cardinality(1..c) = c
    BY <1>2, FS_Interval
  <2>2. P \in SUBSET (1..c)
    BY <1>4
  <2> QED
    BY <2>1, <2>2, FS_Subset
<1>6. \A j \in 1..c : j \in DOMAIN m.hdr /\ IsNext(m.hdr[j], n)
  BY <1>1, <1>5 DEF P
<1>7. c + 1 \in DOMAIN m.hdr
  <2> SUFFICES ASSUME c + 1 \notin DOMAIN m.hdr PROVE FALSE
    OBVIOUS
  <2>1. \A i \in DOMAIN m.hdr : i \in 1..c
    BY <1>1, <1>2, <1>6
  <2> QED
    BY <1>6, <2>1 DEF Unwraps
<1>8. ~IsNext(m.hdr[c + 1], n)
  <2> SUFFICES ASSUME IsNext(m.hdr[c + 1], n) PROVE FALSE
    OBVIOUS
  <2>1. \A j \in 1..c + 1 : IsNext(m.hdr[j], n)
    BY <1>2, <1>6
  <2>2. c + 1 \in P
    BY <1>7, <2>1 DEF P
  <2> QED
    BY <1>2, <1>5, <2>2
<1>9. StopsAt(m, n) = m.hdr[1 + c]
  BY DEF StopsAt, P
<1> HIDE DEF c
<1> WITNESS c + 1 \in DOMAIN m.hdr
<1> QED
  BY <1>2, <1>6, <1>8, <1>9

-----------------------------------------------------------------------------
(* Roles, and who may hold a user's command. *)

LEMMA RolesNext ==
  ASSUME Sound, Next
  PROVE  /\ \A s \in Server :
              \/ serverType'[s] = serverType[s]
              \/ BeMyFollower(s) /\ serverType'[s] = "follower"
              \/ Crash(s) /\ serverType[s] = "leader" /\ serverType'[s] = "down"
              \/ CronFollower(s) /\ serverType[s] = "follower" /\ serverType'[s] = "candidate"
              \/ CronCandidate(s) /\ serverType[s] = "candidate" /\ serverType'[s] = "leader"
         /\ inherited' = inherited \/ \E s \in Server : CronCandidate(s)
         /\ timeouts' = timeouts \/ \E s \in Server : CronFollower(s)
<1>0. serverType \in [Server -> {"leader", "follower", "candidate", "down"}]
  BY DEF Sound, TypeOK
<1>1. ASSUME NEW r \in Server, BeMyFollower(r)
      PROVE  /\ serverType'[r] = "follower" /\ \A s \in Server : s # r => serverType'[s] = serverType[s]
             /\ inherited' = inherited /\ timeouts' = timeouts
  BY <1>0, <1>1 DEF BeMyFollower, pastVars
<1>2. ASSUME NEW r \in Server, Crash(r)
      PROVE  /\ serverType[r] = "leader" /\ serverType'[r] = "down"
             /\ \A s \in Server : s # r => serverType'[s] = serverType[s]
             /\ inherited' = inherited /\ timeouts' = timeouts
  BY <1>0, <1>2 DEF Crash, pastVars
<1>3. ASSUME NEW r \in Server, CronFollower(r)
      PROVE  /\ serverType[r] = "follower" /\ serverType'[r] = "candidate"
             /\ \A s \in Server : s # r => serverType'[s] = serverType[s]
             /\ inherited' = inherited
  BY <1>0, <1>3 DEF CronFollower
<1>4. ASSUME NEW r \in Server, CronCandidate(r)
      PROVE  /\ serverType[r] = "candidate" /\ serverType'[r] = "leader"
             /\ \A s \in Server : s # r => serverType'[s] = serverType[s]
             /\ timeouts' = timeouts
  BY <1>0, <1>4 DEF CronCandidate
<1>5. ASSUME NEW r \in Server,
             \/ Issue(r) \/ ReadRequests(r) \/ WriteCommand(r) \/ SynNext(r) \/ SynOther(r)
             \/ AckResponse(r) \/ ServerCron(r)
      PROVE  UNCHANGED <<serverType, inherited, timeouts>>
  BY <1>5 DEF Issue, ReadRequests, WriteCommand, SynNext, SynOther, AckResponse, ServerCron,
              roleVars, pastVars
<1>6. ASSUME NEW r \in Server, NEW p \in Server, ReadPackets(r, p) \/ ClientWrite(r, p) \/ ReadEnd(r, p)
      PROVE  UNCHANGED <<serverType, inherited, timeouts>>
  BY <1>6 DEF ReadPackets, ClientWrite, ReadEnd, roleVars, pastVars
<1>7. CASE \E r \in Server : BeMyFollower(r) \/ Crash(r)
  BY <1>1, <1>2, <1>7
<1>8. CASE \E r \in Server : CronFollower(r) \/ CronCandidate(r)
  BY <1>3, <1>4, <1>8
<1>9. CASE UNCHANGED <<serverType, inherited, timeouts>>
  BY <1>9
<1> QED
  BY <1>5, <1>6, <1>7, <1>8, <1>9 DEF Next

(* s has no command of a user to execute. *)
NoUser(s) == requests[s] = <<>> /\ (Running(s) => handler[s].client # User)

LEMMA NoUserNext ==
  ASSUME Sound, Next, NEW s \in Server, NoUser(s), serverType[s] # "leader"
  PROVE  NoUser(s)'
<1>1. CASE UNCHANGED <<handler, requests>>
  BY <1>1 DEF NoUser, Running
<1>2. ASSUME NEW r \in Server, Running(r), Advanced(r), UNCHANGED requests PROVE NoUser(s)'
  <2> SUFFICES ASSUME handler'[s].todo # <<>> PROVE handler'[s].client # User
    BY <1>2 DEF NoUser, Running
  <2>1. handler'[s].client = handler[s].client /\ Running(s)
    BY <1>2 DEF Advanced, Running
  <2> QED
    BY <2>1 DEF NoUser
<1>3. ASSUME NEW r \in Server,
             WriteCommand(r) \/ SynNext(r) \/ SynOther(r) \/ AckResponse(r) \/ BeMyFollower(r)
      PROVE  NoUser(s)'
  <2>1. Running(r) /\ Advanced(r)
    BY <1>3, WriteFacts, SynFacts, OtherFacts, AckFacts, BeMyFacts DEF Handles
  <2>2. UNCHANGED requests
    BY <1>3 DEF WriteCommand, SynNext, SynOther, AckResponse, BeMyFollower
  <2> QED
    BY <1>2, <2>1, <2>2
<1>4. ASSUME NEW r \in Server, Issue(r) PROVE NoUser(s)'
  <2>1. UNCHANGED handler /\ requests'[s] = requests[s]
    BY <1>4 DEF Issue, Sound, TypeOK
  <2> QED
    BY <2>1 DEF NoUser, Running
<1>5. ASSUME NEW r \in Server, ReadRequests(r) PROVE NoUser(s)'
  <2>1. /\ \A p \in Server : p # r => handler'[p] = handler[p] /\ requests'[p] = requests[p]
        /\ \E n \in 1..MaxUserBatch : n <= Len(requests[r])
    BY <1>5, RequestsRead DEF Sound
  <2>2. r # s
    BY <2>1, ReplicationConstants DEF NoUser
  <2> QED
    BY <2>1, <2>2 DEF NoUser, Running
<1>6. ASSUME NEW r \in Server, NEW p \in Server, ReadPackets(r, p) PROVE NoUser(s)'
  <2>1. /\ handler'[r].client = p /\ \A x \in Server : x # r => handler'[x] = handler[x]
        /\ UNCHANGED requests
    BY <1>6, FlowsReadPackets DEF Sound, ReadPackets
  <2> QED
    BY <2>1, ReplicationConstants DEF NoUser, Running
<1>7. ASSUME NEW r \in Server, Crash(r) PROVE NoUser(s)'
  <2>1. /\ handler'[r].todo = <<>> /\ requests'[r] = <<>>
        /\ \A p \in Server : p # r => handler'[p] = handler[p] /\ requests'[p] = requests[p]
    BY <1>7, CrashFacts DEF Sound
  <2> QED
    BY <2>1 DEF NoUser, Running
<1>8. \A r \in Server : ServerCron(r) \/ CronFollower(r) \/ CronCandidate(r) => UNCHANGED <<handler, requests>>
  BY DEF ServerCron, CronFollower, CronCandidate
<1>9. \A r, p \in Server : ClientWrite(r, p) \/ ReadEnd(r, p) => UNCHANGED <<handler, requests>>
  BY DEF ClientWrite, ReadEnd
<1> QED
  BY <1>1, <1>3, <1>4, <1>5, <1>6, <1>7, <1>8, <1>9 DEF Next

-----------------------------------------------------------------------------
(* Before a change of leader. *)

(* No header of m is a beMy, and its entry is none that the leader lacks. *)
Tame(m, n) ==
  /\ \A i \in DOMAIN m.hdr : m.hdr[i].type # "beMy"
  /\ m.hdr # <<>> /\ m.hdr[1].type = "SYN" => m.hdr[1].off <= n

AllTame(n) ==
  /\ \A q \in Server : \A m \in Packet : From(q, m) => Tame(m, n)
  /\ \A s \in Server : \A i \in DOMAIN oldCmds[s] : Tame(oldCmds[s][i], n)

(* Nobody took over from FirstLeader: what anyone executed, logged or sent is *)
(* its, and only it was given users' commands.                                *)
Calm ==
  /\ serverType[FirstLeader] \in {"leader", "down"}
  /\ \A s \in Server \ {FirstLeader} : serverType[s] \in {"follower", "candidate"} /\ NoUser(s)
  /\ inherited = <<>>
  /\ Texts(applied[FirstLeader])
  /\ \A s \in Server : Len(applied[s]) <= Len(applied[FirstLeader])
  /\ AllTame(Len(applied[FirstLeader]))

LEMMA HeartBeatTame ==
  ASSUME NEW k \in Nat, NEW log \in Seq(Packet), Len(log) <= k,
         \A i \in DOMAIN log : Tame(log[i], k),
         NEW once \in BOOLEAN, NEW n \in Nat
  PROVE  Tame(HeartBeat(log, "SYN", once, n), k)
<1> DEFINE b == HeartBeat(log, "SYN", once, n)
           f == b.hdr[1].off
           e == log[f]
<1> HIDE DEF b
<1>1. /\ b \in Packet /\ b.hdr # <<>> /\ b.hdr[1].type = "SYN" /\ f \in Nat /\ f <= Len(log)
      /\ \/ Len(b.hdr) = 1
         \/ /\ f \in 1..Len(log) /\ Len(b.hdr) = Len(e.hdr) + 1
            /\ \A i \in 1..Len(e.hdr) : b.hdr[i + 1] = e.hdr[i]
  BY HeartBeatIs DEF b
<1>2. Len(log) \in Nat /\ DOMAIN log = 1..Len(log) /\ DOMAIN b.hdr = 1..Len(b.hdr)
  BY <1>1, LenProperties DEF Packet
<1>3. f <= k
  BY <1>1, <1>2
<1> HIDE DEF e, f
<1>4. ASSUME NEW i \in DOMAIN b.hdr PROVE b.hdr[i].type # "beMy"
  <2>1. CASE i = 1
    BY <1>1, <2>1
  <2>2. CASE i # 1
    <3>0. f \in 1..Len(log) /\ Len(b.hdr) = Len(e.hdr) + 1
      <4>1. i \in 1..Len(b.hdr)
        BY <1>2
      <4>2. Len(b.hdr) # 1
        BY <2>2, <4>1
      <4> QED
        BY <1>1, <4>2
    <3>1. f \in DOMAIN log /\ e \in Packet /\ Tame(e, k)
      BY <1>2, <3>0, ElementOfSeq DEF e
    <3>2. Len(e.hdr) \in Nat /\ DOMAIN e.hdr = 1..Len(e.hdr)
      BY <3>1, LenProperties DEF Packet
    <3>3. i - 1 \in DOMAIN e.hdr /\ b.hdr[i] = e.hdr[i - 1]
      <4>1. Len(b.hdr) = Len(e.hdr) + 1 /\ \A j \in 1..Len(e.hdr) : b.hdr[j + 1] = e.hdr[j]
        BY <1>1, <2>2, <3>0, <1>2
      <4>2. i - 1 \in 1..Len(e.hdr) /\ (i - 1) + 1 = i
        BY <1>2, <2>2, <3>2, <4>1
      <4> QED
        BY <3>2, <4>1, <4>2
    <3> QED
      BY <3>1, <3>3 DEF Tame
  <2> QED
    BY <2>1, <2>2
<1> QED
  BY <1>3, <1>4 DEF Tame, b, f

LEMMA TameGrows ==
  ASSUME TypeOK, NEW n \in Nat, NEW k \in Nat, n <= k, AllTame(n)
  PROVE  AllTame(k)
<1>1. ASSUME NEW m \in Packet, Tame(m, n) PROVE Tame(m, k)
  <2>1. m.hdr # <<>> => m.hdr[1].off \in Nat
    <3> SUFFICES ASSUME m.hdr # <<>> PROVE m.hdr[1].off \in Nat
      OBVIOUS
    <3>1. m.hdr \in Seq(Header) /\ Len(m.hdr) \in Nat \ {0}
      BY EmptySeq DEF Packet
    <3>2. m.hdr[1] \in Header
      BY <3>1, ElementOfSeq
    <3> QED
      BY <3>2 DEF Header
  <2> QED
    BY <1>1, <2>1 DEF Tame
<1>2. ASSUME NEW s \in Server, NEW i \in DOMAIN oldCmds[s] PROVE oldCmds[s][i] \in Packet
  <2>1. oldCmds[s] \in Seq(Packet)
    BY DEF TypeOK
  <2> QED
    BY <1>2, <2>1, ElementOfSeq, LenProperties
<1> QED
  BY <1>1, <1>2 DEF AllTame

LEMMA TameNext ==
  ASSUME Sound, Next, NEW n \in Nat, NEW k \in Nat, n <= k, AllTame(n),
         \A s \in Server : Len(applied'[s]) <= k,
         \A q \in Server : ~CronCandidate(q)
  PROVE  AllTame(k)'
<1>0. Flows /\ Sound' /\ AllTame(k)
  BY FlowsNext, SoundNext, TameGrows DEF Sound
<1>1. ASSUME NEW s \in Server
      PROVE  /\ oldCmds'[s] \in Seq(Packet) /\ Len(oldCmds'[s]) <= k
             /\ \A i \in DOMAIN oldCmds'[s] : Tame(oldCmds'[s][i], k)
  <2>1. /\ oldCmds[s] \in Seq(Packet) /\ oldCmds'[s] \in Seq(Packet)
        /\ Len(oldCmds'[s]) = Len(applied'[s])
        /\ \A i \in DOMAIN oldCmds[s] : Tame(oldCmds[s][i], k)
    BY <1>0 DEF Sound, TypeOK, Packets, AllTame
  <2>2. CASE oldCmds'[s] = oldCmds[s]
    BY <2>1, <2>2
  <2>3. CASE /\ WriteCommand(s) \/ SynNext(s)
             /\ oldCmds'[s] = Append(oldCmds[s], handler[s].first)
    <3>1. Running(s)
      BY <2>3, WriteFacts, SynFacts DEF Handles
    <3>2. handler[s].first \in Packet /\ Tame(handler[s].first, k)
      <4>1. CASE handler[s].first.hdr = <<>>
        BY <3>1, <4>1, FirstRead DEF Tame
      <4>2. CASE handler[s].first.hdr # <<>>
        BY <1>0, <3>1, <4>2, FirstRead DEF AllTame
      <4> QED
        BY <4>1, <4>2
    <3>3. /\ DOMAIN oldCmds'[s] = 1..Len(oldCmds[s]) + 1 /\ Len(oldCmds[s]) \in Nat
          /\ DOMAIN oldCmds[s] = 1..Len(oldCmds[s])
          /\ \A i \in 1..Len(oldCmds[s]) : oldCmds'[s][i] = oldCmds[s][i]
          /\ oldCmds'[s][Len(oldCmds[s]) + 1] = handler[s].first
      BY <2>1, <2>3, <3>2, AppendProperties, LenProperties
    <3> QED
      BY <2>1, <3>2, <3>3
  <2> QED
    BY <2>2, <2>3, LogsNext
<1>2. ASSUME NEW q \in Server, NEW m \in Packet, From(q, m)'
      PROVE  Tame(m, k)
  <2>1. From(q, m) \/ Appears(q, m)
    BY <1>0, <1>2, FromNext DEF Comes
  <2>2. CASE From(q, m)
    BY <1>0, <2>2 DEF AllTame
  <2>3. ASSUME NEW once \in BOOLEAN, NEW j \in Nat, m = HeartBeat(oldCmds'[q], "SYN", once, j)
        PROVE  Tame(m, k)
    BY <1>1, <2>3, HeartBeatTame
  <2>4. ASSUME NEW once \in BOOLEAN, NEW j \in Nat, m = Acknowledge(once, j) PROVE Tame(m, k)
    BY <2>4 DEF Acknowledge, Tame
  <2>5. ~(serverType[q] = "candidate" /\ serverType'[q] = "leader")
    BY RolesNext
  <2> QED
    BY <2>1, <2>2, <2>3, <2>4, <2>5 DEF Appears
<1> QED
  BY <1>1, <1>2 DEF AllTame

LEMMA OneFirst ==
  ASSUME NEW m \in Packet, m.hdr # <<>>
  PROVE  1 \in DOMAIN m.hdr /\ m.hdr[1] \in Header
<1>1. m.hdr \in Seq(Header) /\ Len(m.hdr) \in Nat \ {0} /\ DOMAIN m.hdr = 1..Len(m.hdr)
  BY EmptySeq, LenProperties DEF Packet
<1> QED
  BY <1>1, ElementOfSeq

(* What the leader executes next contradicts nothing that is in flight. *)
LEMMA TextsExtend ==
  ASSUME Sound, Calm, NEW c \in CommandType
  PROVE  Texts(Append(applied[FirstLeader], c))
<1> DEFINE A == applied[FirstLeader]
           n == Len(A)
           B == Append(A, c)
<1>1. A \in Seq(CommandType) /\ n \in Nat
  BY ReplicationConstants, LenProperties DEF Sound, TypeOK
<1>2. /\ DOMAIN A = 1..n /\ DOMAIN B = 1..n + 1 /\ B \in Seq(CommandType)
      /\ \A i \in 1..n : B[i] = A[i]
  BY <1>1, AppendProperties, LenProperties
<1>3. /\ \A q \in Server : \A m \in Packet : From(q, m) => Says(m, A) /\ Tame(m, n)
      /\ \A s \in Server : \A i \in DOMAIN oldCmds[s] :
           Entry(oldCmds[s][i], i, A) /\ Tame(oldCmds[s][i], n)
      /\ \A s \in Server : Agree(applied[s], A) /\ Len(applied[s]) <= n
  BY DEF Calm, Texts, Logs, AllTame
<1> HIDE DEF A, n, B
<1>4. ASSUME NEW m \in Packet, Says(m, A), Tame(m, n) PROVE Says(m, B)
  <2> SUFFICES ASSUME Uniform(m), m.hdr[1].off \in DOMAIN B PROVE m.cmd = B[m.hdr[1].off]
    BY DEF Says
  <2>1. 1 \in DOMAIN m.hdr
    BY OneFirst DEF Uniform
  <2>2. m.hdr[1].off <= n
    BY <1>4, <2>1 DEF Uniform, Tame
  <2>3. m.hdr[1].off \in 1..n
    BY <1>1, <1>2, <2>2
  <2> QED
    BY <1>2, <1>4, <2>3 DEF Says
<1>5. ASSUME NEW s \in Server, NEW i \in DOMAIN oldCmds[s] PROVE Entry(oldCmds[s][i], i, B)
  <2>1. oldCmds[s] \in Seq(Packet) /\ applied[s] \in Seq(CommandType) /\ Len(oldCmds[s]) = Len(applied[s])
    BY DEF Sound, TypeOK, Packets
  <2>2. /\ oldCmds[s][i] \in Packet /\ i \in 1..n
    <3>1. DOMAIN oldCmds[s] = 1..Len(oldCmds[s]) /\ Len(oldCmds[s]) \in Nat /\ Len(oldCmds[s]) <= n
      BY <1>3, <2>1, LenProperties
    <3>2. i \in 1..Len(oldCmds[s])
      BY <3>1
    <3> QED
      BY <1>1, <2>1, <3>1, <3>2, ElementOfSeq
  <2>3. Entry(oldCmds[s][i], i, A) /\ Tame(oldCmds[s][i], n)
    BY <1>3
  <2> QED
    BY <1>2, <1>4, <2>2, <2>3 DEF Entry
<1>6. ASSUME NEW s \in Server PROVE Agree(applied[s], B)
  <2>1. /\ applied[s] \in Seq(CommandType) /\ DOMAIN applied[s] = 1..Len(applied[s])
        /\ Len(applied[s]) \in Nat /\ Len(applied[s]) <= n /\ Agree(applied[s], A)
    BY <1>3, LenProperties DEF Sound, TypeOK
  <2> QED
    BY <1>1, <1>2, <2>1 DEF Agree
<1> QED
  BY <1>3, <1>4, <1>5, <1>6 DEF Texts, Logs, B, A

LEMMA CalmNoBeMy ==
  ASSUME Sound, Calm, NEW s \in Server
  PROVE  ~BeMyFollower(s)
<1> SUFFICES ASSUME BeMyFollower(s) PROVE FALSE
  OBVIOUS
<1> DEFINE m == Packet1(s)
           n == Len(oldCmds[s])
<1>1. Handles(s) /\ m.hdr # <<>> /\ ~Unwraps(m, n) /\ StopsAt(m, n).type = "beMy"
  BY DEF BeMyFollower, Handles, Packet1
<1>2. m \in Packet /\ From(handler[s].client, m) /\ handler[s].client \in Server
  BY <1>1, PacketRead
<1>3. PICK k \in DOMAIN m.hdr : StopsAt(m, n) = m.hdr[k]
  BY <1>1, <1>2, StopsInside
<1> QED
  BY <1>1, <1>2, <1>3 DEF Calm, AllTame, Tame

(* While nobody else leads, only FirstLeader executes what it has not seen. *)
LEMMA CalmWrites ==
  ASSUME Sound, Calm, NEW s \in Server
  PROVE  /\ WriteCommand(s) => s = FirstLeader
         /\ SynNext(s) => /\ Len(applied[s]) + 1 \in DOMAIN applied[FirstLeader]
                          /\ Packet1(s).cmd = applied[FirstLeader][Len(applied[s]) + 1]
                          /\ s # FirstLeader
<1>1. ASSUME WriteCommand(s) PROVE s = FirstLeader
  BY <1>1, WriteFacts DEF Calm, NoUser, Handles
<1>2. ASSUME SynNext(s)
      PROVE  /\ Len(applied[s]) + 1 \in DOMAIN applied[FirstLeader]
             /\ Packet1(s).cmd = applied[FirstLeader][Len(applied[s]) + 1]
             /\ s # FirstLeader
  <2>1. /\ Packet1(s).hdr[1].off = Len(applied[s]) + 1 /\ Packet1(s).hdr[1].type = "SYN"
        /\ Packet1(s).hdr # <<>>
        /\ Len(applied[s]) + 1 \in DOMAIN applied[FirstLeader] =>
             Packet1(s).cmd = applied[FirstLeader][Len(applied[s]) + 1]
    BY <1>2, SynSays DEF Calm, Uniform
  <2>2. Tame(Packet1(s), Len(applied[FirstLeader]))
    <3>1. Handles(s) /\ handler[s].client \in Server /\ From(handler[s].client, Packet1(s))
      BY <1>2, SynFacts
    <3>2. Packet1(s) \in Packet
      BY <3>1, PacketRead
    <3> QED
      BY <3>1, <3>2 DEF Calm, AllTame
  <2>3. Len(applied[s]) + 1 <= Len(applied[FirstLeader])
    BY <2>1, <2>2 DEF Tame
  <2>4. /\ Len(applied[s]) \in Nat /\ Len(applied[FirstLeader]) \in Nat
        /\ DOMAIN applied[FirstLeader] = 1..Len(applied[FirstLeader])
    BY ReplicationConstants, LenProperties DEF Sound, TypeOK
  <2> QED
    BY <2>1, <2>3, <2>4
<1> QED
  BY <1>1, <1>2

LEMMA CalmNext ==
  ASSUME Sound, Singles, Calm, Next, \A s \in Server : ~CronCandidate(s)
  PROVE  Calm'
<1> DEFINE L == FirstLeader
<1>0. /\ Sound' /\ L \in Server
      /\ serverType \in [Server -> {"leader", "follower", "candidate", "down"}]
  BY SoundNext, ReplicationConstants DEF Sound, TypeOK
<1>1. \/ applied'[L] = applied[L]
      \/ /\ WriteCommand(L) /\ Packet1(L).cmd \in CommandType
         /\ applied'[L] = Append(applied[L], Packet1(L).cmd)
  BY <1>0, LogsNext, CalmWrites
<1>2. PICK A \in Seq(CommandType) : A = applied'[L]
  BY <1>0 DEF Sound, TypeOK
<1>3. Texts(A)
  BY <1>1, <1>2, TextsExtend DEF Calm
<1>4. \A s \in Server : WriteCommand(s) /\ Len(applied[s]) + 1 \in DOMAIN A =>
         Packet1(s).cmd = A[Len(applied[s]) + 1]
  <2> SUFFICES ASSUME NEW s \in Server, WriteCommand(s), Len(applied[s]) + 1 \in DOMAIN A
               PROVE  Packet1(s).cmd = A[Len(applied[s]) + 1]
    OBVIOUS
  <2>1. s = L /\ Packet1(s).cmd \in CommandType
    BY CalmWrites, WriteFacts
  <2>2. applied[L] \in Seq(CommandType)
    BY <1>0 DEF Sound, TypeOK
  <2>3. CASE applied'[L] = applied[L]
    <3>1. DOMAIN A = 1..Len(applied[L]) /\ Len(applied[L]) \in Nat
      BY <1>2, <2>2, <2>3, LenProperties
    <3> QED
      BY <2>1, <3>1
  <2>4. CASE applied'[L] = Append(applied[L], Packet1(L).cmd)
    BY <1>2, <2>1, <2>2, <2>4, AppendProperties
  <2> QED
    BY <1>1, <2>3, <2>4
<1>5. Texts(A)'
  BY <1>3, <1>4, TextsNext
<1>6. Texts(applied[L])'
  BY <1>2, <1>5 DEF Texts, Logs
<1>7. /\ Len(applied[L]) \in Nat /\ Len(applied'[L]) \in Nat /\ Len(applied[L]) <= Len(applied'[L])
      /\ \A s \in Server : Len(applied'[s]) <= Len(applied'[L])
  <2>1. /\ \A s \in Server : /\ applied[s] \in Seq(CommandType) /\ Len(applied[s]) \in Nat
                             /\ Len(applied'[s]) \in Nat /\ Len(applied[s]) <= Len(applied[L])
        /\ DOMAIN applied[L] = 1..Len(applied[L])
    BY <1>0, LenProperties DEF Sound, TypeOK, Calm
  <2>2. Len(applied[L]) <= Len(applied'[L])
    <3>1. CASE applied'[L] = applied[L]
      BY <1>0, <2>1, <3>1
    <3>2. CASE Packet1(L).cmd \in CommandType /\ applied'[L] = Append(applied[L], Packet1(L).cmd)
      <4>1. Len(applied'[L]) = Len(applied[L]) + 1
        BY <1>0, <2>1, <3>2, AppendProperties
      <4> QED
        BY <1>0, <2>1, <4>1
    <3> QED
      BY <1>1, <3>1, <3>2
  <2>3. ASSUME NEW s \in Server PROVE Len(applied'[s]) <= Len(applied'[L])
    <3>1. CASE applied'[s] = applied[s]
      BY <1>0, <2>1, <2>2, <3>1
    <3>2. CASE s = L
      BY <1>0, <2>1, <3>2
    <3>3. CASE SynNext(s) /\ Packet1(s).cmd \in CommandType /\ applied'[s] = Append(applied[s], Packet1(s).cmd)
      <4>1. Len(applied'[s]) = Len(applied[s]) + 1
        BY <2>1, <3>3, AppendProperties
      <4>2. Len(applied[s]) + 1 \in DOMAIN applied[L]
        BY <3>3, CalmWrites
      <4>3. Len(applied[s]) + 1 <= Len(applied[L])
        BY <2>1, <4>2
      <4> QED
        BY <1>0, <2>1, <2>2, <4>1, <4>3
    <3> QED
      BY <3>1, <3>2, <3>3, LogsNext, CalmWrites
  <2> QED
    BY <1>0, <2>1, <2>2, <2>3
<1>8. AllTame(Len(applied[L]))'
  <2>1. PICK k \in Nat : k = Len(applied'[L])
    BY <1>7
  <2>2. AllTame(k)'
    BY <1>7, <2>1, TameNext DEF Calm
  <2> QED
    BY <2>1, <2>2 DEF AllTame
<1>9. /\ serverType'[L] \in {"leader", "down"}
      /\ \A s \in Server \ {L} : serverType'[s] \in {"follower", "candidate"} /\ NoUser(s)'
      /\ inherited' = <<>>
  <2>1. \A s \in Server : ~BeMyFollower(s)
    BY CalmNoBeMy
  <2>2. serverType'[L] \in {"leader", "down"} /\ inherited' = <<>>
    BY <1>0, <2>1, RolesNext DEF Calm
  <2>3. ASSUME NEW s \in Server \ {L}
        PROVE  serverType'[s] \in {"follower", "candidate"} /\ NoUser(s)'
    <3>1. serverType[s] \in {"follower", "candidate"} /\ NoUser(s)
      BY DEF Calm
    <3>2. serverType'[s] \in {"follower", "candidate"}
      BY <2>1, <3>1, RolesNext
    <3> QED
      BY <3>1, <3>2, NoUserNext
  <2> QED
    BY <2>2, <2>3
<1> QED
  BY <1>6, <1>7, <1>8, <1>9 DEF Calm

LEMMA CalmInit == ASSUME Init PROVE Calm /\ Singles
<1>0. Sound /\ FirstLeader \in Server
  BY SoundInit, ReplicationConstants
<1>1. PICK n \in 0..Len(Workload) : InitAfter(n)
  BY DEF Init
<1> DEFINE A == applied[FirstLeader]
<1>2. /\ n \in Nat /\ Len(oldCmds[FirstLeader]) = n /\ Len(A) = n
      /\ \A i \in 1..n : oldCmds[FirstLeader][i] = Request(A[i])
      /\ \A s \in Server \ {FirstLeader} : oldCmds[s] = <<>> /\ applied[s] = <<>>
  BY <1>1, LogsInit
<1>3. /\ oldCmds[FirstLeader] \in Seq(Packet) /\ A \in Seq(CommandType)
  BY <1>0 DEF Sound, TypeOK
<1>4. DOMAIN oldCmds[FirstLeader] = 1..n /\ DOMAIN A = 1..n
  BY <1>2, <1>3, LenProperties
<1>5. \A s \in Server \ {FirstLeader} :
         /\ DOMAIN oldCmds[s] = {} /\ DOMAIN applied[s] = {} /\ Len(applied[s]) = 0
  BY <1>2
<1> HIDE DEF A
<1>6. ASSUME NEW s \in Server, NEW i \in DOMAIN oldCmds[s]
      PROVE  Entry(oldCmds[s][i], i, A) /\ Tame(oldCmds[s][i], n)
  <2>1. s = FirstLeader /\ i \in 1..n
    BY <1>4, <1>5, <1>6
  <2>2. oldCmds[s][i] = Request(A[i])
    BY <1>2, <2>1
  <2>3. oldCmds[s][i].hdr = <<>> /\ oldCmds[s][i].cmd = A[i]
    BY <2>2 DEF Request
  <2> QED
    BY <2>3 DEF Entry, Tame
<1>7. \A s \in Server : Agree(applied[s], A) /\ Len(applied[s]) <= n
  BY <1>2, <1>5 DEF Agree, A
<1>8. /\ serverType[FirstLeader] \in {"leader", "down"} /\ inherited = <<>>
      /\ \A s \in Server \ {FirstLeader} :
           serverType[s] \in {"follower", "candidate"} /\ NoUser(s)
  <2>1. \A s \in Server : NoUser(s)
    BY <1>1, NothingInFlight DEF InitAfter, NoUser
  <2> QED
    BY <1>0, <1>1, <2>1 DEF InitAfter
<1>9. Texts(A) /\ AllTame(n)
  BY <1>6, <1>7, NothingInFlight DEF Texts, Logs, AllTame
<1>10. Singles
  BY NothingInFlight DEF Singles
<1> QED
  BY <1>2, <1>7, <1>8, <1>9, <1>10 DEF Calm, A

-----------------------------------------------------------------------------
(* The refinement. *)

Copies == [s \in Replicas |-> applied[s]]

LEMMA StepsReplicate ==
  ASSUME Sound, Calm, Next
  PROVE  [Replicated!Next]_<<applied[FirstLeader], Copies>>
<1> DEFINE L == FirstLeader
<1>0. /\ L \in Server /\ applied \in [Server -> Seq(CommandType)]
      /\ Sound' /\ applied' \in [Server -> Seq(CommandType)]
  BY ReplicationConstants, SoundNext DEF Sound, TypeOK
<1>1. CASE \A s \in Server : applied'[s] = applied[s]
  BY <1>0, <1>1 DEF Copies, Replicas
<1>2. CASE \E s \in Server : applied'[s] # applied[s]
  <2>1. PICK s \in Server : applied'[s] # applied[s]
    BY <1>2
  <2>2. /\ WriteCommand(s) \/ SynNext(s)
        /\ Packet1(s).cmd \in CommandType
        /\ applied'[s] = Append(applied[s], Packet1(s).cmd)
        /\ \A p \in Server : p # s => applied'[p] = applied[p]
    BY <2>1, LogsNext
  <2>3. CASE WriteCommand(s)
    <3>1. s = L
      BY <2>3, CalmWrites
    <3>2. Copies' = Copies
      BY <2>2, <3>1 DEF Copies, Replicas
    <3>3. Replicated!Write(Packet1(s).cmd)
      BY <2>2, <3>1, <3>2 DEF Replicated!Write, Copies
    <3> QED
      BY <2>2, <3>3 DEF Replicated!Next
  <2>4. CASE SynNext(s)
    <3>1. /\ s \in Replicas /\ Len(applied[s]) + 1 \in DOMAIN applied[L]
          /\ Packet1(s).cmd = applied[L][Len(applied[s]) + 1]
      BY <2>4, CalmWrites DEF Replicas
    <3>2. Copies[s] = applied[s]
      BY <3>1 DEF Copies
    <3>3. Len(Copies[s]) < Len(applied[L])
      BY <1>0, <3>1, <3>2, LenProperties DEF Replicas
    <3>4. Copies' = [Copies EXCEPT ![s] = Append(@, applied[L][Len(@) + 1])]
      BY <2>2, <3>1, <3>2 DEF Copies, Replicas
    <3>5. applied'[L] = applied[L]
      BY <1>0, <2>2, <3>1 DEF Replicas
    <3>6. Replicated!Copy(s)
      BY <3>3, <3>4, <3>5 DEF Replicated!Copy, Copies
    <3> QED
      BY <3>1, <3>6 DEF Replicated!Next
  <2> QED
    BY <2>2, <2>3, <2>4
<1> QED
  BY <1>1, <1>2

(* Without timeouts nobody becomes a candidate. *)
NoCandidate == \A s \in Server : serverType[s] # "candidate"

LEMMA SteadyNext ==
  ASSUME MaxTimeouts = 0, Sound, NoCandidate, Next
  PROVE  NoCandidate' /\ \A s \in Server : ~CronCandidate(s)
<1>1. \A s \in Server : ~CronFollower(s) /\ ~CronCandidate(s)
  BY DEF CronFollower, CronCandidate, NoCandidate, Sound, TypeOK
<1> QED
  BY <1>1, RolesNext DEF NoCandidate

LEMMA CalmStays ==
  ASSUME UNCHANGED vars
  PROVE  (Calm => Calm') /\ (NoCandidate => NoCandidate')
<1>1. UNCHANGED <<serverType, oldCmds, applied, inherited, wire, reply, handler, requests>>
  BY DEF vars, roleVars, dataVars, pastVars
<1> QED
  BY <1>1 DEF Calm, NoCandidate, NoUser, Texts, Logs, AllTame, From, InBatch, Running, InSeq

(* The detailed replication implements the abstract log: until a follower     *)
(* gives the first leader up, what that leader executes is one growing        *)
(* sequence and each other server executes that sequence in order, nothing    *)
(* twice, nothing skipped and nothing else, whatever SYN is repeated, outrun  *)
(* or passed on by a follower, and wherever the leader stops.  Users'         *)
(* commands arrive one to a read.                                             *)
THEOREM ImplementsLog ==
  ASSUME MaxUserBatch = 1, MaxTimeouts = 0
  PROVE  Spec => ReplicatesLog
<1> DEFINE IInv == Sound /\ Singles /\ Calm /\ NoCandidate
           log == applied[FirstLeader]
<1>1. Init => IInv
  BY SoundInit, CalmInit DEF NoCandidate, Init, InitAfter
<1>2. IInv /\ [Next]_vars => IInv'
  BY SoundNext, SinglesNext, CalmNext, SteadyNext, CalmStays
<1>3. Init => Replicated!Init
  <2> SUFFICES ASSUME Init PROVE Replicated!Init
    OBVIOUS
  <2>1. PICK n \in 0..Len(Workload) : InitAfter(n)
    BY DEF Init
  <2>2. \A s \in Replicas : applied[s] = <<>>
    BY <2>1, LogsInit DEF Replicas
  <2>3. Copies = [s \in Replicas |-> <<>>]
    BY <2>2 DEF Copies
  <2>4. log \in Seq(CommandType)
    BY SoundInit, ReplicationConstants DEF Sound, TypeOK
  <2> QED
    BY <2>3, <2>4 DEF Replicated!Init, Copies
<1>4. IInv /\ [Next]_vars => [Replicated!Next]_<<log, Copies>>
  <2>1. IInv /\ Next => [Replicated!Next]_<<log, Copies>>
    BY StepsReplicate
  <2>2. UNCHANGED vars => UNCHANGED <<log, Copies>>
    BY DEF vars, dataVars, Copies
  <2> QED
    BY <2>1, <2>2
<1>5. Copies = [s \in Replicas |-> applied[s]]
  BY DEF Copies
<1> QED
  BY <1>1, <1>2, <1>3, <1>4, PTL DEF Spec, ReplicatesLog, Replicated!Spec, Copies

-----------------------------------------------------------------------------
(* After a change of leader. *)

LEMMA LogsGrow ==
  ASSUME Sound, Next, NEW s \in Server
  PROVE  /\ Len(oldCmds[s]) \in Nat /\ Len(oldCmds'[s]) \in Nat /\ Len(oldCmds[s]) <= Len(oldCmds'[s])
         /\ Len(oldCmds[s]) = Len(applied[s]) /\ Len(oldCmds'[s]) = Len(applied'[s])
<1>1. Sound'
  BY SoundNext
<1>2. /\ oldCmds[s] \in Seq(Packet) /\ oldCmds'[s] \in Seq(Packet)
      /\ Len(oldCmds[s]) = Len(applied[s]) /\ Len(oldCmds'[s]) = Len(applied'[s])
  BY <1>1 DEF Sound, TypeOK, Packets
<1>3. /\ Len(oldCmds[s]) \in Nat /\ Len(oldCmds'[s]) \in Nat
  BY <1>2, LenProperties
<1>4. CASE oldCmds'[s] = Append(oldCmds[s], handler[s].first)
  <2>1. handler[s].first \in Packet
    BY HandlerParts DEF Sound
  <2>2. Len(oldCmds'[s]) = Len(oldCmds[s]) + 1
    BY <1>2, <1>4, <2>1, AppendProperties
  <2> QED
    BY <1>2, <1>3, <2>2
<1> QED
  BY <1>2, <1>3, <1>4, LogsNext

(* A follower took over, while FirstLeader lived or not: what it had then     *)
(* nobody executed otherwise, and who has less than that has no user's        *)
(* command to execute and is given none.                                      *)
Taken ==
  /\ timeouts # 0 /\ NoCandidate
  /\ Texts(inherited)
  /\ \A s \in Server : Len(applied[s]) < Len(inherited) => NoUser(s) /\ serverType[s] # "leader"

LEMMA TakenStart ==
  ASSUME Sound, Singles, Calm, NEW s \in Server, CronCandidate(s), timeouts # 0,
         \A p \in Server : serverType[p] = "candidate" => p = s
  PROVE  Taken'
<1> DEFINE L == FirstLeader
           A == applied[s]
<1>0. /\ Sound' /\ L \in Server
      /\ serverType \in [Server -> {"leader", "follower", "candidate", "down"}]
      /\ A \in Seq(CommandType) /\ applied[L] \in Seq(CommandType)
  BY SoundNext, ReplicationConstants DEF Sound, TypeOK, Next
<1>1. /\ serverType[s] = "candidate" /\ serverType' = [serverType EXCEPT ![s] = "leader"]
      /\ inherited' = A /\ UNCHANGED <<oldCmds, applied, requests, handler, timeouts>>
  BY DEF CronCandidate, dataVars
<1>2. NoCandidate'
  BY <1>0, <1>1 DEF NoCandidate
<1>3. /\ DOMAIN A = 1..Len(A) /\ DOMAIN applied[L] = 1..Len(applied[L])
      /\ Len(A) \in Nat /\ Len(applied[L]) \in Nat
      /\ Len(A) <= Len(applied[L]) /\ Agree(A, applied[L])
  BY <1>0, LenProperties DEF Calm, Texts
<1>4. Texts(A)
  <2>1. \A i \in DOMAIN A : i \in DOMAIN applied[L] /\ A[i] = applied[L][i]
    BY <1>3 DEF Agree
  <2> HIDE DEF A
  <2>2. \A m \in Packet : Says(m, applied[L]) => Says(m, A)
    BY <2>1 DEF Says
  <2>3. \A m \in Packet, i \in Nat : Entry(m, i, applied[L]) => Entry(m, i, A)
    BY <2>1, <2>2 DEF Entry
  <2>4. \A p \in Server : Agree(applied[p], applied[L]) => Agree(applied[p], A)
    BY <2>1 DEF Agree
  <2>5. ASSUME NEW p \in Server, NEW i \in DOMAIN oldCmds[p] PROVE oldCmds[p][i] \in Packet /\ i \in Nat
    <3>1. oldCmds[p] \in Seq(Packet)
      BY DEF Sound, TypeOK
    <3> QED
      BY <2>5, <3>1, ElementOfSeq, LenProperties
  <2> QED
    BY <2>2, <2>3, <2>4, <2>5 DEF Calm, Texts, Logs
<1>5. ASSUME NEW p \in Server, WriteCommand(p) PROVE FALSE
  <2>1. /\ Handles(p) /\ Packet1(p).cmd \in CommandType /\ RunWrite(p, Packet1(p).cmd)
    BY <1>5, WriteFacts
  <2>2. applied'[p] = Append(applied[p], Packet1(p).cmd)
    BY <2>1, RunWriteEffect DEF Sound
  <2>3. applied[p] \in Seq(CommandType) /\ Len(applied[p]) \in Nat
    BY LenProperties DEF Sound, TypeOK
  <2>4. Len(applied'[p]) = Len(applied[p]) + 1
    BY <2>1, <2>2, <2>3, AppendProperties
  <2> QED
    BY <1>1, <2>3, <2>4
<1>6. PICK B \in Seq(CommandType) : B = A
  BY <1>0
<1>7. Texts(B)'
  BY <1>4, <1>5, <1>6, TextsNext DEF Next
<1>8. Texts(inherited)'
  BY <1>1, <1>6, <1>7
<1>9. ASSUME NEW p \in Server, Len(applied'[p]) < Len(inherited')
      PROVE  NoUser(p)' /\ serverType'[p] # "leader"
  <2>1. Len(applied[p]) < Len(A)
    BY <1>1, <1>9
  <2>2. p # L /\ p # s
    BY <1>3, <2>1
  <2>3. NoUser(p) /\ serverType[p] # "leader"
    BY <2>2 DEF Calm
  <2>4. serverType'[p] = serverType[p]
    BY <1>0, <1>1, <2>2
  <2> QED
    BY <1>1, <2>3, <2>4 DEF NoUser, Running
<1> QED
  BY <1>1, <1>2, <1>8, <1>9 DEF Taken

LEMMA TakenNext ==
  ASSUME MaxTimeouts <= 1, Sound, Singles, Next, Taken
  PROVE  Taken'
<1>0. Sound' /\ inherited \in Seq(CommandType) /\ timeouts \in Nat
  BY SoundNext DEF Sound, TypeOK
<1>1. \A s \in Server : ~CronCandidate(s) /\ ~CronFollower(s)
  BY <1>0, ReplicationConstants DEF CronCandidate, CronFollower, Taken, NoCandidate
<1>2. inherited' = inherited /\ timeouts' = timeouts /\ NoCandidate'
  BY <1>1, RolesNext DEF Taken, NoCandidate
<1>3. PICK A \in Seq(CommandType) : A = inherited
  BY <1>0
<1>4. Len(A) \in Nat /\ DOMAIN A = 1..Len(A)
  BY LenProperties
<1>5. ASSUME NEW s \in Server, WriteCommand(s) PROVE Len(applied[s]) + 1 \notin DOMAIN A
  <2>1. ~NoUser(s)
    BY <1>5, WriteFacts DEF NoUser, Handles
  <2>2. ~(Len(applied[s]) < Len(A)) /\ Len(applied[s]) \in Nat
    BY <1>3, <2>1, LogsGrow DEF Taken
  <2> QED
    BY <1>4, <2>2
<1>6. Texts(A)'
  BY <1>3, <1>5, TextsNext DEF Taken
<1>7. ASSUME NEW s \in Server, Len(applied'[s]) < Len(A)
      PROVE  NoUser(s)' /\ serverType'[s] # "leader"
  <2>1. Len(applied[s]) < Len(A)
    <3>1. Len(applied[s]) \in Nat /\ Len(applied'[s]) \in Nat /\ Len(applied[s]) <= Len(applied'[s])
      BY LogsGrow
    <3> QED
      BY <1>4, <1>7, <3>1
  <2>2. NoUser(s) /\ serverType[s] # "leader"
    BY <1>3, <2>1 DEF Taken
  <2>3. serverType'[s] # "leader"
    BY <1>1, <2>2, RolesNext
  <2> QED
    BY <2>2, <2>3, NoUserNext
<1>8. Texts(inherited)'
  BY <1>2, <1>3, <1>6
<1> QED
  BY <1>2, <1>3, <1>7, <1>8 DEF Taken

(* One follower may give its leader up. *)
OneCandidate ==
  \A s, p \in Server : serverType[s] = "candidate" /\ serverType[p] = "candidate" =>
    s = p /\ timeouts # 0

LEMMA OneCandidateNext ==
  ASSUME MaxTimeouts <= 1, Sound, OneCandidate, Next
  PROVE  OneCandidate'
<1>0. /\ timeouts \in Nat /\ MaxTimeouts \in Nat
      /\ serverType \in [Server -> {"leader", "follower", "candidate", "down"}]
  BY ReplicationConstants DEF Sound, TypeOK
<1>1. ASSUME NEW r \in Server, CronFollower(r) PROVE OneCandidate'
  <2>1. timeouts = 0 /\ timeouts' = 1 /\ serverType' = [serverType EXCEPT ![r] = "candidate"]
    BY <1>0, <1>1 DEF CronFollower
  <2>2. \A s \in Server : serverType[s] # "candidate"
    BY <2>1 DEF OneCandidate
  <2> QED
    BY <1>0, <2>1, <2>2 DEF OneCandidate
<1>2. ASSUME \A r \in Server : ~CronFollower(r) PROVE OneCandidate'
  <2>1. timeouts' = timeouts /\ \A s \in Server : serverType'[s] = "candidate" => serverType[s] = "candidate"
    BY <1>2, RolesNext
  <2> QED
    BY <2>1 DEF OneCandidate
<1> QED
  BY <1>1, <1>2

Ruled == (Calm /\ OneCandidate) \/ Taken

LEMMA RuledNext ==
  ASSUME MaxTimeouts <= 1, Sound, Singles, Ruled, [Next]_vars
  PROVE  Ruled'
<1>1. CASE UNCHANGED vars
  <2>1. UNCHANGED <<serverType, oldCmds, applied, inherited, timeouts, wire, reply, handler, requests>>
    BY <1>1 DEF vars, roleVars, dataVars, pastVars
  <2>2. Taken => Taken'
    BY <2>1 DEF Taken, NoCandidate, NoUser, Texts, Logs, From, InBatch, Running, InSeq
  <2>3. OneCandidate => OneCandidate'
    BY <2>1 DEF OneCandidate
  <2> QED
    BY <1>1, <2>2, <2>3, CalmStays DEF Ruled
<1>2. CASE Next
  <2>1. CASE Calm /\ OneCandidate /\ \A s \in Server : ~CronCandidate(s)
    BY <1>2, <2>1, CalmNext, OneCandidateNext DEF Ruled
  <2>2. ASSUME Calm, OneCandidate, NEW s \in Server, CronCandidate(s) PROVE Taken'
    BY <2>2, TakenStart DEF OneCandidate, CronCandidate
  <2>3. CASE Taken
    BY <1>2, <2>3, TakenNext DEF Ruled
  <2> QED
    BY <2>1, <2>2, <2>3 DEF Ruled
<1> QED
  BY <1>1, <1>2

(* Once a follower has taken over from the first leader, dead or only slow,   *)
(* nobody, the old leader among them, has executed or ever executes another   *)
(* command at a position the new leader had already executed: not what the    *)
(* old leader left in flight, not an entry that is only the text of its own   *)
(* beMy, not what other followers pass on.  One follower gives its leader up, *)
(* any number of leaders may stop.                                            *)
THEOREM TakeoverIsSafe ==
  ASSUME MaxUserBatch = 1, MaxTimeouts <= 1
  PROVE  Spec => []TakeoverAgrees
<1> DEFINE IInv == Sound /\ Singles /\ Ruled
<1>1. Init => IInv
  BY SoundInit, CalmInit DEF Ruled, OneCandidate, Init, InitAfter
<1>2. IInv /\ [Next]_vars => IInv'
  BY SoundNext, SinglesNext, RuledNext
<1>3. IInv => TakeoverAgrees
  <2>1. Calm => TakeoverAgrees
    BY DEF Calm, TakeoverAgrees, Agree
  <2>2. Taken => TakeoverAgrees
    BY DEF Taken, Texts, TakeoverAgrees
  <2> QED
    BY <2>1, <2>2 DEF Ruled
<1> QED
  BY <1>1, <1>2, <1>3, PTL DEF Spec

-----------------------------------------------------------------------------
(* The place of a command, through any changes of leader. *)

Gives(m, c, i) == Uniform(m) /\ m.hdr[1].off = i /\ m.cmd = c

(* The k-th entry of a log makes others execute c at i. *)
EntryGives(e, k, c, i) == IF e.hdr = <<>> THEN k = i /\ e.cmd = c ELSE Gives(e, c, i)

(* Somebody executed c at i, or may yet on account of what is sent or logged. *)
Has(c, i) ==
  \/ \E s \in Server : i \in DOMAIN applied[s] /\ applied[s][i] = c
  \/ \E q \in Server, m \in Packet : From(q, m) /\ Gives(m, c, i)
  \/ \E s \in Server : \E k \in DOMAIN oldCmds[s] : EntryGives(oldCmds[s][k], k, c, i)

LEMMA HeartBeatGives ==
  ASSUME NEW log \in Seq(Packet), NEW once \in BOOLEAN, NEW n \in Nat, NEW c, NEW i,
         Gives(HeartBeat(log, "SYN", once, n), c, i), c # NoCommand
  PROVE  \E k \in DOMAIN log : EntryGives(log[k], k, c, i)
<1> DEFINE b == HeartBeat(log, "SYN", once, n)
           f == b.hdr[1].off
           e == log[f]
<1> HIDE DEF b
<1>1. /\ b \in Packet /\ b.hdr # <<>>
      /\ \/ b.cmd = NoCommand
         \/ /\ f \in 1..Len(log) /\ Len(b.hdr) = Len(e.hdr) + 1 /\ b.cmd = e.cmd
            /\ \A j \in 1..Len(e.hdr) : b.hdr[j + 1] = e.hdr[j]
  BY HeartBeatIs DEF b
<1>2. Uniform(b) /\ f = i /\ b.cmd = c
  BY DEF Gives, b
<1>3. /\ f \in 1..Len(log) /\ Len(b.hdr) = Len(e.hdr) + 1 /\ b.cmd = e.cmd
      /\ \A j \in 1..Len(e.hdr) : b.hdr[j + 1] = e.hdr[j]
  BY <1>1, <1>2
<1>4. f \in DOMAIN log /\ e \in Packet
  BY <1>3, ElementOfSeq, LenProperties
<1>5. /\ Len(e.hdr) \in Nat /\ DOMAIN e.hdr = 1..Len(e.hdr)
      /\ DOMAIN b.hdr = 1..Len(e.hdr) + 1
  <2>1. Len(e.hdr) \in Nat /\ DOMAIN e.hdr = 1..Len(e.hdr)
    BY <1>4, LenProperties DEF Packet
  <2>2. DOMAIN b.hdr = 1..Len(b.hdr)
    BY <1>1, LenProperties DEF Packet
  <2> QED
    BY <1>3, <2>1, <2>2
<1>6. CASE e.hdr = <<>>
  <2>1. EntryGives(e, f, c, i)
    BY <1>2, <1>3, <1>6 DEF EntryGives
  <2> QED
    BY <1>4, <2>1
<1>7. CASE e.hdr # <<>>
  <2>1. \A j \in DOMAIN e.hdr : e.hdr[j].type = "SYN" /\ e.hdr[j].off = i
    <3> TAKE j \in DOMAIN e.hdr
    <3> HIDE DEF e, f
    <3>1. j \in 1..Len(e.hdr) /\ j + 1 \in 1..Len(e.hdr) + 1
      BY <1>5
    <3>2. j + 1 \in DOMAIN b.hdr /\ b.hdr[j + 1] = e.hdr[j]
      BY <1>3, <1>5, <3>1
    <3> QED
      BY <1>2, <3>2 DEF Uniform, f
  <2>2. 1 \in DOMAIN e.hdr
    BY <1>4, <1>7, OneFirst
  <2>3. Gives(e, c, i)
    BY <1>2, <1>3, <1>7, <2>1, <2>2 DEF Gives, Uniform
  <2>4. EntryGives(e, f, c, i)
    BY <1>7, <2>3 DEF EntryGives
  <2> QED
    BY <1>4, <2>4
<1> QED
  BY <1>6, <1>7

(* Only a user's command is executed at a place nothing in flight gives it. *)
LEMMA HasNext ==
  ASSUME Sound, Singles, Next, NEW c \in CommandType, NEW i \in Nat, Has(c, i)'
  PROVE  \/ Has(c, i)
         \/ \E s \in Server : WriteCommand(s) /\ Packet1(s).cmd = c /\ i = Len(applied[s]) + 1
<1> DEFINE Fresh == \E s \in Server : WriteCommand(s) /\ Packet1(s).cmd = c /\ i = Len(applied[s]) + 1
<1> HIDE DEF Fresh
<1>0. Flows /\ Sound'
  BY FlowsNext, SoundNext
<1>1. ASSUME NEW s \in Server, SynNext(s), Packet1(s).cmd = c, i = Len(applied[s]) + 1
      PROVE  Has(c, i)
  <2>1. /\ Handles(s) /\ handler[s].client \in Server /\ From(handler[s].client, Packet1(s))
        /\ Unwraps(Packet1(s), Len(oldCmds[s])) /\ Packet1(s).hdr # <<>>
    BY <1>1, SynFacts
  <2>2. Packet1(s) \in Packet /\ Len(oldCmds[s]) = Len(applied[s])
    BY <2>1, PacketRead DEF Sound, Packets
  <2>3. 1 \in DOMAIN Packet1(s).hdr
    BY <2>1, <2>2, OneFirst
  <2>4. Gives(Packet1(s), c, i)
    BY <1>1, <2>1, <2>2, <2>3 DEF Gives, Uniform, Unwraps, IsNext
  <2> QED
    BY <2>1, <2>2, <2>4 DEF Has
<1>2. ASSUME NEW s \in Server, i \in DOMAIN applied'[s], applied'[s][i] = c
      PROVE  Has(c, i) \/ Fresh
  <2>1. CASE applied'[s] = applied[s]
    BY <1>2, <2>1 DEF Has
  <2>2. CASE /\ WriteCommand(s) \/ SynNext(s)
             /\ Packet1(s).cmd \in CommandType
             /\ applied'[s] = Append(applied[s], Packet1(s).cmd)
    <3>1. applied[s] \in Seq(CommandType)
      BY DEF Sound, TypeOK
    <3>2. /\ DOMAIN applied'[s] = 1..Len(applied[s]) + 1 /\ DOMAIN applied[s] = 1..Len(applied[s])
          /\ Len(applied[s]) \in Nat
          /\ \A j \in 1..Len(applied[s]) : applied'[s][j] = applied[s][j]
          /\ applied'[s][Len(applied[s]) + 1] = Packet1(s).cmd
      BY <2>2, <3>1, AppendProperties, LenProperties
    <3>3. CASE i \in 1..Len(applied[s])
      BY <1>2, <3>2, <3>3 DEF Has
    <3>4. CASE i = Len(applied[s]) + 1
      BY <1>1, <1>2, <2>2, <3>2, <3>4 DEF Fresh
    <3>5. i \in 1..Len(applied[s]) \/ i = Len(applied[s]) + 1
      BY <1>2, <3>2
    <3> QED
      BY <3>3, <3>4, <3>5
  <2> QED
    BY <2>1, <2>2, LogsNext
<1>3. ASSUME NEW s \in Server, NEW k \in DOMAIN oldCmds'[s], EntryGives(oldCmds'[s][k], k, c, i)
      PROVE  Has(c, i) \/ Fresh
  <2>1. CASE oldCmds'[s] = oldCmds[s]
    BY <1>3, <2>1 DEF Has
  <2>2. CASE /\ WriteCommand(s) \/ SynNext(s)
             /\ oldCmds'[s] = Append(oldCmds[s], handler[s].first)
    <3>1. /\ oldCmds[s] \in Seq(Packet) /\ handler[s].first \in Packet
          /\ Len(oldCmds[s]) = Len(applied[s])
      BY HandlerParts DEF Sound, TypeOK, Packets
    <3>2. /\ DOMAIN oldCmds'[s] = 1..Len(oldCmds[s]) + 1 /\ DOMAIN oldCmds[s] = 1..Len(oldCmds[s])
          /\ Len(oldCmds[s]) \in Nat
          /\ \A j \in 1..Len(oldCmds[s]) : oldCmds'[s][j] = oldCmds[s][j]
          /\ oldCmds'[s][Len(oldCmds[s]) + 1] = handler[s].first
      BY <2>2, <3>1, AppendProperties, LenProperties
    <3>3. CASE k \in 1..Len(oldCmds[s])
      BY <1>3, <3>2, <3>3 DEF Has
    <3>4. CASE k = Len(oldCmds[s]) + 1
      <4>1. EntryGives(handler[s].first, k, c, i)
        BY <1>3, <3>2, <3>4
      <4>2. CASE WriteCommand(s)
        <5>1. handler[s].first = Packet1(s) /\ Packet1(s).hdr = <<>>
          BY <4>2, WriteLogs
        <5>2. k = i /\ Packet1(s).cmd = c
          BY <4>1, <5>1 DEF EntryGives
        <5> QED
          BY <3>1, <3>4, <4>2, <5>2 DEF Fresh
      <4>3. CASE SynNext(s)
        <5>1. Running(s) /\ handler[s].client # User
          BY <4>3, SynFacts, ReplicationConstants DEF Handles
        <5>2. /\ handler[s].client \in Server /\ From(handler[s].client, handler[s].first)
              /\ handler[s].first.hdr # <<>>
          BY <5>1, FirstRead
        <5> QED
          BY <3>1, <4>1, <5>2 DEF EntryGives, Has
      <4> QED
        BY <2>2, <4>2, <4>3
    <3>5. k \in 1..Len(oldCmds[s]) \/ k = Len(oldCmds[s]) + 1
      BY <3>2
    <3> QED
      BY <3>3, <3>4, <3>5
  <2> QED
    BY <2>1, <2>2, LogsNext
<1>4. ASSUME NEW q \in Server, NEW m \in Packet, From(q, m)', Gives(m, c, i)
      PROVE  Has(c, i) \/ Fresh
  <2>1. From(q, m) \/ Appears(q, m)
    BY <1>0, <1>4, FromNext DEF Comes
  <2>2. CASE From(q, m)
    BY <1>4, <2>2 DEF Has
  <2>3. ASSUME NEW once \in BOOLEAN, NEW n \in Nat, m = HeartBeat(oldCmds'[q], "SYN", once, n)
        PROVE  Has(c, i) \/ Fresh
    <3>1. oldCmds'[q] \in Seq(Packet) /\ c # NoCommand
      BY <1>0, ReplicationConstants DEF Sound, TypeOK
    <3>2. PICK k \in DOMAIN oldCmds'[q] : EntryGives(oldCmds'[q][k], k, c, i)
      BY <1>4, <2>3, <3>1, HeartBeatGives
    <3> QED
      BY <1>3, <3>2
  <2>4. m # BeMy
    BY <1>4 DEF BeMy, Gives, Uniform
  <2>5. \A once \in BOOLEAN, n \in Nat : m # Acknowledge(once, n)
    BY <1>4 DEF Acknowledge, Gives, Uniform
  <2> QED
    BY <2>1, <2>2, <2>3, <2>4, <2>5 DEF Appears
<1>5. \/ \E s \in Server : i \in DOMAIN applied'[s] /\ applied'[s][i] = c
      \/ \E q \in Server, m \in Packet : From(q, m)' /\ Gives(m, c, i)
      \/ \E s \in Server : \E k \in DOMAIN oldCmds'[s] : EntryGives(oldCmds'[s][k], k, c, i)
  BY DEF Has
<1>6. Has(c, i) \/ Fresh
  BY <1>2, <1>3, <1>4, <1>5
<1> QED
  BY <1>6 DEF Fresh

-----------------------------------------------------------------------------
(* Users' commands before they are executed. *)

UserBatch(s) == Running(s) /\ handler[s].client = User

Held(s, c) == InSeq(c, requests[s]) \/ (UserBatch(s) /\ handler[s].first.cmd = c)

Issued(c) == \E k \in 1..writes : Workload[k] = c

Distinct(q) == \A i, j \in DOMAIN q : q[i] = q[j] => i = j

(* What a step does with the commands that wait. *)
Waits(s) == requests'[s] = requests[s] \/ requests'[s] = <<>>

Keeps(s) == UserBatch(s)' => UserBatch(s) /\ handler'[s].first = handler[s].first

Adds(s) ==
  /\ writes < Len(Workload) /\ writes' = writes + 1
  /\ requests'[s] = Append(requests[s], Workload[writes + 1])
  /\ \A p \in Server : p # s => requests'[p] = requests[p]

Takes(s) ==
  /\ requests[s] # <<>>
  /\ handler'[s].first = Request(Head(requests[s]))
  /\ requests'[s] = Tail(requests[s])

LEMMA WaitsNext ==
  ASSUME Sound, Singles, MaxUserBatch = 1, Next, NEW s \in Server
  PROVE  /\ (Waits(s) /\ Keeps(s)) \/ (Adds(s) /\ Keeps(s)) \/ Takes(s)
         /\ writes' = writes \/ \E r \in Server : Adds(r)
<1>1. CASE UNCHANGED <<handler, requests, writes>>
  BY <1>1 DEF Waits, Keeps, UserBatch, Running
<1>2. ASSUME NEW r \in Server, Running(r), Advanced(r), UNCHANGED <<requests, writes>>
      PROVE  Waits(s) /\ Keeps(s) /\ writes' = writes
  <2> SUFFICES ASSUME handler'[s].todo # <<>>, handler'[s].client = User
               PROVE  UserBatch(s) /\ handler'[s].first = handler[s].first
    BY <1>2 DEF Waits, Keeps, UserBatch, Running
  <2> QED
    BY <1>2 DEF Advanced, UserBatch, Running
<1>3. ASSUME NEW r \in Server,
             WriteCommand(r) \/ SynNext(r) \/ SynOther(r) \/ AckResponse(r) \/ BeMyFollower(r)
      PROVE  Waits(s) /\ Keeps(s) /\ writes' = writes
  <2>1. Running(r) /\ Advanced(r)
    BY <1>3, WriteFacts, SynFacts, OtherFacts, AckFacts, BeMyFacts DEF Handles
  <2>2. UNCHANGED <<requests, writes>>
    BY <1>3 DEF WriteCommand, SynNext, SynOther, AckResponse, BeMyFollower
  <2> QED
    BY <1>2, <2>1, <2>2
<1>4. ASSUME NEW r \in Server, Issue(r)
      PROVE  Adds(r) /\ Keeps(s) /\ (s # r => Waits(s))
  <2>1. /\ writes < Len(Workload) /\ writes' = writes + 1 /\ UNCHANGED handler
        /\ requests' = [requests EXCEPT ![r] = Append(@, Workload[writes + 1])]
    BY <1>4 DEF Issue
  <2>2. requests \in [Server -> Seq(CommandType)]
    BY DEF Sound, TypeOK
  <2> QED
    BY <2>1, <2>2 DEF Adds, Keeps, Waits, UserBatch, Running
<1>5. ASSUME NEW r \in Server, ReadRequests(r)
      PROVE  ((Waits(s) /\ Keeps(s)) \/ Takes(s)) /\ writes' = writes
  <2>0. writes' = writes
    BY <1>5 DEF ReadRequests
  <2>1. /\ \A p \in Server : p # r => handler'[p] = handler[p] /\ requests'[p] = requests[p]
        /\ handler'[r].first = Request(requests[r][1])
        /\ requests'[r] = SubSeq(requests[r], 2, Len(requests[r])) /\ 1 <= Len(requests[r])
    <3>1. /\ \A p \in Server : p # r => handler'[p] = handler[p] /\ requests'[p] = requests[p]
          /\ handler'[r].first = Request(requests[r][1])
          /\ \E n \in 1..1 : /\ n <= Len(requests[r])
                             /\ requests'[r] = SubSeq(requests[r], n + 1, Len(requests[r]))
      BY <1>5, RequestsRead DEF Sound
    <3>2. requests'[r] = SubSeq(requests[r], 1 + 1, Len(requests[r])) /\ 1 <= Len(requests[r])
      BY <3>1
    <3>3. 1 + 1 = 2
      OBVIOUS
    <3> QED
      BY <3>1, <3>2, <3>3
  <2>2. CASE s # r
    BY <2>0, <2>1, <2>2 DEF Waits, Keeps, UserBatch, Running
  <2>3. CASE s = r
    <3>1. requests[r] \in Seq(CommandType)
      BY DEF Sound, TypeOK
    <3>2. requests[r] # <<>>
      BY <2>1
    <3>3. Head(requests[r]) = requests[r][1] /\ Tail(requests[r]) = SubSeq(requests[r], 2, Len(requests[r]))
      BY <3>1, <3>2
    <3> QED
      BY <2>0, <2>1, <2>3, <3>2, <3>3 DEF Takes
  <2> QED
    BY <2>2, <2>3
<1>6. ASSUME NEW r \in Server, NEW p \in Server, ReadPackets(r, p)
      PROVE  Waits(s) /\ Keeps(s) /\ writes' = writes
  <2>1. /\ handler'[r].client = p /\ \A x \in Server : x # r => handler'[x] = handler[x]
        /\ UNCHANGED <<requests, writes>>
    BY <1>6, FlowsReadPackets DEF Sound, ReadPackets
  <2> QED
    BY <2>1, ReplicationConstants DEF Waits, Keeps, UserBatch, Running
<1>7. ASSUME NEW r \in Server, Crash(r)
      PROVE  Waits(s) /\ Keeps(s) /\ writes' = writes
  <2>1. /\ handler'[r].todo = <<>> /\ requests'[r] = <<>>
        /\ \A p \in Server : p # r => handler'[p] = handler[p] /\ requests'[p] = requests[p]
    BY <1>7, CrashFacts DEF Sound
  <2>2. writes' = writes
    BY <1>7 DEF Crash
  <2> QED
    BY <2>1, <2>2 DEF Waits, Keeps, UserBatch, Running
<1>8. \A r \in Server : ServerCron(r) \/ CronFollower(r) \/ CronCandidate(r) =>
                          UNCHANGED <<handler, requests, writes>>
  BY DEF ServerCron, CronFollower, CronCandidate
<1>9. \A r, p \in Server : ClientWrite(r, p) \/ ReadEnd(r, p) => UNCHANGED <<handler, requests, writes>>
  BY DEF ClientWrite, ReadEnd
<1>10. CASE \E r \in Server : Issue(r)
  BY <1>4, <1>10
<1>11. CASE \E r \in Server : ReadRequests(r)
  BY <1>5, <1>11
<1> QED
  BY <1>1, <1>3, <1>6, <1>7, <1>8, <1>9, <1>10, <1>11 DEF Next

(* An executed command of a user is not held any more. *)
LEMMA WriteEnds ==
  ASSUME Sound, Singles, NEW s \in Server, WriteCommand(s)
  PROVE  /\ UserBatch(s) /\ handler[s].first = Packet1(s) /\ ~UserBatch(s)'
         /\ requests' = requests /\ writes' = writes
<1>1. Handles(s) /\ handler[s].client = User /\ Advanced(s)
  BY WriteFacts
<1>2. handler[s].todo = <<handler[s].first>>
  BY <1>1 DEF Singles, Handles
<1>3. handler'[s].todo = <<>>
  BY <1>1, <1>2 DEF Advanced
<1> QED
  BY <1>1, <1>3, WriteLogs DEF UserBatch, Running, Handles, WriteCommand

(* A command that waits is held by one server, once, and nobody has it. *)
Places ==
  /\ writes <= Len(Workload)
  /\ \A c \in CommandType : \A i \in Nat : Has(c, i) => Issued(c)
  /\ \A c \in CommandType : \A i, j \in Nat : Has(c, i) /\ Has(c, j) => i = j
  /\ \A s \in Server : \A c \in CommandType : Held(s, c) => Issued(c) /\ \A i \in Nat : ~Has(c, i)
  /\ \A s, p \in Server : \A c \in CommandType : Held(s, c) /\ Held(p, c) => s = p
  /\ \A s \in Server : /\ Distinct(requests[s])
                       /\ UserBatch(s) => ~InSeq(handler[s].first.cmd, requests[s])

LEMMA DistinctAppend ==
  ASSUME NEW S, NEW q \in Seq(S), NEW x \in S, Distinct(q), ~InSeq(x, q)
  PROVE  Distinct(Append(q, x))
<1>1. /\ Len(q) \in Nat /\ DOMAIN q = 1..Len(q)
      /\ DOMAIN Append(q, x) = 1..Len(q) + 1
      /\ \A i \in 1..Len(q) : Append(q, x)[i] = q[i]
      /\ Append(q, x)[Len(q) + 1] = x
  BY LenProperties, AppendProperties
<1> QED
  BY <1>1 DEF Distinct, InSeq

LEMMA DistinctTail ==
  ASSUME NEW S, NEW q \in Seq(S), q # <<>>, Distinct(q)
  PROVE  Distinct(Tail(q)) /\ ~InSeq(Head(q), Tail(q))
<1>1. /\ Len(q) \in Nat \ {0} /\ DOMAIN q = 1..Len(q) /\ Head(q) = q[1]
      /\ Tail(q) \in Seq(S) /\ Len(Tail(q)) = Len(q) - 1
      /\ \A i \in 1..Len(Tail(q)) : Tail(q)[i] = q[i + 1]
  BY EmptySeq, LenProperties, HeadTailProperties
<1>2. DOMAIN Tail(q) = 1..Len(q) - 1
  BY <1>1, LenProperties
<1>3. \A i \in DOMAIN Tail(q) : i \in Nat /\ i + 1 \in DOMAIN q /\ 1 \in DOMAIN q /\ i + 1 # 1
  BY <1>1, <1>2
<1>4. Distinct(Tail(q))
  <2> SUFFICES ASSUME NEW i \in DOMAIN Tail(q), NEW j \in DOMAIN Tail(q), Tail(q)[i] = Tail(q)[j]
               PROVE  i = j
    BY DEF Distinct
  <2>1. q[i + 1] = q[j + 1] /\ i + 1 \in DOMAIN q /\ j + 1 \in DOMAIN q
    BY <1>1, <1>2, <1>3
  <2>2. i + 1 = j + 1
    BY <2>1 DEF Distinct
  <2> QED
    BY <1>3, <2>2
<1>5. ~InSeq(Head(q), Tail(q))
  <2> SUFFICES ASSUME NEW i \in DOMAIN Tail(q), Tail(q)[i] = Head(q) PROVE FALSE
    BY DEF InSeq
  <2>1. q[i + 1] = q[1] /\ i + 1 \in DOMAIN q /\ 1 \in DOMAIN q /\ i + 1 # 1
    BY <1>1, <1>2, <1>3
  <2> QED
    BY <2>1 DEF Distinct
<1> QED
  BY <1>4, <1>5

LEMMA HeldNext ==
  ASSUME Sound, Singles, MaxUserBatch = 1, Places, Next, NEW s \in Server, NEW c \in CommandType,
         Held(s, c)'
  PROVE  Held(s, c) \/ (Adds(s) /\ c = Workload[writes + 1])
<1>1. /\ requests[s] \in Seq(CommandType) /\ writes \in Nat
      /\ InSeq(c, requests'[s]) \/ (UserBatch(s)' /\ handler'[s].first.cmd = c)
  BY DEF Sound, TypeOK, Held, InSeq
<1>2. CASE Waits(s) /\ Keeps(s)
  <2>1. InSeq(c, requests'[s]) => InSeq(c, requests[s])
    BY <1>2 DEF Waits, InSeq
  <2> QED
    BY <1>1, <1>2, <2>1 DEF Held, Keeps
<1>3. CASE Adds(s) /\ Keeps(s)
  <2>1. writes + 1 \in 1..Len(Workload) /\ Len(Workload) \in Nat
    BY <1>1, <1>3, ReplicationConstants, LenProperties DEF Adds
  <2>2. Workload[writes + 1] \in CommandType
    BY <2>1, ReplicationConstants, ElementOfSeq
  <2>3. InSeq(c, requests'[s]) => InSeq(c, requests[s]) \/ c = Workload[writes + 1]
    BY <1>1, <1>3, <2>2, InAppend DEF Adds
  <2> QED
    BY <1>1, <1>3, <2>3 DEF Held, Keeps
<1>4. CASE Takes(s)
  <2>1. /\ InSeq(c, requests'[s]) => InSeq(c, requests[s])
        /\ InSeq(Head(requests[s]), requests[s])
    BY <1>1, <1>4, InTail DEF Takes
  <2>2. handler'[s].first.cmd = Head(requests[s])
    BY <1>4 DEF Takes, Request
  <2> QED
    BY <1>1, <2>1, <2>2 DEF Held
<1> QED
  BY <1>2, <1>3, <1>4, WaitsNext

LEMMA PlacesNext ==
  ASSUME Sound, Singles, MaxUserBatch = 1, Distinct(Workload), Places, [Next]_vars
  PROVE  Places'
<1>1. CASE UNCHANGED vars
  <2>1. UNCHANGED <<oldCmds, applied, wire, reply, handler, requests, writes>>
    BY <1>1 DEF vars, dataVars
  <2>2. /\ \A c, i : Has(c, i)' <=> Has(c, i)
        /\ \A s, c : Held(s, c)' <=> Held(s, c)
        /\ \A c : Issued(c)' <=> Issued(c)
        /\ \A s : UserBatch(s)' <=> UserBatch(s)
    BY <2>1 DEF Has, Held, Issued, From, InBatch, UserBatch, Running, InSeq
  <2> QED
    BY <2>1, <2>2 DEF Places, Distinct, InSeq
<1>2. CASE Next
  <2>0. /\ writes \in Nat /\ Len(Workload) \in Nat /\ DOMAIN Workload = 1..Len(Workload)
        /\ writes <= Len(Workload)
    BY ReplicationConstants, LenProperties DEF Sound, TypeOK, Places
  <2>1. writes' = writes \/ (writes < Len(Workload) /\ writes' = writes + 1)
    BY <1>2, WaitsNext, ReplicationConstants DEF Adds
  <2>2. writes' <= Len(Workload) /\ \A c : Issued(c) => Issued(c)'
    BY <2>0, <2>1 DEF Issued
  <2>3. ASSUME NEW s \in Server, Adds(s), NEW c, c = Workload[writes + 1]
        PROVE  c \in CommandType /\ ~Issued(c) /\ Issued(c)'
    <3>1. /\ writes + 1 \in 1..Len(Workload) /\ writes' = writes + 1
          /\ writes + 1 \in 1..writes'
      BY <2>0, <2>3 DEF Adds
    <3>2. c \in CommandType
      BY <2>3, <3>1, ReplicationConstants, ElementOfSeq
    <3>3. Issued(c)'
      BY <2>3, <3>1 DEF Issued
    <3>4. ~Issued(c)
      <4> SUFFICES ASSUME NEW k \in 1..writes, Workload[k] = Workload[writes + 1] PROVE FALSE
        BY <2>3 DEF Issued
      <4>1. k \in DOMAIN Workload /\ writes + 1 \in DOMAIN Workload /\ k # writes + 1
        BY <2>0, <3>1
      <4> QED
        BY <4>1 DEF Distinct
    <3> QED
      BY <3>2, <3>3, <3>4
  <2>4. ASSUME NEW s \in Server, WriteCommand(s), NEW c \in CommandType, Packet1(s).cmd = c
        PROVE  Held(s, c) /\ \A p \in Server : ~Held(p, c)'
    <3>1. /\ UserBatch(s) /\ handler[s].first.cmd = c /\ ~UserBatch(s)'
          /\ requests' = requests /\ writes' = writes
      BY <2>4, WriteEnds
    <3>2. Held(s, c)
      BY <3>1 DEF Held
    <3>3. ~InSeq(handler[s].first.cmd, requests[s])
      BY <3>1 DEF Places
    <3>4. ~Held(s, c)'
      BY <3>1, <3>3 DEF Held, InSeq
    <3>5. ASSUME NEW p \in Server, Held(p, c)' PROVE FALSE
      <4>1. ~Adds(p)
        BY <2>0, <3>1 DEF Adds
      <4>2. Held(p, c)
        BY <1>2, <3>5, <4>1, HeldNext
      <4>3. p = s
        BY <3>2, <4>2 DEF Places
      <4> QED
        BY <3>4, <3>5, <4>3
    <3> QED
      BY <3>2, <3>5
  <2>5. ASSUME NEW c \in CommandType, NEW i \in Nat, Has(c, i)'
        PROVE  \/ Has(c, i)
               \/ \E s \in Server : WriteCommand(s) /\ Packet1(s).cmd = c /\ i = Len(applied[s]) + 1
    BY <1>2, <2>5, HasNext
  <2>6. ASSUME NEW c \in CommandType, NEW i \in Nat, Has(c, i)' PROVE Issued(c)'
    <3>1. Issued(c)
      BY <2>4, <2>5, <2>6 DEF Places
    <3> QED
      BY <2>2, <3>1
  <2>7. ASSUME NEW c \in CommandType, NEW i \in Nat, NEW j \in Nat, Has(c, i)', Has(c, j)'
        PROVE  i = j
    <3>1. CASE Has(c, i) /\ Has(c, j)
      BY <3>1 DEF Places
    <3>2. ASSUME NEW s \in Server, WriteCommand(s), Packet1(s).cmd = c
          PROVE  ~Has(c, i) /\ ~Has(c, j) /\ \A p \in Server : WriteCommand(p) /\ Packet1(p).cmd = c => p = s
      BY <2>4, <3>2 DEF Places
    <3> QED
      BY <2>5, <2>7, <3>1, <3>2
  <2>8. ASSUME NEW s \in Server, NEW c \in CommandType, Held(s, c)'
        PROVE  Issued(c)' /\ \A i \in Nat : ~Has(c, i)'
    <3>1. CASE Held(s, c)
      <4>1. Issued(c)'
        BY <2>2, <3>1 DEF Places
      <4>2. ASSUME NEW i \in Nat, Has(c, i)' PROVE FALSE
        BY <2>4, <2>5, <2>8, <3>1, <4>2 DEF Places
      <4> QED
        BY <4>1, <4>2
    <3>2. CASE Adds(s) /\ c = Workload[writes + 1]
      <4>1. Issued(c)' /\ ~Issued(c)
        BY <2>3, <3>2
      <4>2. ASSUME NEW i \in Nat, Has(c, i)' PROVE FALSE
        BY <2>4, <2>5, <4>1, <4>2 DEF Places
      <4> QED
        BY <4>1, <4>2
    <3> QED
      BY <1>2, <2>8, <3>1, <3>2, HeldNext
  <2>9. ASSUME NEW s \in Server, NEW p \in Server, NEW c \in CommandType, Held(s, c)', Held(p, c)'
        PROVE  s = p
    <3>1. CASE Held(s, c) /\ Held(p, c)
      BY <3>1 DEF Places
    <3>2. CASE c = Workload[writes + 1] /\ (Adds(s) \/ Adds(p))
      <4>1. ~Issued(c)
        BY <2>3, <3>2
      <4>2. ~Held(s, c) /\ ~Held(p, c)
        BY <4>1 DEF Places
      <4>3. Adds(s) /\ Adds(p)
        BY <1>2, <2>9, <4>2, HeldNext
      <4>4. s # p => requests'[p] = requests[p] /\ requests'[p] = Append(requests[p], c)
        BY <3>2, <4>3 DEF Adds
      <4>5. requests[p] \in Seq(CommandType) /\ Len(requests[p]) \in Nat
        BY LenProperties DEF Sound, TypeOK
      <4>6. Len(Append(requests[p], c)) = Len(requests[p]) + 1
        BY <4>5, AppendProperties
      <4> QED
        BY <4>4, <4>5, <4>6
    <3> QED
      BY <1>2, <2>9, <3>1, <3>2, HeldNext
  <2>10. ASSUME NEW s \in Server
         PROVE  /\ Distinct(requests'[s])
                /\ UserBatch(s)' => ~InSeq(handler'[s].first.cmd, requests'[s])
    <3>1. /\ requests[s] \in Seq(CommandType) /\ Distinct(requests[s])
          /\ UserBatch(s) => ~InSeq(handler[s].first.cmd, requests[s])
      BY DEF Sound, TypeOK, Places
    <3>2. CASE Waits(s) /\ Keeps(s)
      BY <3>1, <3>2 DEF Waits, Keeps, Distinct, InSeq
    <3>3. CASE Adds(s) /\ Keeps(s)
      <4>0. PICK c : c = Workload[writes + 1]
        OBVIOUS
      <4>1. c \in CommandType /\ ~Issued(c) /\ requests'[s] = Append(requests[s], c)
        BY <2>3, <3>3, <4>0 DEF Adds
      <4>2. ~Held(s, c)
        BY <4>1 DEF Places
      <4>3. Distinct(requests'[s])
        BY <3>1, <4>1, <4>2, DistinctAppend DEF Held
      <4>4. \A x : InSeq(x, requests'[s]) => InSeq(x, requests[s]) \/ x = c
        BY <3>1, <4>1, InAppend
      <4> QED
        BY <3>1, <3>3, <4>2, <4>3, <4>4 DEF Keeps, Held
    <3>4. CASE Takes(s)
      <4>1. handler'[s].first.cmd = Head(requests[s]) /\ requests'[s] = Tail(requests[s])
        BY <3>4 DEF Takes, Request
      <4> QED
        BY <3>1, <3>4, <4>1, DistinctTail DEF Takes
    <3> QED
      BY <1>2, <3>2, <3>3, <3>4, WaitsNext
  <2> QED
    BY <2>2, <2>6, <2>7, <2>8, <2>9, <2>10 DEF Places
<1> QED
  BY <1>1, <1>2

LEMMA PlacesInit ==
  ASSUME Distinct(Workload), Init
  PROVE  Places
<1>1. PICK n \in 0..Len(Workload) : InitAfter(n)
  BY DEF Init
<1> DEFINE A == applied[FirstLeader]
<1>2. /\ n \in Nat /\ n <= Len(Workload) /\ writes = n
      /\ Len(Workload) \in Nat /\ DOMAIN Workload = 1..Len(Workload)
      /\ FirstLeader \in Server
  BY <1>1, ReplicationConstants, LenProperties DEF InitAfter
<1>3. /\ \A s \in Server \ {FirstLeader} : oldCmds[s] = <<>> /\ applied[s] = <<>>
      /\ \A i \in 1..n : oldCmds[FirstLeader][i] = Request(A[i])
      /\ Len(oldCmds[FirstLeader]) = n /\ Len(A) = n
      /\ oldCmds[FirstLeader] \in Seq(Packet) /\ A \in Seq(CommandType)
  BY <1>1, <1>2, LogsInit
<1>4. DOMAIN oldCmds[FirstLeader] = 1..n /\ DOMAIN A = 1..n
  BY <1>3, LenProperties
<1>5. \A i \in 1..n : A[i] = Workload[i]
  <2>1. A = SubSeq(Workload, 1, n)
    BY <1>1, <1>2 DEF InitAfter
  <2>2. \A i \in 1..n : Workload[i] \in CommandType
    BY <1>2, ReplicationConstants, ElementOfSeq
  <2> QED
    BY <1>2, <2>1, <2>2, SubSeqProperties
<1> HIDE DEF A
<1>6. ASSUME NEW c \in CommandType, NEW i \in Nat, Has(c, i)
      PROVE  i \in 1..n /\ c = Workload[i]
  <2>1. CASE \E s \in Server : i \in DOMAIN applied[s] /\ applied[s][i] = c
    BY <1>3, <1>4, <1>5, <2>1 DEF A
  <2>2. CASE \E s \in Server : \E k \in DOMAIN oldCmds[s] : EntryGives(oldCmds[s][k], k, c, i)
    <3>1. PICK s \in Server : \E k \in DOMAIN oldCmds[s] : EntryGives(oldCmds[s][k], k, c, i)
      BY <2>2
    <3>2. PICK k \in DOMAIN oldCmds[s] : EntryGives(oldCmds[s][k], k, c, i)
      BY <3>1
    <3>3. s = FirstLeader
      BY <1>3, <3>2
    <3>4. k \in 1..n /\ oldCmds[s][k] = Request(A[k])
      BY <1>3, <1>4, <3>3
    <3>5. oldCmds[s][k].hdr = <<>> /\ oldCmds[s][k].cmd = A[k]
      BY <3>4 DEF Request
    <3> QED
      BY <1>5, <3>2, <3>4, <3>5 DEF EntryGives
  <2> QED
    BY <1>6, <2>1, <2>2, NothingInFlight DEF Has
<1>7. \A s \in Server : requests[s] = <<>> /\ ~UserBatch(s)
  BY <1>1, NothingInFlight DEF InitAfter, UserBatch
<1>8. \A s \in Server : \A c : ~Held(s, c)
  BY <1>7 DEF Held, InSeq
<1>9. \A c \in CommandType : \A i, j \in Nat : Has(c, i) /\ Has(c, j) => i = j
  BY <1>2, <1>6 DEF Distinct
<1>10. \A c \in CommandType : \A i \in Nat : Has(c, i) => Issued(c)
  BY <1>2, <1>6 DEF Issued
<1> QED
  BY <1>2, <1>7, <1>8, <1>9, <1>10 DEF Places, Distinct

(* Whoever executes a command executes it at the one place where it was       *)
(* executed first, through any number of leaders that stop or are given up    *)
(* while they live, with any number of leaders at work: two logs may disagree *)
(* on what a place holds, never on where a command belongs, so that nobody    *)
(* executes one twice.  Users' commands differ and arrive one to a read.      *)
THEOREM CommandsKeepTheirPlace ==
  ASSUME MaxUserBatch = 1, \A i, j \in DOMAIN Workload : Workload[i] = Workload[j] => i = j
  PROVE  Spec => []OnePlace
<1> DEFINE IInv == Sound /\ Singles /\ Places
<1>0. Distinct(Workload)
  BY DEF Distinct
<1>1. Init => IInv
  BY <1>0, SoundInit, CalmInit, PlacesInit
<1>2. IInv /\ [Next]_vars => IInv'
  BY <1>0, SoundNext, SinglesNext, PlacesNext
<1>3. IInv => OnePlace
  <2> SUFFICES ASSUME IInv, NEW s \in Server, NEW p \in Server,
                      NEW i \in DOMAIN applied[s], NEW j \in DOMAIN applied[p],
                      applied[s][i] = applied[p][j]
               PROVE  i = j
    BY DEF OnePlace
  <2>1. /\ applied[s] \in Seq(CommandType) /\ applied[p] \in Seq(CommandType)
    BY DEF Sound, TypeOK
  <2>2. i \in Nat /\ j \in Nat /\ applied[s][i] \in CommandType
    BY <2>1, ElementOfSeq, LenProperties
  <2>3. Has(applied[s][i], i) /\ Has(applied[s][i], j)
    BY DEF Has
  <2> QED
    BY <2>2, <2>3 DEF Places
<1> QED
  BY <1>1, <1>2, <1>3, PTL DEF Spec
=============================================================================
