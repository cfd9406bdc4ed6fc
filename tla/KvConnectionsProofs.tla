------------------------ MODULE KvConnectionsProofs ------------------------
(***************************************************************************)
(* Proofs about KvConnections, for any users, descriptors and bounds: the  *)
(* types, the state the loop keeps (Sound), that the connection whose      *)
(* packet is run is not closed under it; then that every connection waits  *)
(* for one thing at a time (OneWait), that packets are run once and in     *)
(* order (Flow), and that answers go to those who asked (Answers).         *)
(***************************************************************************)
EXTENDS KvConnections, SequenceTheorems, FiniteSetTheorems, TLAPS

(* A slot is open exactly when its descriptor is, for the same peer. *)
SlotsMatch ==
  \A fd \in Fd :
    /\ conn[fd] = Nobody => Clients[fd].fdSock = -1 /\ armed[fd] = "off"
    /\ conn[fd] # Nobody => Clients[fd].fdSock = fd /\ Clients[fd].name = conn[fd]

(* A peer has one descriptor, and one that waits to be accepted has none. *)
OneEach ==
  /\ \A f, g \in Fd : conn[f] # Nobody /\ conn[f] = conn[g] => f = g
  /\ \A fd \in Fd : conn[fd] # Nobody => end[conn[fd]] \notin {"new", "closed"}
  /\ \A i \in DOMAIN backlog :
       /\ end[backlog[i]] \notin {"new", "closed"}
       /\ \A fd \in Fd : conn[fd] # backlog[i]
       /\ \A j \in DOMAIN backlog : backlog[i] = backlog[j] => i = j
  /\ <<fd_server, "in">> \in batch => backlog # <<>>

(* The entries of leaderClients are open slots of leaders. *)
LeaderSlots ==
  \A e \in leaderClients :
    /\ conn[e[2]] = e[1]
    /\ Clients[e[2]].clientType = "leader"

(* A pending "in" finds something to read, or its slot closed, or is stale. *)
EventsDue ==
  \A fd \in Fd : <<fd, "in">> \in batch =>
    conn[fd] \in stale \cup {Nobody} \/ stream[conn[fd]] # <<>> \/ AtEnd(fd)

(* The slot whose packet is run is open, and the timer has reason to leave it *)
(* open, except for a leader's that is stale.                                *)
RunAlive ==
  /\ run.todo = <<>> <=> run.at \in {"loop", "arm"}
  /\ run.at # "loop" /\ Slot.name \notin stale =>
       /\ conn[run.client] # Nobody
       /\ Slot.clientType = "leader" => fresh
       /\ run.at = "call" => Slot.cmd # "nullptr"

Sound == TypeOK /\ SlotsMatch /\ OneEach /\ LeaderSlots /\ EventsDue /\ RunAlive

-----------------------------------------------------------------------------
(* Facts about the constants. *)

LEMMA Numbers ==
  /\ \A fd \in Fd : fd \in Int /\ fd # -1 /\ fd # fd_server
  /\ FirstFd \in Fd
  /\ Nobody \notin Peer /\ \A p \in Link : p \in Peer /\ p \notin User
  /\ \A u \in User : u \in Peer
BY ConnectionConstants DEF Fd, fd_server, Peer

LEMMA PacketFields ==
  ASSUME NEW m \in Packet
  PROVE  m.from \in Peer /\ m.no \in Nat \ {0}
BY DEF Packet

(* What becomes of a slot. *)
LEMMA SlotOpened ==
  ASSUME NEW c \in RedisClient, NEW fd \in Fd, NEW p \in Peer, NEW type \in {"user", "leader"}
  PROVE  /\ Opened(c, fd, p, type) \in RedisClient
         /\ Opened(c, fd, p, type).fdSock = fd
         /\ Opened(c, fd, p, type).name = p
         /\ Opened(c, fd, p, type).clientType = type
         /\ Opened(c, fd, p, type).cmd = c.cmd
         /\ Opened(c, fd, p, type).argv1 = c.argv1
         /\ Opened(c, fd, p, type).bufferWrite = c.bufferWrite
BY DEF Opened, RedisClient

LEMMA SlotClosed ==
  ASSUME NEW c \in RedisClient
  PROVE  /\ Closed(c) \in RedisClient
         /\ Closed(c).fdSock = -1
         /\ Closed(c).name = c.name
         /\ Closed(c).clientType = c.clientType
         /\ Closed(c).argv1 = c.argv1
         /\ Closed(c).bufferWrite = c.bufferWrite
BY DEF Closed, RedisClient

LEMMA SlotDecoded ==
  ASSUME NEW c \in RedisClient, NEW m \in Packet
  PROVE  /\ Decoded(c, m) \in RedisClient
         /\ Decoded(c, m).fdSock = c.fdSock
         /\ Decoded(c, m).name = c.name
         /\ Decoded(c, m).clientType = c.clientType
         /\ Decoded(c, m).cmd = "command"
         /\ Decoded(c, m).argv1 = Argv1(m)
         /\ Decoded(c, m).bufferWrite = c.bufferWrite
BY DEF Decoded, Argv1, RedisClient

-----------------------------------------------------------------------------
(* Type correctness. *)

LEMMA TypeInit ==
  ASSUME Init
  PROVE  TypeOK
<1>1. Unused \in RedisClient
  BY DEF Unused, RedisClient
<1>2. Idle \in [client : Fd, todo : Seq(Packet), at : {"loop", "find", "call", "arm"}]
  BY Numbers DEF Idle
<1>3. <<>> \in Seq(Packet) /\ <<>> \in Seq(User)
  OBVIOUS
<1>4. /\ conn \in [Fd -> Peer \cup {Nobody}]
      /\ armed \in [Fd -> {"in", "out", "off"}]
      /\ end \in [Peer -> {"new", "open", "fin", "reset", "closed"}]
  BY DEF Init
<1>5. /\ stream \in [Peer -> Seq(Packet)] /\ sent \in [Peer -> Seq(Packet)]
      /\ got \in [Peer -> Seq(Packet)] /\ ran \in [Peer -> Seq(Packet)]
  BY <1>3 DEF Init
<1>6. Clients \in [Fd -> RedisClient]
  BY <1>1 DEF Init
<1>7. /\ leaked \subseteq Fd /\ stale \subseteq Peer
      /\ userClients \subseteq User \X Fd /\ leaderClients \subseteq Link \X Fd
      /\ batch \subseteq ({fd_server} \cup Fd) \X {"in", "out"}
      /\ nums_Client \in Int
  BY DEF Init
<1> QED
  BY <1>1, <1>2, <1>3, <1>4, <1>5, <1>6, <1>7 DEF Init, TypeOK

LEMMA TypeOutside ==
  ASSUME TypeOK,
         \/ \E u \in User : Dial(u)
         \/ \E p \in Peer : Leave(p) \/ \E kind \in Kind : Send(p, kind)
  PROVE  TypeOK'
<1>1. ASSUME NEW u \in User, Dial(u) PROVE TypeOK'
  <2>1. backlog' \in Seq(User)
    BY <1>1 DEF TypeOK, Dial
  <2>2. end' \in [Peer -> {"new", "open", "fin", "reset", "closed"}]
    BY <1>1 DEF TypeOK, Dial
  <2> QED
    BY <1>1, <2>1, <2>2 DEF TypeOK, Dial, kernel, slots, loop, history
<1>2. ASSUME NEW p \in Peer, Leave(p) PROVE TypeOK'
  BY <1>2 DEF TypeOK, Leave, kernel, slots, loop, history
<1>3. ASSUME NEW p \in Peer, NEW kind \in Kind, Send(p, kind) PROVE TypeOK'
  <2>1. [from |-> p, no |-> Len(sent[p]) + 1, kind |-> kind] \in Packet
    BY DEF TypeOK, Packet
  <2> QED
    BY <1>3, <2>1 DEF TypeOK, Send, kernel, slots, loop, history
<1> QED
  BY <1>1, <1>2, <1>3

LEMMA TypeInitClient ==
  ASSUME TypeOK, NEW fd \in Fd, NEW p \in Peer, NEW type \in {"user", "leader"},
         NEW clients, clients \in [Fd -> RedisClient],
         InitClient(clients, fd, p, type)
  PROVE  /\ conn' \in [Fd -> Peer \cup {Nobody}]
         /\ armed' \in [Fd -> {"in", "out", "off"}]
         /\ Clients' \in [Fd -> RedisClient]
         /\ nums_Client' \in Int
         /\ stale' \subseteq Peer
<1>1. clients[fd] \in RedisClient
  OBVIOUS
<1>2. Opened(clients[fd], fd, p, type) \in RedisClient
  BY <1>1, SlotOpened
<1> QED
  BY <1>2, Numbers DEF TypeOK, InitClient

LEMMA TypeCloseClient ==
  ASSUME TypeOK, NEW fd \in Fd, CloseClient(fd), Clients[fd].fdSock # -1 => Clients[fd].name \in Peer
  PROVE  /\ conn' \in [Fd -> Peer \cup {Nobody}]
         /\ armed' \in [Fd -> {"in", "out", "off"}]
         /\ end' \in [Peer -> {"new", "open", "fin", "reset", "closed"}]
         /\ stream' \in [Peer -> Seq(Packet)]
         /\ Clients' \in [Fd -> RedisClient]
         /\ nums_Client' \in Int
         /\ userClients' \subseteq User \X Fd /\ leaderClients' \subseteq Link \X Fd
<1>1. CASE Clients[fd].fdSock = -1
  BY <1>1 DEF TypeOK, CloseClient, slots
<1>2. CASE Clients[fd].fdSock # -1
  <2> DEFINE p == Clients[fd].name
  <2>1. Closed(Clients[fd]) \in RedisClient
    BY SlotClosed DEF TypeOK
  <2>6. /\ conn' = [conn EXCEPT ![fd] = Nobody]
        /\ armed' = [armed EXCEPT ![fd] = "off"]
        /\ end' = [end EXCEPT ![p] = "closed"]
        /\ stream' = [stream EXCEPT ![p] = <<>>]
        /\ Clients' = [Clients EXCEPT ![fd] = Closed(Clients[fd])]
    BY <1>2 DEF CloseClient
  <2>2. /\ userClients' \subseteq userClients
        /\ leaderClients' \subseteq leaderClients
    BY <1>2 DEF CloseClient, Erased
  <2>3. nums_Client' \in Int
    BY <1>2 DEF TypeOK, CloseClient, OneLess
  <2>4. /\ conn' \in [Fd -> Peer \cup {Nobody}]
        /\ armed' \in [Fd -> {"in", "out", "off"}]
        /\ Clients' \in [Fd -> RedisClient]
    BY <2>1, <2>6 DEF TypeOK
  <2>5. /\ end' \in [Peer -> {"new", "open", "fin", "reset", "closed"}]
        /\ stream' \in [Peer -> Seq(Packet)]
    <3>1. <<>> \in Seq(Packet)
      OBVIOUS
    <3>2. stream' \in [Peer -> Seq(Packet)]
      BY <2>6, <3>1 DEF TypeOK
    <3>3. end' \in [Peer -> {"new", "open", "fin", "reset", "closed"}]
      BY <2>6 DEF TypeOK
    <3> QED
      BY <3>2, <3>3
  <2> QED
    BY <1>2, <2>1, <2>3, <2>4, <2>5, <2>2, Numbers DEF TypeOK, CloseClient
<1> QED
  BY <1>1, <1>2


(* What a handler needs of the slot it works for. *)
LEMMA TypeRunCommand ==
  ASSUME TypeOK, NEW fd \in Fd, NEW tokens \in Seq(Packet), RunCommand(fd, tokens)
  PROVE  /\ Clients' \in [Fd -> RedisClient]
         /\ run' \in [client : Fd, todo : Seq(Packet), at : {"loop", "find", "call", "arm"}]
         /\ \A g \in Fd : /\ g # fd => Clients'[g] = Clients[g]
                          /\ Clients'[g].fdSock = Clients[g].fdSock
                          /\ Clients'[g].name = Clients[g].name
                          /\ Clients'[g].clientType = Clients[g].clientType
                          /\ Clients'[g].bufferWrite = Clients[g].bufferWrite
<1>1. ASSUME NEW b \in Seq(Packet), NEW c \in RedisClient
      PROVE  /\ [c EXCEPT !.bufferRead = b] \in RedisClient
             /\ [c EXCEPT !.bufferRead = b].fdSock = c.fdSock
             /\ [c EXCEPT !.bufferRead = b].name = c.name
             /\ [c EXCEPT !.bufferRead = b].clientType = c.clientType
             /\ [c EXCEPT !.bufferRead = b].bufferWrite = c.bufferWrite
  BY DEF RedisClient
<1>2. PICK b \in Seq(Packet) : Clients' = [Clients EXCEPT ![fd].bufferRead = b]
  <2>1. CASE tokens = <<>>
    BY <2>1 DEF RunCommand
  <2>2. CASE tokens # <<>>
    <3>1. <<Head(tokens)>> \in Seq(Packet)
      BY <2>2, HeadTailProperties
    <3> QED
      BY <2>2, <3>1 DEF RunCommand
  <2> QED
    BY <2>1, <2>2
<1>3. Clients[fd] \in RedisClient
  BY DEF TypeOK
<1>4. Clients' = [Clients EXCEPT ![fd] = [Clients[fd] EXCEPT !.bufferRead = b]]
  BY <1>2
<1>5. run' \in [client : Fd, todo : Seq(Packet), at : {"loop", "find", "call", "arm"}]
  BY DEF RunCommand
<1> QED
  BY <1>1, <1>3, <1>4, <1>5 DEF TypeOK

LEMMA TypeFillBuffer ==
  ASSUME TypeOK, NEW m \in Packet
  PROVE  /\ FillBuffer(m) \in [Fd -> RedisClient]
         /\ \A g \in Fd : /\ g # run.client => FillBuffer(m)[g] = Clients[g]
                          /\ FillBuffer(m)[g].fdSock = Clients[g].fdSock
                          /\ FillBuffer(m)[g].name = Clients[g].name
                          /\ FillBuffer(m)[g].clientType = Clients[g].clientType
                          /\ FillBuffer(m)[g].argv1 = Clients[g].argv1
                          /\ FillBuffer(m)[g].cmd = Clients[g].cmd
         /\ FillBuffer(m)[run.client].bufferWrite = <<m>>
<1>1. ASSUME NEW c \in RedisClient
      PROVE  /\ [c EXCEPT !.bufferWrite = <<m>>] \in RedisClient
             /\ [c EXCEPT !.bufferWrite = <<m>>].fdSock = c.fdSock
             /\ [c EXCEPT !.bufferWrite = <<m>>].name = c.name
             /\ [c EXCEPT !.bufferWrite = <<m>>].clientType = c.clientType
             /\ [c EXCEPT !.bufferWrite = <<m>>].argv1 = c.argv1
             /\ [c EXCEPT !.bufferWrite = <<m>>].cmd = c.cmd
             /\ [c EXCEPT !.bufferWrite = <<m>>].bufferWrite = <<m>>
  <2>1. <<m>> \in Seq(Packet)
    OBVIOUS
  <2> QED
    BY <1>1, <2>1 DEF RedisClient
<1>2. run.client \in Fd /\ Slot \in RedisClient
  BY DEF TypeOK, Slot
<1>3. FillBuffer(m) = [Clients EXCEPT ![run.client] = [Slot EXCEPT !.bufferWrite = <<m>>]]
  BY DEF FillBuffer, Slot
<1> QED
  BY <1>1, <1>2, <1>3 DEF TypeOK, Slot

LEMMA TypeCalled ==
  ASSUME TypeOK, Called, run.todo # <<>>
  PROVE  /\ Head(run.todo) \in Packet
         /\ run' \in [client : Fd, todo : Seq(Packet), at : {"loop", "find", "call", "arm"}]
         /\ ran' \in [Peer -> Seq(Packet)]
<1>1. /\ Head(run.todo) \in Packet /\ Tail(run.todo) \in Seq(Packet)
  BY HeadTailProperties DEF TypeOK
<1>2. Append(ran[Slot.name], Head(run.todo)) \in Seq(Packet) \/ Slot.name \notin Peer
  BY <1>1 DEF TypeOK
<1>3. ran' \in [Peer -> Seq(Packet)]
  BY <1>2 DEF TypeOK, Called
<1> QED
  BY <1>1, <1>3 DEF TypeOK, Called


-----------------------------------------------------------------------------
(* Descriptors given out and taken back. *)

LEMMA Opening ==
  ASSUME Sound, NEW fd \in Fd, Lowest(fd), NEW p \in Peer, NEW type \in {"user", "leader"},
         \A g \in Fd : conn[g] # p,
         NEW clients \in [Fd -> RedisClient],
         \A g \in Fd : /\ clients[g].fdSock = Clients[g].fdSock
                       /\ clients[g].name = Clients[g].name
                       /\ clients[g].clientType = Clients[g].clientType,
         InitClient(clients, fd, p, type)
  PROVE  /\ conn' \in [Fd -> Peer \cup {Nobody}]
         /\ armed' \in [Fd -> {"in", "out", "off"}]
         /\ Clients' \in [Fd -> RedisClient]
         /\ nums_Client' \in Int
         /\ stale' \subseteq Peer /\ stale \subseteq stale' /\ stale' \subseteq stale \cup {p}
         /\ conn[fd] = Nobody /\ conn'[fd] = p /\ armed'[fd] = "in"
         /\ Clients'[fd] = Opened(clients[fd], fd, p, type)
         /\ Clients'[fd].name = p /\ Clients'[fd].clientType = type
         /\ \A g \in Fd : g # fd => /\ conn'[g] = conn[g] /\ armed'[g] = armed[g]
                                    /\ Clients'[g] = clients[g]
         /\ \A w \in {"in", "out"} : <<fd, w>> \in batch => p \in stale'
         /\ run.at # "loop" /\ fd = run.client => p \in stale'
         /\ SlotsMatch'
<1>1. clients[fd] \in RedisClient
  OBVIOUS
<1>2. /\ Opened(clients[fd], fd, p, type) \in RedisClient
      /\ Opened(clients[fd], fd, p, type).fdSock = fd
      /\ Opened(clients[fd], fd, p, type).name = p
      /\ Opened(clients[fd], fd, p, type).clientType = type
  BY <1>1, SlotOpened
<1>3. /\ conn \in [Fd -> Peer \cup {Nobody}] /\ armed \in [Fd -> {"in", "out", "off"}]
      /\ nums_Client \in Int /\ stale \subseteq Peer
  BY DEF Sound, TypeOK
<1>4. /\ conn' = [conn EXCEPT ![fd] = p]
      /\ armed' = [armed EXCEPT ![fd] = "in"]
      /\ Clients' = [clients EXCEPT ![fd] = Opened(clients[fd], fd, p, type)]
      /\ nums_Client' = nums_Client + 1
      /\ stale' = IF Pending(fd) THEN stale \cup {p} ELSE stale
  BY DEF InitClient
<1>5. conn[fd] = Nobody
  BY DEF Lowest, Free
<1>6. /\ conn'[fd] = p /\ armed'[fd] = "in"
      /\ Clients'[fd] = Opened(clients[fd], fd, p, type)
      /\ \A g \in Fd : g # fd => /\ conn'[g] = conn[g] /\ armed'[g] = armed[g]
                                 /\ Clients'[g] = clients[g]
  BY <1>3, <1>4
<1>7. /\ conn' \in [Fd -> Peer \cup {Nobody}] /\ armed' \in [Fd -> {"in", "out", "off"}]
      /\ Clients' \in [Fd -> RedisClient] /\ nums_Client' \in Int
  BY <1>2, <1>3, <1>4
<1>8. /\ \A w \in {"in", "out"} : <<fd, w>> \in batch => p \in stale'
      /\ run.at # "loop" /\ fd = run.client => p \in stale'
  BY <1>4 DEF Pending
<1>9. stale' \subseteq Peer /\ stale \subseteq stale' /\ stale' \subseteq stale \cup {p}
  BY <1>3, <1>4
<1>10. SlotsMatch'
  BY <1>2, <1>6, Numbers DEF Sound, SlotsMatch
<1> QED
  BY <1>2, <1>5, <1>6, <1>7, <1>8, <1>9, <1>10

(* The peer of the descriptor that is closed, if it is open. *)
LEMMA Closing ==
  ASSUME Sound, NEW fd \in Fd, CloseClient(fd), conn[fd] # Nobody
  PROVE  /\ conn[fd] \in Peer /\ Clients[fd].name = conn[fd]
         /\ conn'[fd] = Nobody /\ armed'[fd] = "off"
         /\ Clients'[fd] = Closed(Clients[fd])
         /\ \A g \in Fd : g # fd => /\ conn'[g] = conn[g] /\ armed'[g] = armed[g]
                                    /\ Clients'[g] = Clients[g]
         /\ end'[conn[fd]] = "closed" /\ stream'[conn[fd]] = <<>>
         /\ \A p \in Peer : p # conn[fd] => end'[p] = end[p] /\ stream'[p] = stream[p]
         /\ leaderClients' = Erased(leaderClients, conn[fd])
<1>1. /\ Clients[fd].fdSock = fd /\ Clients[fd].name = conn[fd] /\ fd # -1
      /\ conn[fd] \in Peer
  BY Numbers DEF Sound, SlotsMatch, TypeOK
<1>2. /\ conn' = [conn EXCEPT ![fd] = Nobody]
      /\ armed' = [armed EXCEPT ![fd] = "off"]
      /\ end' = [end EXCEPT ![conn[fd]] = "closed"]
      /\ stream' = [stream EXCEPT ![conn[fd]] = <<>>]
      /\ Clients' = [Clients EXCEPT ![fd] = Closed(Clients[fd])]
      /\ leaderClients' = Erased(leaderClients, conn[fd])
  BY <1>1 DEF CloseClient
<1> QED
  BY <1>1, <1>2 DEF Sound, TypeOK

LEMMA ClosedAlready ==
  ASSUME Sound, NEW fd \in Fd, CloseClient(fd), conn[fd] = Nobody
  PROVE  UNCHANGED <<conn, armed, end, stream, Clients, nums_Client, userClients, leaderClients>>
BY DEF Sound, SlotsMatch, CloseClient, slots

(* What closing a connection cannot disturb. *)
LEMMA ClosingSound ==
  ASSUME Sound, NEW fd \in Fd, CloseClient(fd), UNCHANGED <<backlog, stale>>,
         batch' \subseteq batch
  PROVE  SlotsMatch' /\ OneEach' /\ LeaderSlots' /\ EventsDue'
<1>1. CASE conn[fd] = Nobody
  <2>1. UNCHANGED <<conn, armed, end, stream, Clients, nums_Client, userClients, leaderClients>>
    BY <1>1, ClosedAlready
  <2> QED
    BY <2>1 DEF Sound, SlotsMatch, OneEach, LeaderSlots, EventsDue, AtEnd
<1>2. CASE conn[fd] # Nobody
  <2>1. /\ conn[fd] \in Peer /\ Clients[fd].name = conn[fd]
        /\ conn'[fd] = Nobody /\ armed'[fd] = "off"
        /\ Clients'[fd] = Closed(Clients[fd])
        /\ \A g \in Fd : g # fd => /\ conn'[g] = conn[g] /\ armed'[g] = armed[g]
                                   /\ Clients'[g] = Clients[g]
        /\ end'[conn[fd]] = "closed" /\ stream'[conn[fd]] = <<>>
        /\ \A p \in Peer : p # conn[fd] => end'[p] = end[p] /\ stream'[p] = stream[p]
        /\ leaderClients' = Erased(leaderClients, conn[fd])
    BY <1>2, Closing
  <2>2. Clients'[fd].fdSock = -1
    BY <2>1, SlotClosed DEF Sound, TypeOK
  <2>3. SlotsMatch'
    BY <2>1, <2>2 DEF Sound, SlotsMatch
  <2>4. OneEach'
    <3>1. \A i \in DOMAIN backlog : backlog[i] \in Peer /\ backlog[i] # conn[fd]
      BY Numbers DEF Sound, TypeOK, OneEach
    <3>2. \A g \in Fd : g # fd /\ conn[g] # Nobody => conn[g] \in Peer /\ conn[g] # conn[fd]
      BY <1>2 DEF Sound, TypeOK, OneEach
    <3>3. \A f, g \in Fd : conn'[f] # Nobody /\ conn'[f] = conn'[g] => f = g
      BY <2>1 DEF Sound, OneEach
    <3>4. \A g \in Fd : conn'[g] # Nobody => end'[conn'[g]] \notin {"new", "closed"}
      BY <2>1, <3>2 DEF Sound, OneEach
    <3>5. \A i \in DOMAIN backlog :
            /\ end'[backlog[i]] \notin {"new", "closed"}
            /\ \A g \in Fd : conn'[g] # backlog[i]
      BY <2>1, <3>1, Numbers DEF Sound, OneEach
    <3> QED
      BY <3>3, <3>4, <3>5 DEF Sound, OneEach
  <2>5. LeaderSlots'
    <3>1. \A e \in leaderClients' : e \in leaderClients /\ e[1] # conn[fd] /\ e[2] \in Fd
      BY <2>1 DEF Sound, TypeOK, Erased, SameName
    <3>2. \A e \in leaderClients' : e[2] # fd
      BY <3>1 DEF Sound, LeaderSlots
    <3> QED
      BY <2>1, <3>1, <3>2 DEF Sound, LeaderSlots
  <2>6. EventsDue'
    <3>1. \A g \in Fd : g # fd /\ conn[g] # Nobody => conn[g] \in Peer /\ conn[g] # conn[fd]
      BY <1>2 DEF Sound, TypeOK, OneEach
    <3> QED
      BY <2>1, <3>1 DEF Sound, EventsDue, AtEnd
  <2> QED
    BY <2>3, <2>4, <2>5, <2>6
<1> QED
  BY <1>1, <1>2


-----------------------------------------------------------------------------
(* The state of the loop is sound. *)

LEMMA SoundInit ==
  ASSUME Init
  PROVE  Sound
<1>1. TypeOK
  BY TypeInit
<1> QED
  BY <1>1, Numbers DEF Init, Sound, SlotsMatch, OneEach, LeaderSlots, EventsDue, RunAlive,
                       Unused, Idle

LEMMA SoundOutside ==
  ASSUME Sound,
         \/ \E u \in User : Dial(u)
         \/ \E p \in Peer : Leave(p) \/ \E kind \in Kind : Send(p, kind)
  PROVE  Sound'
<1>1. TypeOK'
  BY TypeOutside DEF Sound
<1>2. ASSUME NEW u \in User, Dial(u) PROVE Sound'
  <2>1. /\ end[u] = "new" /\ backlog' = Append(backlog, u)
        /\ end'[u] = "open" /\ \A p \in Peer : p # u => end'[p] = end[p]
        /\ UNCHANGED <<stream, sent, kernel, slots, loop, history, crashed>>
    BY <1>2, Numbers DEF Dial, Sound, TypeOK
  <2>2. /\ DOMAIN backlog' = 1..Len(backlog) + 1 /\ DOMAIN backlog = 1..Len(backlog)
        /\ Len(backlog) \in Nat
        /\ backlog'[Len(backlog) + 1] = u
        /\ \A i \in DOMAIN backlog : backlog'[i] = backlog[i] /\ backlog[i] \in User
        /\ backlog' # <<>>
    BY <2>1, AppendProperties, LenProperties DEF Sound, TypeOK
  <2>3. /\ \A fd \in Fd : conn[fd] # u
        /\ \A i \in DOMAIN backlog : backlog[i] # u
    BY <2>1, Numbers DEF Sound, OneEach
  <2>4. /\ \A fd \in Fd : conn'[fd] # Nobody => end'[conn'[fd]] \notin {"new", "closed"}
        /\ \A f, g \in Fd : conn'[f] # Nobody /\ conn'[f] = conn'[g] => f = g
    <3>1. UNCHANGED conn
      BY <2>1 DEF kernel
    <3>2. \A fd \in Fd : conn[fd] # Nobody => conn[fd] \in Peer /\ end'[conn[fd]] = end[conn[fd]]
      BY <2>1, <2>3 DEF Sound, TypeOK
    <3> QED
      BY <3>1, <3>2 DEF Sound, OneEach
  <2>5. \A i \in DOMAIN backlog' :
          /\ end'[backlog'[i]] \notin {"new", "closed"}
          /\ \A fd \in Fd : conn'[fd] # backlog'[i]
          /\ \A j \in DOMAIN backlog' : backlog'[i] = backlog'[j] => i = j
    BY <2>1, <2>2, <2>3, Numbers DEF Sound, OneEach, kernel
  <2>6. OneEach'
    BY <2>1, <2>2, <2>4, <2>5 DEF OneEach
  <2>7. EventsDue'
    <3>1. \A fd \in Fd : conn[fd] # Nobody => end'[conn[fd]] = end[conn[fd]]
      BY <2>1, <2>3 DEF Sound, TypeOK
    <3> QED
      BY <2>1, <3>1 DEF Sound, EventsDue, AtEnd, kernel, loop, history
  <2> QED
    BY <1>1, <2>1, <2>6, <2>7
    DEF Sound, SlotsMatch, LeaderSlots, RunAlive, Slot, kernel, slots, loop, history
<1>3. ASSUME NEW p \in Peer, Leave(p) PROVE Sound'
  <2>1. /\ end'[p] \in {"fin", "reset"} /\ \A q \in Peer : q # p => end'[q] = end[q]
        /\ UNCHANGED <<stream, sent, backlog, kernel, slots, loop, history, crashed>>
    BY <1>3 DEF Leave, Sound, TypeOK
  <2>2. OneEach'
    <3>1. \A q \in Peer : end[q] \notin {"new", "closed"} => end'[q] \notin {"new", "closed"}
      BY <2>1
    <3>2. \A fd \in Fd : conn[fd] # Nobody => conn[fd] \in Peer
      BY DEF Sound, TypeOK
    <3>3. \A i \in DOMAIN backlog : backlog[i] \in Peer
      <4>1. backlog \in Seq(User)
        BY DEF Sound, TypeOK
      <4>2. \A i \in DOMAIN backlog : backlog[i] \in User
        BY <4>1
      <4> QED
        BY <4>2, Numbers
    <3> QED
      BY <2>1, <3>1, <3>2, <3>3 DEF Sound, OneEach, kernel, loop
  <2>3. EventsDue'
    BY <2>1, Numbers DEF Sound, TypeOK, EventsDue, AtEnd, kernel, loop, history
  <2> QED
    BY <1>1, <2>1, <2>2, <2>3
    DEF Sound, SlotsMatch, LeaderSlots, RunAlive, Slot, kernel, slots, loop, history
<1>4. ASSUME NEW p \in Peer, NEW kind \in Kind, Send(p, kind) PROVE Sound'
  <2>0. PICK m \in Packet : stream' = [stream EXCEPT ![p] = Append(stream[p], m)]
    <3>1. [from |-> p, no |-> Len(sent[p]) + 1, kind |-> kind] \in Packet
      BY DEF Sound, TypeOK, Packet
    <3> QED
      BY <1>4, <3>1 DEF Send
  <2>1. /\ stream'[p] # <<>> /\ \A q \in Peer : q # p => stream'[q] = stream[q]
        /\ UNCHANGED <<end, backlog, kernel, slots, loop, history, crashed>>
    <3>1. stream \in [Peer -> Seq(Packet)]
      BY DEF Sound, TypeOK
    <3>2. Append(stream[p], m) # <<>>
      BY <3>1, AppendProperties
    <3> QED
      BY <1>4, <2>0, <3>1, <3>2 DEF Send
  <2>2. OneEach'
    BY <2>1 DEF Sound, OneEach, kernel, loop
  <2>3. EventsDue'
    BY <2>1, Numbers DEF Sound, TypeOK, EventsDue, AtEnd, kernel, loop, history
  <2> QED
    BY <1>1, <2>1, <2>2, <2>3
    DEF Sound, SlotsMatch, LeaderSlots, RunAlive, Slot, kernel, slots, loop, history
<1> QED
  BY <1>2, <1>3, <1>4


LEMMA SoundEpollWait ==
  ASSUME Sound, EpollWait
  PROVE  Sound'
<1>1. /\ batch = {} /\ run.at = "loop" /\ ~crashed
      /\ batch' = Ready /\ armed' = Disarmed(Ready) /\ fresh' = FALSE
      /\ UNCHANGED <<outside, conn, leaked, slots, serverType, run, history, crashed>>
  BY DEF EpollWait, AtLoop
<1>2. \A fd \in Fd, w \in {"in", "out"} :
        <<fd, w>> \in Ready <=> /\ armed[fd] = w
                                /\ w = "in" => stream[conn[fd]] # <<>> \/ end[conn[fd]] # "open"
  BY Numbers DEF Ready
<1>3. Ready \subseteq ({fd_server} \cup Fd) \X {"in", "out"}
  BY DEF Ready
<1>4. armed' \in [Fd -> {"in", "out", "off"}]
      /\ \A fd \in Fd : armed'[fd] = "off" \/ armed'[fd] = armed[fd]
  BY <1>1 DEF Disarmed, Sound, TypeOK
<1>5. TypeOK'
  BY <1>1, <1>3, <1>4 DEF Sound, TypeOK, outside, slots, history
<1>6. <<fd_server, "in">> \in Ready => backlog # <<>>
  BY Numbers DEF Ready
<1>7. SlotsMatch'
  BY <1>1, <1>4 DEF Sound, SlotsMatch, slots
<1>8. OneEach'
  BY <1>1, <1>6 DEF Sound, OneEach, outside
<1>9. EventsDue'
  BY <1>1, <1>2 DEF EventsDue, AtEnd, outside
<1> QED
  BY <1>1, <1>5, <1>7, <1>8, <1>9 DEF Sound, LeaderSlots, RunAlive, Slot, slots

LEMMA SoundAccept ==
  ASSUME Sound, Accept
  PROVE  Sound'
<1> DEFINE u == Head(backlog)
<1>1. /\ run.at = "loop" /\ ~crashed /\ <<fd_server, "in">> \in batch
      /\ batch' = batch \ {<<fd_server, "in">>} /\ backlog' = Tail(backlog)
      /\ UNCHANGED <<stream, sent, serverType, fresh, run, got, ran>>
  BY DEF Accept, Serve, AtLoop
<1>2. /\ backlog # <<>> /\ backlog \in Seq(User)
      /\ u \in User /\ u \in Peer /\ Tail(backlog) \in Seq(User)
      /\ Len(backlog) \in Nat /\ Len(backlog) > 0
      /\ DOMAIN backlog = 1..Len(backlog) /\ DOMAIN Tail(backlog) = 1..Len(backlog) - 1
      /\ u = backlog[1]
      /\ \A i \in DOMAIN Tail(backlog) :
           /\ Tail(backlog)[i] = backlog[i + 1] /\ i + 1 \in DOMAIN backlog
           /\ Tail(backlog)[i] # u /\ Tail(backlog)[i] \in Peer
  <2>1. backlog # <<>> /\ backlog \in Seq(User)
    BY <1>1 DEF Sound, TypeOK, OneEach
  <2>2. /\ u \in User /\ u \in Peer /\ Tail(backlog) \in Seq(User) /\ u = backlog[1]
        /\ Len(backlog) \in Nat /\ Len(backlog) > 0 /\ Len(Tail(backlog)) = Len(backlog) - 1
        /\ \A i \in 1..Len(backlog) - 1 : Tail(backlog)[i] = backlog[i + 1]
    BY <2>1, HeadTailProperties, LenProperties, EmptySeq, Numbers
  <2>3. DOMAIN backlog = 1..Len(backlog) /\ DOMAIN Tail(backlog) = 1..Len(backlog) - 1
    BY <2>1, <2>2, LenProperties
  <2>4. \A i \in DOMAIN Tail(backlog) :
           /\ Tail(backlog)[i] = backlog[i + 1] /\ i + 1 \in DOMAIN backlog /\ i + 1 # 1
    BY <2>2, <2>3
  <2>5. 1 \in DOMAIN backlog
    BY <2>2, <2>3
  <2>6. \A i \in DOMAIN Tail(backlog) : Tail(backlog)[i] # u /\ Tail(backlog)[i] \in Peer
    <3>1. \A i \in DOMAIN Tail(backlog) : backlog[i + 1] # backlog[1]
      BY <2>4, <2>5 DEF Sound, OneEach
    <3>2. \A i \in DOMAIN Tail(backlog) : Tail(backlog)[i] \in User
      BY <2>2, <2>3
    <3> QED
      BY <2>2, <2>4, <3>1, <3>2, Numbers
  <2> QED
    BY <2>1, <2>2, <2>3, <2>4, <2>6
<1>3. /\ \A g \in Fd : conn[g] # u
      /\ end[u] \notin {"new", "closed"}
  BY <1>2 DEF Sound, OneEach
<1>4. <<fd_server, "in">> \notin batch'
  BY <1>1
<1>5. \A fd \in Fd, w \in {"in", "out"} : <<fd, w>> \in batch' => <<fd, w>> \in batch
  BY <1>1
<1>6. /\ \A i \in DOMAIN backlog' :
           /\ end[backlog'[i]] \notin {"new", "closed"}
           /\ \A fd \in Fd : conn[fd] # backlog'[i]
           /\ \A j \in DOMAIN backlog' : backlog'[i] = backlog'[j] => i = j
  BY <1>1, <1>2 DEF Sound, OneEach
<1>7. CASE Free = {}
  <2>1. /\ end' = [end EXCEPT ![u] = "closed"] /\ crashed' = (nums_Client < MAX_EVENT)
        /\ UNCHANGED <<kernel, slots, stale>>
    BY <1>7 DEF Accept
  <2>2. TypeOK'
    <3>1. end' \in [Peer -> {"new", "open", "fin", "reset", "closed"}]
      BY <1>2, <2>1 DEF Sound, TypeOK
    <3>2. crashed' \in BOOLEAN
      BY <2>1
    <3> QED
      BY <1>1, <1>2, <2>1, <3>1, <3>2 DEF Sound, TypeOK, kernel, slots
  <2>3. \A p \in Peer : p # u => end'[p] = end[p]
    BY <2>1 DEF Sound, TypeOK
  <2>4. OneEach'
    <3>1. \A fd \in Fd : conn[fd] # Nobody => conn[fd] \in Peer /\ conn[fd] # u
      BY <1>3 DEF Sound, TypeOK
    <3>2. /\ \A f, g \in Fd : conn'[f] # Nobody /\ conn'[f] = conn'[g] => f = g
          /\ \A fd \in Fd : conn'[fd] # Nobody => end'[conn'[fd]] \notin {"new", "closed"}
      BY <2>1, <2>3, <3>1 DEF Sound, OneEach, kernel
    <3>3. \A i \in DOMAIN backlog' :
           /\ end'[backlog'[i]] \notin {"new", "closed"}
           /\ \A fd \in Fd : conn'[fd] # backlog'[i]
           /\ \A j \in DOMAIN backlog' : backlog'[i] = backlog'[j] => i = j
      BY <1>1, <1>2, <1>6, <2>1, <2>3 DEF kernel
    <3> QED
      BY <1>4, <3>2, <3>3 DEF OneEach
  <2>5. EventsDue'
    <3>1. \A fd \in Fd : conn[fd] # Nobody => end'[conn[fd]] = end[conn[fd]]
      BY <1>3, <2>3 DEF Sound, TypeOK
    <3> QED
      BY <1>1, <1>5, <2>1, <3>1 DEF Sound, EventsDue, AtEnd, kernel
  <2> QED
    BY <1>1, <2>1, <2>2, <2>4, <2>5
    DEF Sound, SlotsMatch, LeaderSlots, RunAlive, Slot, kernel, slots
<1>8. CASE Free # {}
  <2>1. PICK fd \in Fd : /\ Lowest(fd) /\ InitClient(Clients, fd, u, "user")
                         /\ userClients' = userClients \cup {<<u, fd>>}
    BY <1>8 DEF Accept
  <2>2. UNCHANGED <<leaked, leaderClients, end, crashed>>
    BY <1>8 DEF Accept
  <2>3. /\ conn' \in [Fd -> Peer \cup {Nobody}]
        /\ armed' \in [Fd -> {"in", "out", "off"}]
        /\ Clients' \in [Fd -> RedisClient]
        /\ nums_Client' \in Int
        /\ stale' \subseteq Peer /\ stale \subseteq stale' /\ stale' \subseteq stale \cup {u}
        /\ conn[fd] = Nobody /\ conn'[fd] = u /\ armed'[fd] = "in"
        /\ \A g \in Fd : g # fd => /\ conn'[g] = conn[g] /\ armed'[g] = armed[g]
                                   /\ Clients'[g] = Clients[g]
        /\ \A w \in {"in", "out"} : <<fd, w>> \in batch => u \in stale'
        /\ SlotsMatch'
    <3>1. Clients \in [Fd -> RedisClient]
      BY DEF Sound, TypeOK
    <3> QED
      BY <1>2, <1>3, <2>1, <3>1, Opening
  <2>4. TypeOK'
    BY <1>1, <1>2, <2>1, <2>2, <2>3 DEF Sound, TypeOK
  <2>5. OneEach'
    <3>1. /\ \A f, g \in Fd : conn'[f] # Nobody /\ conn'[f] = conn'[g] => f = g
          /\ \A g \in Fd : conn'[g] # Nobody => end'[conn'[g]] \notin {"new", "closed"}
      BY <1>3, <2>2, <2>3 DEF Sound, OneEach
    <3>2. \A i \in DOMAIN backlog' :
           /\ end'[backlog'[i]] \notin {"new", "closed"}
           /\ \A g \in Fd : conn'[g] # backlog'[i]
           /\ \A j \in DOMAIN backlog' : backlog'[i] = backlog'[j] => i = j
      BY <1>1, <1>2, <1>6, <2>2, <2>3
    <3> QED
      BY <1>4, <3>1, <3>2 DEF OneEach
  <2>6. LeaderSlots'
    <3>1. \A e \in leaderClients : e[2] \in Fd /\ e[1] # Nobody
      BY Numbers DEF Sound, TypeOK
    <3>2. \A e \in leaderClients : e[2] # fd
      BY <2>3, <3>1 DEF Sound, LeaderSlots
    <3> QED
      BY <2>2, <2>3, <3>1, <3>2 DEF Sound, LeaderSlots
  <2>7. EventsDue'
    <3> SUFFICES ASSUME NEW g \in Fd, <<g, "in">> \in batch'
                 PROVE  conn'[g] \in stale' \cup {Nobody} \/ stream'[conn'[g]] # <<>> \/ AtEnd(g)'
      BY DEF EventsDue
    <3>1. <<g, "in">> \in batch
      BY <1>5
    <3>2. CASE g = fd
      BY <2>3, <3>1, <3>2
    <3>3. CASE g # fd
      <4>1. conn'[g] = conn[g] /\ UNCHANGED <<stream, end>> /\ stale \subseteq stale'
        BY <1>1, <2>2, <2>3, <3>3
      <4>2. conn[g] \in stale \cup {Nobody} \/ stream[conn[g]] # <<>> \/ AtEnd(g)
        BY <3>1 DEF Sound, EventsDue
      <4> QED
        BY <4>1, <4>2 DEF AtEnd
    <3> QED
      BY <3>2, <3>3
  <2>8. RunAlive'
    BY <1>1 DEF Sound, RunAlive
  <2> QED
    BY <2>3, <2>4, <2>5, <2>6, <2>7, <2>8 DEF Sound
<1> QED
  BY <1>7, <1>8


(* Steps that read a packet: what is kept when a run starts. *)
LEMMA SoundRead ==
  ASSUME Sound, NEW fd \in Fd, Serve(fd, "in"), conn[fd] # Nobody,
         NEW tokens \in Seq(Packet), RunCommand(fd, tokens),
         fresh' \in BOOLEAN, Clients[fd].clientType = "leader" /\ conn[fd] \notin stale => fresh',
         UNCHANGED <<end, sent, backlog, kernel, nums_Client, userClients, leaderClients,
                     serverType, history, crashed>>,
         stream' \in [Peer -> Seq(Packet)],
         \A p \in Peer : p # conn[fd] => stream'[p] = stream[p]
  PROVE  Sound'
<1>1. /\ Clients' \in [Fd -> RedisClient]
      /\ run' \in [client : Fd, todo : Seq(Packet), at : {"loop", "find", "call", "arm"}]
      /\ \A g \in Fd : /\ Clients'[g].fdSock = Clients[g].fdSock
                       /\ Clients'[g].name = Clients[g].name
                       /\ Clients'[g].clientType = Clients[g].clientType
  BY TypeRunCommand DEF Sound
<1>2. /\ batch' = batch \ {<<fd, "in">>} /\ run.at = "loop" /\ ~crashed
      /\ run'.client = fd /\ run'.todo = tokens
      /\ run'.at = IF tokens = <<>> THEN "arm" ELSE "find"
  BY DEF Serve, RunCommand, AtLoop
<1>3. TypeOK'
  BY <1>1, <1>2 DEF Sound, TypeOK, kernel, history
<1>4. SlotsMatch'
  BY <1>1 DEF Sound, SlotsMatch, kernel
<1>5. OneEach'
  BY <1>2 DEF Sound, OneEach, kernel
<1>6. LeaderSlots'
  <2>1. \A e \in leaderClients : e[2] \in Fd
    BY DEF Sound, TypeOK
  <2> QED
    BY <1>1, <2>1 DEF Sound, LeaderSlots, kernel
<1>7. EventsDue'
  <2>1. \A g \in Fd : g # fd /\ conn[g] # Nobody => conn[g] \in Peer /\ conn[g] # conn[fd]
    BY DEF Sound, OneEach, TypeOK
  <2> QED
    BY <1>2, <2>1 DEF Sound, EventsDue, AtEnd, kernel, history
<1>8. RunAlive'
  <2>1. Clients[fd].name = conn[fd]
    BY DEF Sound, SlotsMatch
  <2> QED
    BY <1>1, <1>2, <2>1 DEF RunAlive, Slot, kernel, history
<1> QED
  BY <1>3, <1>4, <1>5, <1>6, <1>7, <1>8 DEF Sound

LEMMA SoundReadData ==
  ASSUME Sound, NEW fd \in Fd, ReadData(fd)
  PROVE  Sound'
<1>1. conn[fd] # Nobody /\ conn[fd] \in Peer
  BY Numbers DEF ReadData, Sound, SlotsMatch, TypeOK
<1>2. stream[conn[fd]] \in Seq(Packet)
  BY <1>1 DEF Sound, TypeOK
<1>3. /\ stream' \in [Peer -> Seq(Packet)]
      /\ \A p \in Peer : p # conn[fd] => stream'[p] = stream[p]
  <2>1. <<>> \in Seq(Packet)
    OBVIOUS
  <2> QED
    BY <1>1, <2>1 DEF ReadData, Sound, TypeOK
<1>4. fresh' \in BOOLEAN /\ (Clients[fd].clientType = "leader" => fresh')
  BY DEF ReadData, NotesLeader
<1> QED
  BY <1>1, <1>2, <1>3, <1>4, SoundRead DEF ReadData

(* A connection that is not stale finds something to read. *)
LEMMA NothingIsStale ==
  ASSUME Sound, NEW fd \in Fd, ReadNothing(fd)
  PROVE  conn[fd] \in stale /\ conn[fd] # Nobody
BY Numbers DEF ReadNothing, Serve, Sound, EventsDue, SlotsMatch

LEMMA SoundReadNothing ==
  ASSUME Sound, NEW fd \in Fd, ReadNothing(fd)
  PROVE  Sound'
<1>1. conn[fd] \in stale /\ conn[fd] # Nobody
  BY NothingIsStale
<1>2. Clients[fd].bufferRead \in Seq(Packet)
  BY DEF Sound, TypeOK, RedisClient
<1>3. /\ stream' \in [Peer -> Seq(Packet)]
      /\ \A p \in Peer : p # conn[fd] => stream'[p] = stream[p]
  BY DEF ReadNothing, outside, Sound, TypeOK
<1>4. fresh' \in BOOLEAN
  BY DEF ReadNothing, Sound, TypeOK
<1> QED
  BY <1>1, <1>2, <1>3, <1>4, SoundRead DEF ReadNothing, outside

LEMMA SoundReadFails ==
  ASSUME Sound, NEW fd \in Fd, ReadFails(fd)
  PROVE  Sound'
<1>1. /\ batch' = batch \ {<<fd, "in">>} /\ run.at = "loop"
      /\ CloseClient(fd)
      /\ UNCHANGED <<sent, backlog, leaked, serverType, fresh, run, history, crashed>>
  BY DEF ReadFails, Serve, AtLoop
<1>2. SlotsMatch' /\ OneEach' /\ LeaderSlots' /\ EventsDue'
  BY <1>1, ClosingSound DEF history
<1>3. TypeOK'
  <2>1. Clients[fd].fdSock # -1 => Clients[fd].name \in Peer
    BY DEF Sound, SlotsMatch, TypeOK
  <2> QED
    BY <1>1, <2>1, TypeCloseClient DEF Sound, TypeOK, history
<1>4. RunAlive'
  BY <1>1 DEF Sound, RunAlive
<1> QED
  BY <1>2, <1>3, <1>4 DEF Sound

LEMMA SoundClientWrite ==
  ASSUME Sound, NEW fd \in Fd, ClientWrite(fd)
  PROVE  Sound'
<1>1. /\ batch' = batch \ {<<fd, "out">>} /\ run.at = "loop"
      /\ UNCHANGED <<outside, conn, leaked, slots, serverType, fresh, run, ran, stale, crashed>>
  BY DEF ClientWrite, Serve, AtLoop
<1>2. \/ UNCHANGED <<got, armed>>
      \/ /\ Clients[fd].fdSock = fd
         /\ got' = [got EXCEPT ![conn[fd]] = got[conn[fd]] \o Clients[fd].bufferWrite]
         /\ armed' = [armed EXCEPT ![fd] = "in"]
  BY DEF ClientWrite
<1>3. /\ got' \in [Peer -> Seq(Packet)] /\ armed' \in [Fd -> {"in", "out", "off"}]
      /\ \A g \in Fd : conn[g] = Nobody => armed'[g] = armed[g]
  <2>1. CASE UNCHANGED <<got, armed>>
    BY <2>1 DEF Sound, TypeOK
  <2>2. CASE /\ Clients[fd].fdSock = fd
             /\ got' = [got EXCEPT ![conn[fd]] = got[conn[fd]] \o Clients[fd].bufferWrite]
             /\ armed' = [armed EXCEPT ![fd] = "in"]
    <3>1. conn[fd] # Nobody /\ conn[fd] \in Peer
      BY <2>2, Numbers DEF Sound, SlotsMatch, TypeOK
    <3>2. got[conn[fd]] \in Seq(Packet) /\ Clients[fd].bufferWrite \in Seq(Packet)
      BY <3>1 DEF Sound, TypeOK, RedisClient
    <3>3. got[conn[fd]] \o Clients[fd].bufferWrite \in Seq(Packet)
      BY <3>2
    <3>4. got' \in [Peer -> Seq(Packet)]
      BY <2>2, <3>3 DEF Sound, TypeOK
    <3> QED
      BY <2>2, <3>1, <3>4 DEF Sound, TypeOK
  <2> QED
    BY <1>2, <2>1, <2>2
<1>4. TypeOK'
  BY <1>1, <1>3 DEF Sound, TypeOK, outside, slots
<1>5. SlotsMatch'
  BY <1>1, <1>3 DEF Sound, SlotsMatch, slots
<1>6. OneEach' /\ LeaderSlots' /\ EventsDue' /\ RunAlive'
  BY <1>1 DEF Sound, OneEach, LeaderSlots, EventsDue, AtEnd, RunAlive, Slot, outside, slots
<1> QED
  BY <1>4, <1>5, <1>6 DEF Sound


LEMMA SoundFindCommand ==
  ASSUME Sound, FindCommand
  PROVE  /\ Sound'
         /\ \A g \in Fd : /\ g # run.client => Clients'[g] = Clients[g]
                          /\ Clients'[g].fdSock = Clients[g].fdSock
                          /\ Clients'[g].name = Clients[g].name
                          /\ Clients'[g].clientType = Clients[g].clientType
                          /\ Clients'[g].bufferWrite = Clients[g].bufferWrite
         /\ Clients'[run.client].argv1 = Argv1(Head(run.todo))
<1> DEFINE fd == run.client
           m  == Head(run.todo)
<1>1. /\ run.at = "find" /\ ~crashed /\ run' = [run EXCEPT !.at = "call"]
      /\ Clients' = [Clients EXCEPT ![fd] = Decoded(Clients[fd], m)]
      /\ UNCHANGED <<outside, kernel, nums_Client, userClients, leaderClients,
                     serverType, fresh, batch, history, crashed>>
  BY DEF FindCommand, Running
<1>2. /\ fd \in Fd /\ Clients[fd] \in RedisClient
      /\ run.todo # <<>> /\ run.todo \in Seq(Packet)
  BY <1>1 DEF Sound, TypeOK, RunAlive
<1>3. m \in Packet
  BY <1>2, HeadTailProperties
<1>4. /\ Decoded(Clients[fd], m) \in RedisClient
      /\ Decoded(Clients[fd], m).fdSock = Clients[fd].fdSock
      /\ Decoded(Clients[fd], m).name = Clients[fd].name
      /\ Decoded(Clients[fd], m).clientType = Clients[fd].clientType
      /\ Decoded(Clients[fd], m).cmd = "command"
      /\ Decoded(Clients[fd], m).argv1 = Argv1(m)
      /\ Decoded(Clients[fd], m).bufferWrite = Clients[fd].bufferWrite
  BY <1>2, <1>3, SlotDecoded
<1>5. /\ Clients' \in [Fd -> RedisClient] /\ Clients'[fd] = Decoded(Clients[fd], m)
      /\ \A g \in Fd : g # fd => Clients'[g] = Clients[g]
  BY <1>1, <1>2, <1>4 DEF Sound, TypeOK
<1>6. /\ run' \in [client : Fd, todo : Seq(Packet), at : {"loop", "find", "call", "arm"}]
      /\ run'.client = fd /\ run'.todo = run.todo /\ run'.at = "call"
  BY <1>1 DEF Sound, TypeOK
<1>7. TypeOK'
  BY <1>1, <1>5, <1>6 DEF Sound, TypeOK, outside, kernel, history
<1>8. SlotsMatch'
  BY <1>1, <1>4, <1>5 DEF Sound, SlotsMatch, kernel
<1>9. OneEach' /\ EventsDue'
  BY <1>1 DEF Sound, OneEach, EventsDue, AtEnd, outside, kernel, history
<1>10. LeaderSlots'
  <2>1. \A e \in leaderClients : e[2] \in Fd
    BY DEF Sound, TypeOK
  <2> QED
    BY <1>1, <1>4, <1>5, <2>1 DEF Sound, LeaderSlots, kernel
<1>11. RunAlive'
  BY <1>1, <1>2, <1>4, <1>5, <1>6 DEF Sound, RunAlive, Slot, kernel, history
<1> QED
  BY <1>4, <1>5, <1>7, <1>8, <1>9, <1>10, <1>11 DEF Sound

(* What the call of a handler does to the run. *)
LEMMA CalledRun ==
  ASSUME Sound, Called
  PROVE  /\ run.at = "call" /\ ~crashed /\ run.todo # <<>> /\ run.todo \in Seq(Packet)
         /\ Head(run.todo) \in Packet /\ Tail(run.todo) \in Seq(Packet)
         /\ run' \in [client : Fd, todo : Seq(Packet), at : {"loop", "find", "call", "arm"}]
         /\ run'.client = run.client /\ run'.todo = Tail(run.todo)
         /\ run'.at \in {"find", "arm"}
         /\ run'.todo = <<>> <=> run'.at = "arm"
         /\ ran' \in [Peer -> Seq(Packet)]
         /\ ran' = [ran EXCEPT ![Slot.name] = Append(ran[Slot.name], Head(run.todo))]
<1>1. /\ run.at = "call" /\ ~crashed /\ run.todo # <<>> /\ run.todo \in Seq(Packet)
  BY DEF Called, Running, Sound, RunAlive, TypeOK
<1>2. /\ Head(run.todo) \in Packet /\ Tail(run.todo) \in Seq(Packet)
      /\ Len(Tail(run.todo)) = Len(run.todo) - 1 /\ Len(run.todo) \in Nat
  BY <1>1, HeadTailProperties
<1>3. Tail(run.todo) = <<>> <=> Len(run.todo) = 1
  <2>1. Tail(run.todo) # <<>> => Len(Tail(run.todo)) \in Nat \ {0}
    BY <1>2, EmptySeq
  <2>2. Tail(run.todo) = <<>> => Len(Tail(run.todo)) = 0
    BY EmptySeq
  <2> QED
    BY <1>2, <2>1, <2>2
<1>4. /\ run'.client = run.client /\ run'.todo = Tail(run.todo)
      /\ run'.at = IF Len(run.todo) = 1 THEN "arm" ELSE "find"
  BY DEF Called, Sound, TypeOK
<1>5. /\ run' \in [client : Fd, todo : Seq(Packet), at : {"loop", "find", "call", "arm"}]
      /\ ran' \in [Peer -> Seq(Packet)]
  BY <1>1, TypeCalled DEF Sound
<1> QED
  BY <1>1, <1>2, <1>3, <1>4, <1>5 DEF Called

(* A handler that leaves descriptors and the other slots alone. *)
LEMMA SoundHandler ==
  ASSUME Sound, Called, Clients' \in {Clients, FillBuffer(Head(run.todo))},
         leaked' \subseteq Fd, crashed' \in BOOLEAN,
         UNCHANGED <<outside, conn, armed, nums_Client, userClients, leaderClients,
                     serverType, fresh, batch, got, stale>>
  PROVE  Sound'
<1>1. /\ run.at = "call" /\ ~crashed /\ run.todo # <<>> /\ run.todo \in Seq(Packet)
      /\ Head(run.todo) \in Packet /\ Tail(run.todo) \in Seq(Packet)
      /\ run' \in [client : Fd, todo : Seq(Packet), at : {"loop", "find", "call", "arm"}]
      /\ run'.client = run.client /\ run'.todo = Tail(run.todo)
      /\ run'.at \in {"find", "arm"}
      /\ run'.todo = <<>> <=> run'.at = "arm"
      /\ ran' \in [Peer -> Seq(Packet)]
  BY CalledRun
<1>2. /\ Clients' \in [Fd -> RedisClient]
      /\ \A g \in Fd : /\ Clients'[g].fdSock = Clients[g].fdSock
                       /\ Clients'[g].name = Clients[g].name
                       /\ Clients'[g].clientType = Clients[g].clientType
  BY <1>1, TypeFillBuffer DEF Sound, TypeOK
<1>3. TypeOK'
  BY <1>1, <1>2 DEF Sound, TypeOK, outside
<1>4. SlotsMatch'
  BY <1>2 DEF Sound, SlotsMatch
<1>5. OneEach' /\ EventsDue'
  BY DEF Sound, OneEach, EventsDue, AtEnd, outside
<1>6. LeaderSlots'
  <2>1. \A e \in leaderClients : e[2] \in Fd
    BY DEF Sound, TypeOK
  <2> QED
    BY <1>2, <2>1 DEF Sound, LeaderSlots
<1>7. RunAlive'
  <2>1. run.client \in Fd
    BY DEF Sound, TypeOK
  <2> QED
    BY <1>1, <1>2, <2>1 DEF Sound, RunAlive, Slot
<1> QED
  BY <1>3, <1>4, <1>5, <1>6, <1>7 DEF Sound

LEMMA SoundCall ==
  ASSUME Sound, Call
  PROVE  Sound'
<1>1. Called /\ Clients' \in {Clients, FillBuffer(Head(run.todo))} /\ crashed' \in BOOLEAN
  BY DEF Call, Sound, TypeOK
<1>2. leaked' \subseteq Fd
  BY DEF Call, kernel, Sound, TypeOK
<1> QED
  BY <1>1, <1>2, SoundHandler DEF Call, kernel

LEMMA SoundConnectFails ==
  ASSUME Sound, ConnectFails
  PROVE  Sound'
<1>1. Called /\ Clients' \in {Clients, FillBuffer(Head(run.todo))} /\ crashed' \in BOOLEAN
  BY DEF ConnectFails, Sound, TypeOK
<1>2. leaked' \subseteq Fd
  BY DEF ConnectFails, Sound, TypeOK
<1> QED
  BY <1>1, <1>2, SoundHandler DEF ConnectFails

LEMMA SoundConnectServer ==
  ASSUME Sound, NEW p \in Link, ConnectServer(p)
  PROVE  Sound'
<1>1. /\ Called /\ end[p] \in {"new", "closed"} /\ end' = [end EXCEPT ![p] = "open"]
      /\ UNCHANGED <<stream, sent, backlog, fresh, batch, got>>
  BY DEF ConnectServer
<1>2. /\ run.at = "call" /\ ~crashed /\ run.todo # <<>> /\ run.todo \in Seq(Packet)
      /\ Head(run.todo) \in Packet /\ Tail(run.todo) \in Seq(Packet)
      /\ run' \in [client : Fd, todo : Seq(Packet), at : {"loop", "find", "call", "arm"}]
      /\ run'.client = run.client /\ run'.todo = Tail(run.todo)
      /\ run'.at \in {"find", "arm"}
      /\ run'.todo = <<>> <=> run'.at = "arm"
      /\ ran' \in [Peer -> Seq(Packet)]
  BY <1>1, CalledRun
<1>3. /\ end' \in [Peer -> {"new", "open", "fin", "reset", "closed"}]
      /\ end'[p] = "open" /\ \A q \in Peer : q # p => end'[q] = end[q]
  BY <1>1, Numbers DEF Sound, TypeOK
<1>4. /\ \A g \in Fd : conn[g] # p
      /\ \A i \in DOMAIN backlog : backlog[i] \in Peer /\ backlog[i] # p
      /\ \A g \in Fd : conn[g] # Nobody => conn[g] \in Peer
  <2>1. \A g \in Fd : conn[g] # p
    BY <1>1, Numbers DEF Sound, OneEach
  <2> QED
    BY <2>1, Numbers DEF Sound, TypeOK
<1>5. run.client \in Fd
  BY DEF Sound, TypeOK
<1>6. CASE Free = {}
  <2>1. crashed' = TRUE /\ UNCHANGED <<kernel, slots, serverType, stale>>
    BY <1>6 DEF ConnectServer
  <2>2. TypeOK'
    BY <1>1, <1>2, <1>3, <2>1 DEF Sound, TypeOK, kernel, slots
  <2>3. OneEach'
    BY <1>1, <1>3, <1>4, <2>1 DEF Sound, OneEach, kernel
  <2>4. EventsDue'
    BY <1>1, <1>3, <1>4, <2>1 DEF Sound, EventsDue, AtEnd, kernel
  <2>5. RunAlive'
    BY <1>1, <1>2, <2>1 DEF Sound, RunAlive, Slot, kernel, slots
  <2> QED
    BY <2>1, <2>2, <2>3, <2>4, <2>5 DEF Sound, SlotsMatch, LeaderSlots, kernel, slots
<1>7. CASE Free # {}
  <2> DEFINE clients == FillBuffer(Head(run.todo))
  <2>1. PICK fd \in Fd : /\ Lowest(fd) /\ InitClient(clients, fd, p, "leader")
                         /\ leaderClients' = Emplaced(leaderClients, p, fd)
    BY <1>7 DEF ConnectServer
  <2>2. serverType' = "follower" /\ UNCHANGED <<leaked, userClients, crashed>>
    BY <1>7 DEF ConnectServer
  <2>3. /\ clients \in [Fd -> RedisClient]
        /\ \A g \in Fd : /\ clients[g].fdSock = Clients[g].fdSock
                         /\ clients[g].name = Clients[g].name
                         /\ clients[g].clientType = Clients[g].clientType
                         /\ clients[g].cmd = Clients[g].cmd
    BY <1>2, TypeFillBuffer DEF Sound
  <2> HIDE DEF clients
  <2>4. /\ conn' \in [Fd -> Peer \cup {Nobody}]
        /\ armed' \in [Fd -> {"in", "out", "off"}]
        /\ Clients' \in [Fd -> RedisClient]
        /\ nums_Client' \in Int
        /\ stale' \subseteq Peer /\ stale \subseteq stale' /\ stale' \subseteq stale \cup {p}
        /\ conn[fd] = Nobody /\ conn'[fd] = p /\ armed'[fd] = "in"
        /\ Clients'[fd].name = p /\ Clients'[fd].clientType = "leader"
        /\ \A g \in Fd : g # fd => /\ conn'[g] = conn[g] /\ armed'[g] = armed[g]
                                   /\ Clients'[g] = clients[g]
        /\ \A w \in {"in", "out"} : <<fd, w>> \in batch => p \in stale'
        /\ fd = run.client => p \in stale'
        /\ SlotsMatch'
    <3>1. InitClient(clients, fd, p, "leader") /\ Lowest(fd) /\ p \in Peer
      BY <2>1, Numbers
    <3>2. run.at # "loop" /\ \A g \in Fd : conn[g] # p
      BY <1>2, <1>4
    <3> QED
      BY <2>3, <3>1, <3>2, Opening
  <2>5. TypeOK'
    <3>1. leaderClients' \subseteq Link \X Fd
      <4>1. leaderClients \subseteq Link \X Fd
        BY DEF Sound, TypeOK
      <4> QED
        BY <2>1, <4>1 DEF Emplaced
    <3>2. /\ stream' \in [Peer -> Seq(Packet)] /\ sent' \in [Peer -> Seq(Packet)]
          /\ got' \in [Peer -> Seq(Packet)] /\ backlog' \in Seq(User)
          /\ fresh' \in BOOLEAN /\ crashed' \in BOOLEAN /\ leaked' \subseteq Fd
          /\ batch' \subseteq ({fd_server} \cup Fd) \X {"in", "out"}
          /\ userClients' \subseteq User \X Fd
          /\ serverType' \in {"leader", "follower", "candidate"}
      BY <1>1, <2>2 DEF Sound, TypeOK
    <3> QED
      BY <1>2, <1>3, <2>4, <3>1, <3>2 DEF TypeOK
  <2>6. OneEach'
    <3>1. /\ \A f, g \in Fd : conn'[f] # Nobody /\ conn'[f] = conn'[g] => f = g
          /\ \A g \in Fd : conn'[g] # Nobody => end'[conn'[g]] \notin {"new", "closed"}
      BY <1>3, <1>4, <2>4 DEF Sound, OneEach
    <3>2. \A i \in DOMAIN backlog :
           /\ end'[backlog[i]] \notin {"new", "closed"}
           /\ \A g \in Fd : conn'[g] # backlog[i]
      BY <1>3, <1>4, <2>4 DEF Sound, OneEach
    <3> QED
      BY <1>1, <3>1, <3>2 DEF Sound, OneEach
  <2>7. LeaderSlots'
    <3>1. \A e \in leaderClients : e[2] \in Fd /\ e[1] # Nobody
      BY Numbers DEF Sound, TypeOK
    <3>2. \A e \in leaderClients : e[2] # fd
      BY <2>4, <3>1 DEF Sound, LeaderSlots
    <3>3. \A e \in leaderClients : conn'[e[2]] = e[1] /\ Clients'[e[2]].clientType = "leader"
      BY <2>3, <2>4, <3>1, <3>2 DEF Sound, LeaderSlots
    <3> QED
      BY <2>1, <2>4, <3>3 DEF LeaderSlots, Emplaced
  <2>8. EventsDue'
    BY <1>1, <1>3, <1>4, <2>4 DEF Sound, EventsDue, AtEnd
  <2>9. RunAlive'
    <3>1. CASE fd = run.client
      BY <1>2, <2>4, <3>1, Numbers DEF RunAlive, Slot
    <3>2. CASE fd # run.client
      <4>1. /\ Clients'[run.client].name = Slot.name
            /\ Clients'[run.client].clientType = Slot.clientType
            /\ conn'[run.client] = conn[run.client]
        BY <1>5, <2>3, <2>4, <3>2 DEF Slot
      <4> QED
        BY <1>1, <1>2, <2>4, <4>1 DEF Sound, RunAlive, Slot
    <3> QED
      BY <3>1, <3>2
  <2> QED
    BY <2>4, <2>5, <2>6, <2>7, <2>8, <2>9 DEF Sound
<1> QED
  BY <1>6, <1>7

LEMMA SoundArmAgain ==
  ASSUME Sound, ArmAgain
  PROVE  Sound'
<1>1. /\ run.at = "arm" /\ run' = Idle
      /\ armed' = IF Slot.fdSock = -1 THEN armed
                  ELSE [armed EXCEPT ![run.client] = Awaits(run.client)]
      /\ UNCHANGED <<outside, conn, leaked, slots, serverType, fresh, batch, history, crashed>>
  BY DEF ArmAgain, Running
<1>2. /\ run.client \in Fd
      /\ Slot.fdSock # -1 => conn[run.client] # Nobody
  BY DEF Sound, TypeOK, SlotsMatch, Slot
<1>3. /\ armed' \in [Fd -> {"in", "out", "off"}]
      /\ \A g \in Fd : conn[g] = Nobody => armed'[g] = armed[g]
  BY <1>1, <1>2 DEF Awaits, Sound, TypeOK
<1>4. TypeOK'
  <2>1. Idle \in [client : Fd, todo : Seq(Packet), at : {"loop", "find", "call", "arm"}]
    BY Numbers DEF Idle
  <2> QED
    BY <1>1, <1>3, <2>1 DEF Sound, TypeOK, outside, slots, history
<1>5. SlotsMatch'
  BY <1>1, <1>3 DEF Sound, SlotsMatch, slots
<1>6. OneEach' /\ LeaderSlots' /\ EventsDue'
  BY <1>1 DEF Sound, OneEach, LeaderSlots, EventsDue, AtEnd, outside, slots, history
<1>7. RunAlive'
  BY <1>1 DEF RunAlive, Idle
<1> QED
  BY <1>4, <1>5, <1>6, <1>7 DEF Sound

(* The timer closes a leader's connection only when it has said nothing. *)
LEMMA SoundCronFollower ==
  ASSUME Sound, CronFollower
  PROVE  Sound'
<1>1. /\ ~fresh /\ serverType' = "candidate"
      /\ UNCHANGED <<sent, backlog, leaked, fresh, batch, run, history, crashed>>
  BY DEF CronFollower
<1>2. CASE leaderClients = {}
  <2>1. UNCHANGED <<conn, armed, end, stream, slots>>
    BY <1>2 DEF CronFollower
  <2>2. TypeOK'
    BY <1>1, <2>1 DEF Sound, TypeOK, slots, history
  <2> QED
    BY <1>1, <2>1, <2>2
    DEF Sound, SlotsMatch, OneEach, LeaderSlots, EventsDue, AtEnd, RunAlive, Slot, slots, history
<1>3. CASE leaderClients # {}
  <2>1. PICK e \in leaderClients : CloseClient(e[2])
    BY <1>3 DEF CronFollower
  <2> DEFINE fd == e[2]
  <2>2. /\ fd \in Fd /\ conn[fd] \in Link /\ Clients[fd].clientType = "leader"
        /\ conn[fd] # Nobody /\ Clients[fd].name = conn[fd]
    BY Numbers DEF Sound, TypeOK, LeaderSlots, SlotsMatch
  <2>3. SlotsMatch' /\ OneEach' /\ LeaderSlots' /\ EventsDue'
    BY <1>1, <2>1, <2>2, ClosingSound DEF history
  <2>4. TypeOK'
    <3>1. /\ conn' \in [Fd -> Peer \cup {Nobody}]
          /\ armed' \in [Fd -> {"in", "out", "off"}]
          /\ end' \in [Peer -> {"new", "open", "fin", "reset", "closed"}]
          /\ stream' \in [Peer -> Seq(Packet)]
          /\ Clients' \in [Fd -> RedisClient]
          /\ nums_Client' \in Int
          /\ userClients' \subseteq User \X Fd /\ leaderClients' \subseteq Link \X Fd
      BY <2>1, <2>2, TypeCloseClient, Numbers DEF Sound
    <3> QED
      BY <1>1, <3>1 DEF Sound, TypeOK, history
  <2>5. /\ Clients'[fd].name = conn[fd] /\ conn'[fd] = Nobody
        /\ \A g \in Fd : g # fd => conn'[g] = conn[g] /\ Clients'[g] = Clients[g]
    <3>1. Clients[fd] \in RedisClient
      BY <2>2 DEF Sound, TypeOK
    <3> QED
      BY <2>1, <2>2, <3>1, Closing, SlotClosed
  <2>6. RunAlive'
    <3>1. CASE run.client = fd
      BY <1>1, <2>2, <2>5, <3>1 DEF Sound, RunAlive, Slot, history
    <3>2. CASE run.client # fd
      <4>1. run.client \in Fd
        BY DEF Sound, TypeOK
      <4> QED
        BY <1>1, <2>5, <3>2, <4>1 DEF Sound, RunAlive, Slot, history
    <3> QED
      BY <3>1, <3>2
  <2> QED
    BY <2>3, <2>4, <2>6 DEF Sound
<1> QED
  BY <1>2, <1>3

LEMMA SoundNext ==
  ASSUME Sound, [Next]_vars
  PROVE  Sound'
<1>1. CASE \/ \E u \in User : Dial(u)
           \/ \E p \in Peer : Leave(p) \/ \E kind \in Kind : Send(p, kind)
  BY <1>1, SoundOutside
<1>2. CASE Loop
  BY <1>2, SoundEpollWait, SoundAccept, SoundReadData, SoundReadNothing, SoundReadFails,
     SoundClientWrite, SoundFindCommand, SoundCall, SoundConnectServer, SoundConnectFails,
     SoundArmAgain DEF Loop
<1>3. CASE CronFollower
  BY <1>3, SoundCronFollower
<1>4. CASE UNCHANGED vars
  BY <1>4
  DEF vars, outside, kernel, slots, loop, history, Sound, TypeOK, SlotsMatch, OneEach,
      LeaderSlots, EventsDue, AtEnd, RunAlive, Slot
<1> QED
  BY <1>1, <1>2, <1>3, <1>4 DEF Next


LEMMA SoundAlways == Spec => []Sound
<1>1. Init => Sound
  BY SoundInit
<1>2. Sound /\ [Next]_vars => Sound'
  BY SoundNext
<1> QED
  BY <1>1, <1>2, PTL DEF Spec

(* Every variable keeps its type. *)
THEOREM TypesKept == Spec => []TypeOK
BY SoundAlways, PTL DEF Sound

(* cmd is set when runCommand calls through it, although the timer closes      *)
(* connections under it: the packet being run has renewed lastChatWithLeader.  *)
(* Only a connection that was given a descriptor with an old event pending may *)
(* be closed while its packet runs.                                            *)
THEOREM CommandsAlive == Spec => []CmdAlive
<1>1. Sound => CmdAlive
  BY DEF Sound, RunAlive, CmdAlive
<1> QED
  BY <1>1, SoundAlways, PTL

-----------------------------------------------------------------------------
(* Order: who waits for what, which packets are run, whose answers are sent. *)

(* A connection is watched, or has an event pending, or is worked for. *)
OneWait ==
  \A fd \in Fd : conn[fd] \notin stale \cup {Nobody} =>
    /\ \A w \in {"in", "out"} : <<fd, w>> \in batch =>
         /\ armed[fd] = "off"
         /\ \A v \in {"in", "out"} : <<fd, v>> \in batch => v = w
         /\ run.at # "loop" => run.client # fd
    /\ run.at # "loop" /\ run.client = fd => armed[fd] = "off"
    /\ \/ armed[fd] # "off"
       \/ \E w \in {"in", "out"} : <<fd, w>> \in batch
       \/ run.at # "loop" /\ run.client = fd
       \/ end[conn[fd]] = "reset" \/ Clients[fd].bufferWrite = <<>>

(* The packets of p that are still to be run. *)
Todo(p) == IF Slot.name = p THEN run.todo ELSE <<>>

Due(p) == ran[p] \o (Todo(p) \o stream[p])

(* d has packets of s in the order of s. *)
Ordered(d, s) ==
  /\ \A i \in DOMAIN d : d[i].no \in DOMAIN s /\ s[d[i].no] = d[i]
  /\ \A i, j \in DOMAIN d : i < j => d[i].no < d[j].no

(* d leaves out none of the first packets. *)
Gapless(d) == \A i \in DOMAIN d : d[i].no = i

(* What ran, is being run and is still to be read is what was sent. *)
Flow ==
  /\ \A p \in Peer : \A i \in DOMAIN sent[p] : sent[p][i].from = p /\ sent[p][i].no = i
  /\ \A p \in Peer \ stale : Ordered(Due(p), sent[p])
  /\ \A u \in User \ stale :
       /\ Gapless(Due(u))
       /\ end[u] # "closed" => Len(Due(u)) = Len(sent[u])

LastRun(p) == ran[p][Len(ran[p])]

(* The slot holds the answer to the last packet of p, which is not sent yet. *)
Answer(fd, p) ==
  /\ ran[p] # <<>> /\ Clients[fd].bufferWrite = <<LastRun(p)>>
  /\ \A i \in DOMAIN got[p] : got[p][i].no < LastRun(p).no

(* What p got are answers to what it has run. *)
Replies(p) ==
  /\ GetsOwn(p)
  /\ \A i \in DOMAIN got[p] : ran[p] # <<>> /\ got[p][i].no <= LastRun(p).no

(* A connection is watched for writing only when it has an answer to send. *)
Holds(fd, p) ==
  /\ armed[fd] = "out" \/ <<fd, "out">> \in batch =>
       Answer(fd, p) /\ LastRun(p).kind # "once"
  /\ run.client = fd /\ run.at = "arm" /\ ~crashed =>
       Answer(fd, p) /\ Clients[fd].argv1 = Argv1(LastRun(p))
  /\ run.client = fd /\ run.at = "call" => Clients[fd].argv1 = Argv1(Head(run.todo))

Answers ==
  \A p \in Peer \ stale : ~SaysShow(p) =>
    Replies(p) /\ \A fd \in Fd : conn[fd] = p => Holds(fd, p)

IInv == Sound /\ OneWait /\ Flow /\ Answers

-----------------------------------------------------------------------------
(* What the steps of the loop do to connections. *)

LEMMA ReadEffect ==
  ASSUME Sound, NEW fd \in Fd, ReadData(fd) \/ ReadNothing(fd)
  PROVE  /\ conn[fd] \in Peer /\ Clients[fd].name = conn[fd]
         /\ run.at = "loop" /\ run.todo = <<>> /\ ~crashed
         /\ batch' = batch \ {<<fd, "in">>} /\ <<fd, "in">> \in batch
         /\ run'.client = fd /\ run'.at \in {"find", "arm"}
         /\ UNCHANGED <<conn, armed, end, sent, got, ran, stale, crashed>>
         /\ \A g \in Fd : /\ Clients'[g].name = Clients[g].name
                          /\ Clients'[g].bufferWrite = Clients[g].bufferWrite
         /\ \A p \in Peer : p # conn[fd] => stream'[p] = stream[p]
         /\ \/ conn[fd] \in stale
            \/ /\ run'.at = "find" /\ run'.todo = stream[conn[fd]]
               /\ stream'[conn[fd]] = <<>>
<1>1. conn[fd] # Nobody /\ conn[fd] \in Peer /\ Clients[fd].name = conn[fd]
  BY Numbers DEF ReadData, ReadNothing, Sound, SlotsMatch, TypeOK
<1>2. /\ run.at = "loop" /\ run.todo = <<>> /\ ~crashed
      /\ batch' = batch \ {<<fd, "in">>} /\ <<fd, "in">> \in batch
      /\ UNCHANGED <<conn, armed, end, sent, got, ran, stale, crashed>>
  BY DEF ReadData, ReadNothing, Serve, AtLoop, Sound, RunAlive, outside, kernel, history
<1>3. PICK tokens \in Seq(Packet) :
        /\ RunCommand(fd, tokens)
        /\ \/ ReadNothing(fd)
           \/ tokens = stream[conn[fd]] /\ tokens # <<>> /\ ReadData(fd)
  <2>1. CASE ReadData(fd)
    <3>1. stream[conn[fd]] \in Seq(Packet)
      BY <1>1 DEF Sound, TypeOK
    <3> QED
      BY <2>1, <3>1 DEF ReadData
  <2>2. CASE ReadNothing(fd)
    <3>1. Clients[fd].bufferRead \in Seq(Packet)
      BY DEF Sound, TypeOK, RedisClient
    <3> QED
      BY <2>2, <3>1 DEF ReadNothing
  <2> QED
    BY <2>1, <2>2
<1>4. /\ run'.client = fd /\ run'.at \in {"find", "arm"} /\ run'.todo = tokens
      /\ tokens # <<>> => run'.at = "find"
  BY <1>3 DEF RunCommand
<1>5. \A g \in Fd : /\ Clients'[g].name = Clients[g].name
                    /\ Clients'[g].bufferWrite = Clients[g].bufferWrite
  BY <1>3, TypeRunCommand DEF Sound
<1>6. CASE ReadNothing(fd)
  <2>1. stream' = stream /\ conn[fd] \in stale
    BY <1>6, NothingIsStale DEF ReadNothing, outside
  <2> QED
    BY <1>1, <1>2, <1>4, <1>5, <2>1
<1>7. CASE ReadData(fd) /\ tokens = stream[conn[fd]] /\ tokens # <<>>
  <2>1. stream' = [stream EXCEPT ![conn[fd]] = <<>>]
    BY <1>7 DEF ReadData
  <2>2. /\ stream'[conn[fd]] = <<>>
        /\ \A p \in Peer : p # conn[fd] => stream'[p] = stream[p]
    BY <1>1, <2>1 DEF Sound, TypeOK
  <2> QED
    BY <1>1, <1>2, <1>4, <1>5, <1>7, <2>2
<1> QED
  BY <1>3, <1>6, <1>7

LEMMA CloseEffect ==
  ASSUME Sound, CronFollower \/ \E fd \in Fd : ReadFails(fd)
  PROVE  /\ UNCHANGED <<sent, run, got, ran, stale, crashed>>
         /\ \A g \in Fd : Clients'[g].name = Clients[g].name
         /\ \A g \in Fd : conn'[g] # Nobody =>
              /\ conn'[g] = conn[g] /\ armed'[g] = armed[g] /\ Clients'[g] = Clients[g]
              /\ end'[conn[g]] = end[conn[g]]
              /\ \A w \in {"in", "out"} : <<g, w>> \in batch' <=> <<g, w>> \in batch
         /\ \A p \in Peer : \/ stream'[p] = stream[p] /\ end'[p] = end[p]
                            \/ stream'[p] = <<>> /\ end'[p] = "closed"
<1>1. ASSUME NEW fd \in Fd, CloseClient(fd)
      PROVE  /\ \A g \in Fd : Clients'[g].name = Clients[g].name
             /\ \A g \in Fd : conn'[g] # Nobody =>
                  /\ conn'[g] = conn[g] /\ armed'[g] = armed[g] /\ Clients'[g] = Clients[g]
                  /\ end'[conn[g]] = end[conn[g]]
             /\ \A p \in Peer : \/ stream'[p] = stream[p] /\ end'[p] = end[p]
                                \/ stream'[p] = <<>> /\ end'[p] = "closed"
             /\ conn'[fd] = Nobody
  <2>1. CASE conn[fd] = Nobody
    BY <1>1, <2>1, ClosedAlready
  <2>2. CASE conn[fd] # Nobody
    <3>1. /\ conn[fd] \in Peer
          /\ conn'[fd] = Nobody
          /\ Clients'[fd] = Closed(Clients[fd])
          /\ \A g \in Fd : g # fd => /\ conn'[g] = conn[g] /\ armed'[g] = armed[g]
                                     /\ Clients'[g] = Clients[g]
          /\ end'[conn[fd]] = "closed" /\ stream'[conn[fd]] = <<>>
          /\ \A p \in Peer : p # conn[fd] => end'[p] = end[p] /\ stream'[p] = stream[p]
      BY <1>1, <2>2, Closing
    <3>2. Closed(Clients[fd]).name = Clients[fd].name
      BY SlotClosed DEF Sound, TypeOK
    <3>3. \A g \in Fd : g # fd /\ conn[g] # Nobody => conn[g] \in Peer /\ conn[g] # conn[fd]
      BY <2>2 DEF Sound, OneEach, TypeOK
    <3> QED
      BY <3>1, <3>2, <3>3
  <2> QED
    BY <2>1, <2>2
<1>2. ASSUME NEW fd \in Fd, ReadFails(fd)
      PROVE  /\ UNCHANGED <<sent, run, got, ran, stale, crashed>>
             /\ CloseClient(fd) /\ batch' = batch \ {<<fd, "in">>}
  BY <1>2 DEF ReadFails, Serve, history
<1>3. CASE \E fd \in Fd : ReadFails(fd)
  <2>1. PICK fd \in Fd : ReadFails(fd)
    BY <1>3
  <2>2. /\ UNCHANGED <<sent, run, got, ran, stale, crashed>>
        /\ CloseClient(fd) /\ batch' = batch \ {<<fd, "in">>}
    BY <1>2, <2>1
  <2> QED
    BY <1>1, <2>2
<1>4. CASE CronFollower
  <2>1. UNCHANGED <<sent, run, got, ran, stale, crashed, batch>>
    BY <1>4 DEF CronFollower, history
  <2>2. CASE leaderClients = {}
    BY <1>4, <2>1, <2>2 DEF CronFollower, slots
  <2>3. CASE leaderClients # {}
    <3>1. PICK e \in leaderClients : CloseClient(e[2])
      BY <1>4, <2>3 DEF CronFollower
    <3>2. e[2] \in Fd
      BY DEF Sound, TypeOK
    <3> QED
      BY <1>1, <2>1, <3>1, <3>2
  <2> QED
    BY <2>2, <2>3
<1> QED
  BY <1>3, <1>4

LEMMA HandlerEffect ==
  ASSUME Sound, Call \/ ConnectFails \/ \E b \in Link : ConnectServer(b)
  PROVE  /\ Called
         /\ UNCHANGED <<stream, sent, batch, got>> /\ stale \subseteq stale'
         /\ \A u \in User : end'[u] = end[u]
         /\ \/ Clients'[run.client].name = Slot.name
            \/ Slot.name \in stale /\ Clients'[run.client].name \in stale'
         /\ \A g \in Fd : conn[g] # Nobody =>
              /\ conn'[g] = conn[g] /\ armed'[g] = armed[g] /\ end'[conn[g]] = end[conn[g]]
              /\ Clients'[g].argv1 = Clients[g].argv1
              /\ g # run.client => Clients'[g].bufferWrite = Clients[g].bufferWrite
         /\ \A g \in Fd : conn[g] = Nobody /\ conn'[g] # Nobody =>
              /\ armed'[g] = "in"
              /\ \A w \in {"in", "out"} : <<g, w>> \in batch => conn'[g] \in stale'
              /\ g = run.client => conn'[g] \in stale'
         /\ conn[run.client] # Nobody /\ Slot.name \notin stale /\ ~crashed'
              /\ Head(run.todo).kind # "show" =>
              Clients'[run.client].bufferWrite = <<Head(run.todo)>>
<1>1. /\ run.at = "call" /\ ~crashed /\ run.client \in Fd /\ Head(run.todo) \in Packet /\ Called
  <2>1. Called
    BY DEF Call, ConnectFails, ConnectServer
  <2> QED
    BY <2>1, CalledRun DEF Sound, TypeOK
<1> DEFINE filled == FillBuffer(Head(run.todo))
<1>2. /\ filled \in [Fd -> RedisClient]
      /\ \A g \in Fd : /\ g # run.client => filled[g] = Clients[g]
                       /\ filled[g].fdSock = Clients[g].fdSock
                       /\ filled[g].name = Clients[g].name
                       /\ filled[g].clientType = Clients[g].clientType
                       /\ filled[g].argv1 = Clients[g].argv1
      /\ filled[run.client].bufferWrite = <<Head(run.todo)>>
  BY <1>1, TypeFillBuffer DEF Sound
<1> HIDE DEF filled
<1>3. CASE Call
  <2>1. /\ UNCHANGED <<stream, sent, batch, got, conn, armed, end, stale>>
        /\ \/ Clients' = filled
           \/ Clients' = Clients /\ (Head(run.todo).kind = "show" \/ crashed')
    BY <1>3 DEF Call, outside, kernel, filled
  <2> QED
    BY <1>1, <1>2, <2>1 DEF Slot
<1>4. CASE ConnectFails
  <2>1. /\ UNCHANGED <<stream, sent, batch, got, conn, armed, end, stale>>
        /\ Clients' = filled
    BY <1>4 DEF ConnectFails, outside, filled
  <2> QED
    BY <1>1, <1>2, <2>1 DEF Slot
<1>5. CASE \E b \in Link : ConnectServer(b)
  <2>0. PICK b \in Link : ConnectServer(b)
    BY <1>5
  <2>1. /\ end[b] \in {"new", "closed"} /\ end' = [end EXCEPT ![b] = "open"]
        /\ UNCHANGED <<stream, sent, batch, got>>
    BY <2>0 DEF ConnectServer
  <2>2. /\ \A g \in Fd : conn[g] # b
        /\ \A p \in Peer : p # b => end'[p] = end[p]
        /\ \A u \in User : end'[u] = end[u]
        /\ \A g \in Fd : conn[g] # Nobody => end'[conn[g]] = end[conn[g]]
    <3>1. \A g \in Fd : conn[g] # b
      BY <2>1, Numbers DEF Sound, OneEach
    <3>2. \A p \in Peer : p # b => end'[p] = end[p]
      BY <2>1 DEF Sound, TypeOK
    <3>3. \A g \in Fd : conn[g] # Nobody => conn[g] \in Peer
      BY DEF Sound, TypeOK
    <3> QED
      BY <3>1, <3>2, <3>3, Numbers
  <2>3. CASE Free = {}
    <3>1. crashed' = TRUE /\ UNCHANGED <<kernel, slots, stale>>
      BY <2>0, <2>3 DEF ConnectServer
    <3> QED
      BY <1>1, <2>1, <2>2, <3>1 DEF Slot, kernel, slots
  <2>4. CASE Free # {}
    <3>1. PICK fd \in Fd : Lowest(fd) /\ InitClient(filled, fd, b, "leader")
      BY <2>0, <2>4 DEF ConnectServer, filled
    <3>2. /\ stale \subseteq stale'
          /\ conn[fd] = Nobody /\ conn'[fd] = b /\ armed'[fd] = "in"
          /\ Clients'[fd].name = b
          /\ \A g \in Fd : g # fd => /\ conn'[g] = conn[g] /\ armed'[g] = armed[g]
                                     /\ Clients'[g] = filled[g]
          /\ \A w \in {"in", "out"} : <<fd, w>> \in batch => b \in stale'
          /\ fd = run.client => b \in stale'
      BY <1>1, <1>2, <2>2, <3>1, Numbers, Opening
    <3>3. fd = run.client => Slot.name \in stale
      BY <1>1, <3>2 DEF Sound, RunAlive, Slot
    <3>4. \A g \in Fd : conn[g] # Nobody => g # fd
      BY <3>2
    <3>5. \/ Clients'[run.client].name = Slot.name
          \/ Slot.name \in stale /\ Clients'[run.client].name \in stale'
      BY <1>1, <1>2, <3>2, <3>3 DEF Slot
    <3> QED
      BY <1>1, <1>2, <2>1, <2>2, <3>2, <3>3, <3>4, <3>5
  <2> QED
    BY <2>3, <2>4
<1> QED
  BY <1>3, <1>4, <1>5

-----------------------------------------------------------------------------
(* Every connection waits for one thing. *)

LEMMA WaitInit ==
  ASSUME Init
  PROVE  OneWait
BY DEF Init, OneWait

LEMMA WaitOutside ==
  ASSUME Sound, OneWait,
         \/ \E u \in User : Dial(u)
         \/ \E p \in Peer : Leave(p) \/ \E kind \in Kind : Send(p, kind)
  PROVE  OneWait'
<1>1. UNCHANGED <<conn, armed, Clients, batch, run, stale>>
  BY DEF Dial, Leave, Send, kernel, slots, loop, history
<1>2. \A fd \in Fd : conn[fd] # Nobody /\ end[conn[fd]] = "reset" => end'[conn[fd]] = "reset"
  <2>1. \A p \in Peer : end[p] = "reset" => end'[p] = "reset"
    BY Numbers DEF Dial, Leave, Send, Sound, TypeOK
  <2> QED
    BY <2>1 DEF Sound, TypeOK
<1> QED
  BY <1>1, <1>2 DEF OneWait

LEMMA WaitEpoll ==
  ASSUME Sound, OneWait, EpollWait
  PROVE  OneWait'
<1>1. /\ batch = {} /\ run.at = "loop" /\ batch' = Ready
      /\ UNCHANGED <<end, conn, Clients, run, stale>>
  BY DEF EpollWait, AtLoop, outside, slots, history
<1>2. \A fd \in Fd, w \in {"in", "out"} : <<fd, w>> \in Ready => armed[fd] = w
  BY Numbers DEF Ready
<1>3. \A fd \in Fd :
        /\ armed'[fd] \in {armed[fd], "off"}
        /\ (\E w \in {"in", "out"} : <<fd, w>> \in Ready) => armed'[fd] = "off"
        /\ armed'[fd] # armed[fd] => \E w \in {"in", "out"} : <<fd, w>> \in Ready
  <2>1. armed' = [fd \in Fd |-> IF \E e \in Ready : e[1] = fd THEN "off" ELSE armed[fd]]
    BY DEF EpollWait, Disarmed
  <2>2. \A e \in Ready : e = <<e[1], e[2]>> /\ e[2] \in {"in", "out"}
    BY DEF Ready
  <2> QED
    BY <2>1, <2>2
<1> QED
  BY <1>1, <1>2, <1>3 DEF OneWait

LEMMA WaitAccept ==
  ASSUME Sound, OneWait, Accept
  PROVE  OneWait'
<1>1. /\ run.at = "loop" /\ UNCHANGED run
      /\ \A fd \in Fd, w \in {"in", "out"} : <<fd, w>> \in batch' <=> <<fd, w>> \in batch
  BY Numbers DEF Accept, Serve, AtLoop
<1>2. /\ Head(backlog) \in Peer
      /\ \A g \in Fd : conn[g] # Head(backlog)
  <2>1. backlog # <<>> /\ backlog \in Seq(User)
    BY DEF Accept, Serve, Sound, TypeOK, OneEach
  <2>2. 1 \in DOMAIN backlog /\ Head(backlog) = backlog[1] /\ Head(backlog) \in User
    BY <2>1
  <2> QED
    BY <2>2, Numbers DEF Sound, OneEach
<1>3. CASE Free = {}
  <2>1. /\ end' = [end EXCEPT ![Head(backlog)] = "closed"]
        /\ UNCHANGED <<conn, armed, Clients, stale>>
    BY <1>3 DEF Accept, kernel, slots
  <2>2. \A fd \in Fd : conn[fd] # Nobody => end'[conn[fd]] = end[conn[fd]]
    BY <1>2, <2>1 DEF Sound, TypeOK
  <2> QED
    BY <1>1, <2>1, <2>2 DEF OneWait
<1>4. CASE Free # {}
  <2>1. PICK fd \in Fd : Lowest(fd) /\ InitClient(Clients, fd, Head(backlog), "user")
    BY <1>4 DEF Accept
  <2>2. UNCHANGED end
    BY <1>4 DEF Accept
  <2>3. Clients \in [Fd -> RedisClient]
    BY DEF Sound, TypeOK
  <2>4. /\ stale \subseteq stale'
        /\ conn[fd] = Nobody /\ conn'[fd] = Head(backlog) /\ armed'[fd] = "in"
        /\ \A g \in Fd : g # fd => /\ conn'[g] = conn[g] /\ armed'[g] = armed[g]
                                   /\ Clients'[g] = Clients[g]
        /\ \A w \in {"in", "out"} : <<fd, w>> \in batch => Head(backlog) \in stale'
    BY <1>2, <2>1, <2>3, Opening
  <2> QED
    BY <1>1, <2>2, <2>4 DEF OneWait
<1> QED
  BY <1>3, <1>4

LEMMA WaitRead ==
  ASSUME Sound, OneWait, NEW fd \in Fd, ReadData(fd) \/ ReadNothing(fd)
  PROVE  OneWait'
<1>1. /\ run.at = "loop"
      /\ run'.client = fd /\ run'.at \in {"find", "arm"}
      /\ UNCHANGED <<conn, armed, end, stale>>
      /\ \A g \in Fd : Clients'[g].bufferWrite = Clients[g].bufferWrite
  BY ReadEffect
<1>2. /\ <<fd, "in">> \in batch
      /\ \A g \in Fd, w \in {"in", "out"} :
           <<g, w>> \in batch' <=> <<g, w>> \in batch /\ ~(g = fd /\ w = "in")
  BY ReadEffect
<1> QED
  BY <1>1, <1>2 DEF OneWait

LEMMA WaitClose ==
  ASSUME Sound, OneWait, CronFollower \/ \E fd \in Fd : ReadFails(fd)
  PROVE  OneWait'
BY CloseEffect DEF OneWait

LEMMA WaitWrite ==
  ASSUME Sound, OneWait, NEW fd \in Fd, ClientWrite(fd)
  PROVE  OneWait'
<1>1. /\ batch' = batch \ {<<fd, "out">>} /\ <<fd, "out">> \in batch
      /\ run.at = "loop"
      /\ UNCHANGED <<end, conn, Clients, run, stale>>
  BY DEF ClientWrite, Serve, AtLoop, outside, slots
<1>2. \/ /\ UNCHANGED armed
         /\ \/ Clients[fd].fdSock # fd \/ Clients[fd].bufferWrite = <<>> \/ end[conn[fd]] = "reset"
      \/ armed' = [armed EXCEPT ![fd] = "in"]
  BY DEF ClientWrite
<1>3. conn[fd] # Nobody => Clients[fd].fdSock = fd
  BY DEF Sound, SlotsMatch
<1>4. \A g \in Fd : g # fd => armed'[g] = armed[g]
  BY <1>2 DEF Sound, TypeOK
<1>5. armed'[fd] \in {armed[fd], "in"}
  BY <1>2 DEF Sound, TypeOK
<1>6. conn[fd] # Nobody =>
        armed'[fd] = "in" \/ end[conn[fd]] = "reset" \/ Clients[fd].bufferWrite = <<>>
  BY <1>2, <1>3 DEF Sound, TypeOK
<1>7. \A g \in Fd, w \in {"in", "out"} :
        <<g, w>> \in batch' <=> <<g, w>> \in batch /\ ~(g = fd /\ w = "out")
  BY <1>1
<1> QED
  BY <1>1, <1>4, <1>5, <1>6, <1>7 DEF OneWait

LEMMA WaitFind ==
  ASSUME Sound, OneWait, FindCommand
  PROVE  OneWait'
<1>1. /\ run.at = "find" /\ run'.at = "call" /\ run'.client = run.client
      /\ UNCHANGED <<end, conn, armed, batch, stale>>
  BY DEF FindCommand, Running, outside, kernel, history, Sound, TypeOK
<1>2. \A g \in Fd : Clients'[g].bufferWrite = Clients[g].bufferWrite
  BY SoundFindCommand
<1> QED
  BY <1>1, <1>2 DEF OneWait

LEMMA WaitHandler ==
  ASSUME Sound, OneWait, Call \/ ConnectFails \/ \E b \in Link : ConnectServer(b)
  PROVE  OneWait'
<1>1. /\ run.at = "call" /\ run'.client = run.client /\ run'.at \in {"find", "arm"}
  BY HandlerEffect, CalledRun
<1> QED
  BY <1>1, HandlerEffect DEF OneWait

LEMMA WaitArm ==
  ASSUME Sound, OneWait, ArmAgain
  PROVE  OneWait'
<1>1. /\ run.at = "arm" /\ run' = Idle /\ run'.at = "loop"
      /\ armed' = IF Slot.fdSock = -1 THEN armed
                  ELSE [armed EXCEPT ![run.client] = Awaits(run.client)]
      /\ UNCHANGED <<end, conn, Clients, batch, stale>>
  BY DEF ArmAgain, Running, Idle, outside, slots, history
<1>2. /\ run.client \in Fd
      /\ conn[run.client] # Nobody => Slot.fdSock # -1
  BY Numbers DEF Sound, TypeOK, SlotsMatch, Slot
<1>3. /\ \A g \in Fd : g # run.client => armed'[g] = armed[g]
      /\ conn[run.client] # Nobody => armed'[run.client] \in {"in", "out"}
  BY <1>1, <1>2 DEF Awaits, Sound, TypeOK
<1> QED
  BY <1>1, <1>2, <1>3 DEF OneWait

LEMMA WaitNext ==
  ASSUME Sound, OneWait, [Next]_vars
  PROVE  OneWait'
<1>1. CASE UNCHANGED vars
  BY <1>1 DEF vars, outside, kernel, slots, loop, history, OneWait
<1> QED
  BY <1>1, WaitOutside, WaitEpoll, WaitAccept, WaitRead, WaitClose, WaitWrite, WaitFind,
     WaitHandler, WaitArm DEF Next, Loop

(* One-shot arming: no connection waits for two things, and one that waits for *)
(* nothing has a peer that sent a reset, or never had an answer to send.       *)
THEOREM WaitsForOne == Spec => []OneShot
<1>1. Init => Sound /\ OneWait
  BY SoundInit, WaitInit
<1>2. Sound /\ OneWait /\ [Next]_vars => Sound' /\ OneWait'
  BY SoundNext, WaitNext
<1>3. ASSUME TypeOK, OneWait PROVE OneShot
  <2> SUFFICES ASSUME NEW fd \in Fd, conn[fd] \notin stale \cup {Nobody}
               PROVE  /\ Cardinality(Waiting(fd)) <= 1
                      /\ Waiting(fd) = {} => end[conn[fd]] = "reset" \/ Clients[fd].bufferWrite = <<>>
    BY DEF OneShot
  <2>1. \A e \in batch : e[1] = fd => e = <<fd, e[2]>> /\ e[2] \in {"in", "out"}
    BY <1>3 DEF TypeOK
  <2>2. \A x, y \in Waiting(fd) : x = y
    <3>1. \A x \in Waiting(fd) :
            \/ x = <<"armed", armed[fd]>> /\ armed[fd] # "off"
            \/ \E w \in {"in", "out"} : x = <<"event", w>> /\ <<fd, w>> \in batch
            \/ x = <<"run", run.at>> /\ run.at # "loop" /\ run.client = fd
      BY <2>1 DEF Waiting
    <3> QED
      BY <1>3, <3>1 DEF OneWait
  <2>3. CASE Waiting(fd) = {}
    <3>1. ~(armed[fd] # "off") /\ ~(run.at # "loop" /\ run.client = fd)
      BY <2>3 DEF Waiting
    <3>2. \A w \in {"in", "out"} : <<fd, w>> \notin batch
      <4> SUFFICES ASSUME NEW w \in {"in", "out"}, <<fd, w>> \in batch PROVE FALSE
        OBVIOUS
      <4>1. <<"event", <<fd, w>>[2]>> \in Waiting(fd)
        BY DEF Waiting
      <4> QED
        BY <2>3, <4>1
    <3>3. Cardinality(Waiting(fd)) = 0
      BY <2>3, FS_EmptySet
    <3> QED
      BY <1>3, <3>1, <3>2, <3>3 DEF OneWait
  <2>4. CASE Waiting(fd) # {}
    <3>1. PICK x : Waiting(fd) = {x}
      BY <2>2, <2>4
    <3>2. Cardinality({x}) = 1
      BY FS_Singleton
    <3> QED
      BY <2>4, <3>1, <3>2
  <2> QED
    BY <2>3, <2>4
<1>4. Sound => TypeOK
  BY DEF Sound
<1> QED
  BY <1>1, <1>2, <1>3, <1>4, PTL DEF Spec

-----------------------------------------------------------------------------
(* Sequences of packets. *)

LEMMA PrefixKeeps ==
  ASSUME NEW d \in Seq(Packet), NEW e \in Seq(Packet), NEW s \in Seq(Packet)
  PROVE  /\ Ordered(d \o e, s) => Ordered(d, s)
         /\ Gapless(d \o e) => Gapless(d)
<1>1. /\ Len(d) \in Nat /\ Len(e) \in Nat
      /\ DOMAIN d = 1..Len(d) /\ DOMAIN (d \o e) = 1..Len(d) + Len(e)
      /\ \A i \in 1..Len(d) : (d \o e)[i] = d[i]
  <2>1. /\ d \o e \in Seq(Packet) /\ Len(d \o e) = Len(d) + Len(e)
        /\ \A i \in 1..Len(d) + Len(e) : (d \o e)[i] = IF i <= Len(d) THEN d[i] ELSE e[i - Len(d)]
    BY ConcatProperties
  <2>2. Len(d) \in Nat /\ Len(e) \in Nat /\ DOMAIN d = 1..Len(d)
    BY LenProperties
  <2>3. DOMAIN (d \o e) = 1..Len(d) + Len(e)
    BY <2>1, LenProperties
  <2> QED
    BY <2>1, <2>2, <2>3
<1>2. DOMAIN d \subseteq DOMAIN (d \o e) /\ \A i \in DOMAIN d : (d \o e)[i] = d[i]
  BY <1>1
<1> QED
  BY <1>2 DEF Ordered, Gapless

LEMMA AppendKeeps ==
  ASSUME NEW d \in Seq(Packet), NEW s \in Seq(Packet), NEW m \in Packet,
         Ordered(d, s), m.no = Len(s) + 1
  PROVE  /\ Ordered(Append(d, m), Append(s, m))
         /\ Gapless(d) /\ Len(d) = Len(s) =>
              Gapless(Append(d, m)) /\ Len(Append(d, m)) = Len(Append(s, m))
<1>1. /\ Len(d) \in Nat /\ DOMAIN d = 1..Len(d)
      /\ DOMAIN Append(d, m) = 1..Len(d) + 1 /\ Len(Append(d, m)) = Len(d) + 1
      /\ \A i \in 1..Len(d) : Append(d, m)[i] = d[i]
      /\ Append(d, m)[Len(d) + 1] = m
  BY AppendProperties, LenProperties
<1>2. /\ Len(s) \in Nat /\ DOMAIN s = 1..Len(s)
      /\ DOMAIN Append(s, m) = 1..Len(s) + 1 /\ Len(Append(s, m)) = Len(s) + 1
      /\ \A i \in 1..Len(s) : Append(s, m)[i] = s[i]
      /\ Append(s, m)[Len(s) + 1] = m
  BY AppendProperties, LenProperties
<1>3. \A i \in DOMAIN d : d[i].no \in 1..Len(s) /\ s[d[i].no] = d[i]
  BY <1>2 DEF Ordered
<1>4. \A i \in 1..Len(d) + 1 : i \in 1..Len(d) \/ i = Len(d) + 1
  BY <1>1
<1>5. \A i \in DOMAIN Append(d, m) :
        /\ Append(d, m)[i].no \in DOMAIN Append(s, m)
        /\ Append(s, m)[Append(d, m)[i].no] = Append(d, m)[i]
  BY <1>1, <1>2, <1>3, <1>4
<1>6. \A i, j \in DOMAIN Append(d, m) : i < j => Append(d, m)[i].no < Append(d, m)[j].no
  <2> SUFFICES ASSUME NEW i \in 1..Len(d) + 1, NEW j \in 1..Len(d) + 1, i < j
               PROVE  Append(d, m)[i].no < Append(d, m)[j].no
    BY <1>1
  <2>1. i \in 1..Len(d) /\ Append(d, m)[i] = d[i] /\ d[i].no \in 1..Len(s)
    BY <1>1, <1>3
  <2>2. CASE j \in 1..Len(d)
    BY <1>1, <2>1, <2>2 DEF Ordered
  <2>3. CASE j = Len(d) + 1
    BY <1>1, <1>2, <2>1, <2>3
  <2> QED
    BY <1>4, <2>2, <2>3
<1>7. Gapless(d) /\ Len(d) = Len(s) => Gapless(Append(d, m))
  BY <1>1, <1>4 DEF Gapless
<1> QED
  BY <1>1, <1>2, <1>5, <1>6, <1>7 DEF Ordered

LEMMA Associative ==
  ASSUME NEW r \in Seq(Packet), NEW t \in Seq(Packet), NEW q \in Seq(Packet)
  PROVE  (r \o t) \o q = r \o (t \o q)
BY ConcatAssociative

LEMMA ConcatClosed ==
  ASSUME NEW r \in Seq(Packet), NEW t \in Seq(Packet)
  PROVE  r \o t \in Seq(Packet)
BY ConcatProperties

LEMMA Regroup ==
  \A r, h, v, q \in Seq(Packet) : (r \o h) \o (v \o q) = r \o ((h \o v) \o q)
<1> DEFINE S == Seq(Packet)
           cat(a, b) == a \o b
<1>1. \A a, b \in S : cat(a, b) \in S
  BY ConcatClosed
<1>2. \A a, b, c \in S : cat(cat(a, b), c) = cat(a, cat(b, c))
  BY Associative
<1> HIDE DEF S, cat
<1>3. \A r, h, v, q \in S : cat(cat(r, h), cat(v, q)) = cat(r, cat(cat(h, v), q))
  BY <1>1, <1>2
<1> QED
  BY <1>3 DEF S, cat

(* What is taken from the head of one sequence to the end of the one before. *)
LEMMA HeadMoves ==
  ASSUME NEW r \in Seq(Packet), NEW t \in Seq(Packet), NEW q \in Seq(Packet), t # <<>>
  PROVE  Append(r, Head(t)) \o (Tail(t) \o q) = r \o (t \o q)
<1>1. Head(t) \in Packet /\ Tail(t) \in Seq(Packet) /\ <<Head(t)>> \in Seq(Packet)
  BY HeadTailProperties
<1>2. t = <<Head(t)>> \o Tail(t)
  <2>1. /\ Len(Tail(t)) = Len(t) - 1 /\ Len(t) \in Nat /\ Len(t) # 0
        /\ \A i \in 1..Len(Tail(t)) : Tail(t)[i] = t[i + 1]
        /\ Head(t) = t[1]
    BY HeadTailProperties, LenProperties, EmptySeq
  <2>2. /\ <<Head(t)>> \o Tail(t) \in Seq(Packet)
        /\ Len(<<Head(t)>>) = 1 /\ <<Head(t)>>[1] = Head(t)
        /\ Len(<<Head(t)>> \o Tail(t)) = 1 + Len(Tail(t))
        /\ \A i \in 1..1 + Len(Tail(t)) : (<<Head(t)>> \o Tail(t))[i] =
             IF i <= 1 THEN <<Head(t)>>[i] ELSE Tail(t)[i - 1]
    BY <1>1, ConcatProperties
  <2>3. Len(<<Head(t)>> \o Tail(t)) = Len(t)
    BY <2>1, <2>2
  <2>4. \A i \in 1..Len(t) : t[i] = (<<Head(t)>> \o Tail(t))[i]
    BY <2>1, <2>2
  <2> QED
    BY <2>2, <2>3, <2>4, SeqEqual
<1>3. Append(r, Head(t)) = r \o <<Head(t)>>
  BY <1>1, AppendIsConcat
<1>4. (r \o <<Head(t)>>) \o (Tail(t) \o q) = r \o ((<<Head(t)>> \o Tail(t)) \o q)
  <2> DEFINE S == Seq(Packet)
             cat(a, b) == a \o b
             e == <<Head(t)>>
             v == Tail(t)
  <2>1. e \in S /\ v \in S /\ r \in S /\ q \in S
    BY <1>1
  <2>2. \A a, b, c, d \in S : cat(cat(a, b), cat(c, d)) = cat(a, cat(cat(b, c), d))
    BY Regroup
  <2> HIDE DEF S, cat, e, v
  <2>3. cat(cat(r, e), cat(v, q)) = cat(r, cat(cat(e, v), q))
    BY <2>1, <2>2
  <2> QED
    BY <2>3 DEF cat, e, v
<1> QED
  BY <1>2, <1>3, <1>4

-----------------------------------------------------------------------------
(* What is due of a peer's packets. *)

LEMMA DueTyped ==
  ASSUME TypeOK, NEW p \in Peer
  PROVE  /\ ran[p] \in Seq(Packet) /\ Todo(p) \in Seq(Packet) /\ stream[p] \in Seq(Packet)
         /\ sent[p] \in Seq(Packet) /\ Due(p) \in Seq(Packet)
         /\ ran[p] \o Todo(p) \in Seq(Packet)
         /\ Due(p) = (ran[p] \o Todo(p)) \o stream[p]
<1>1. ran[p] \in Seq(Packet) /\ stream[p] \in Seq(Packet) /\ sent[p] \in Seq(Packet)
  BY DEF TypeOK
<1>2. Todo(p) \in Seq(Packet)
  BY DEF TypeOK, Todo
<1>3. /\ Todo(p) \o stream[p] \in Seq(Packet) /\ ran[p] \o Todo(p) \in Seq(Packet)
      /\ (ran[p] \o Todo(p)) \o stream[p] = ran[p] \o (Todo(p) \o stream[p])
  <2> DEFINE r == ran[p]
             t == Todo(p)
             q == stream[p]
  <2>1. r \in Seq(Packet) /\ t \in Seq(Packet) /\ q \in Seq(Packet)
    BY <1>1, <1>2
  <2> HIDE DEF r, t, q
  <2>2. t \o q \in Seq(Packet) /\ r \o t \in Seq(Packet)
    BY <2>1, ConcatProperties
  <2>3. (r \o t) \o q = r \o (t \o q)
    BY <2>1, Associative
  <2> QED
    BY <2>2, <2>3 DEF r, t, q
<1>4. ran[p] \o (Todo(p) \o stream[p]) \in Seq(Packet)
  BY <1>1, <1>3, ConcatClosed
<1> QED
  BY <1>1, <1>2, <1>3, <1>4 DEF Due

(* Nobody's packets are being run. *)
LEMMA NoneTodo ==
  ASSUME run.todo = <<>>, NEW p \in Peer
  PROVE  Todo(p) = <<>>
BY DEF Todo


-----------------------------------------------------------------------------
(* Packets keep their order. *)

(* Flow of one peer. *)
FlowOf(p) ==
  /\ Ordered(Due(p), sent[p])
  /\ p \in User => /\ Gapless(Due(p))
                   /\ end[p] # "closed" => Len(Due(p)) = Len(sent[p])

SentOwn(p) == \A i \in DOMAIN sent[p] : sent[p][i].from = p /\ sent[p][i].no = i

LEMMA FlowParts ==
  Flow <=> (\A p \in Peer : SentOwn(p)) /\ (\A p \in Peer \ stale : FlowOf(p))
BY Numbers DEF Flow, FlowOf, SentOwn

(* Due as it was: nothing is lost or gained. *)
LEMMA FlowSame ==
  ASSUME Flow, UNCHANGED sent, stale \subseteq stale',
         \A p \in Peer \ stale' :
           /\ Due(p)' = Due(p)
           /\ p \in User => end'[p] = end[p] \/ end'[p] = "closed" \/ end[p] # "closed"
  PROVE  Flow'
<1>1. \A p \in Peer : SentOwn(p)'
  BY FlowParts DEF SentOwn
<1>2. \A p \in Peer \ stale' : FlowOf(p)'
  BY FlowParts DEF FlowOf, Ordered, Gapless
<1>3. Flow' <=> (\A p \in Peer : SentOwn(p)') /\ (\A p \in Peer \ stale' : FlowOf(p)')
  BY Numbers DEF Flow, FlowOf, SentOwn
<1> QED
  BY <1>1, <1>2, <1>3

LEMMA FlowInit ==
  ASSUME Init
  PROVE  Flow
<1>1. \A p \in Peer : Due(p) = <<>> /\ sent[p] = <<>>
  <2>1. \A p \in Peer : ran[p] = <<>> /\ stream[p] = <<>> /\ Todo(p) = <<>> /\ sent[p] = <<>>
    BY DEF Init, Idle, Todo
  <2> QED
    BY <2>1 DEF Due
<1>2. \A p \in Peer : SentOwn(p) /\ FlowOf(p)
  BY <1>1 DEF SentOwn, FlowOf, Ordered, Gapless
<1> QED
  BY <1>2, FlowParts

LEMMA FlowSend ==
  ASSUME Sound, Flow, NEW p \in Peer, NEW kind \in Kind, Send(p, kind)
  PROVE  Flow'
<1> DEFINE m == [from |-> p, no |-> Len(sent[p]) + 1, kind |-> kind]
<1>1. m \in Packet /\ m.from = p /\ m.no = Len(sent[p]) + 1
  BY DEF Sound, TypeOK, Packet
<1>2. /\ sent' = [sent EXCEPT ![p] = Append(sent[p], m)]
      /\ stream' = [stream EXCEPT ![p] = Append(stream[p], m)]
      /\ end[p] = "open"
      /\ UNCHANGED <<end, Clients, run, ran, stale>>
  BY DEF Send, slots, loop, history
<1> HIDE DEF m
<1>3. /\ sent'[p] = Append(sent[p], m) /\ stream'[p] = Append(stream[p], m)
      /\ \A q \in Peer : q # p => sent'[q] = sent[q] /\ stream'[q] = stream[q]
  BY <1>2 DEF Sound, TypeOK
<1>4. \A q \in Peer : SentOwn(q)'
  <2>1. /\ Len(sent[p]) \in Nat /\ DOMAIN sent[p] = 1..Len(sent[p])
        /\ DOMAIN sent'[p] = 1..Len(sent[p]) + 1
        /\ \A i \in 1..Len(sent[p]) : sent'[p][i] = sent[p][i]
        /\ sent'[p][Len(sent[p]) + 1] = m
    BY <1>1, <1>3, AppendProperties, LenProperties DEF Sound, TypeOK
  <2>2. \A i \in DOMAIN sent'[p] : i \in DOMAIN sent[p] \/ i = Len(sent[p]) + 1
    BY <2>1
  <2>3. SentOwn(p)
    BY FlowParts
  <2>4. \A i \in DOMAIN sent'[p] : sent'[p][i].from = p /\ sent'[p][i].no = i
    BY <1>1, <2>1, <2>2, <2>3 DEF SentOwn
  <2>5. ASSUME NEW q \in Peer, q # p PROVE SentOwn(q)'
    BY <1>3, <2>5, FlowParts DEF SentOwn
  <2>6. SentOwn(p)'
    BY <2>4 DEF SentOwn
  <2> QED
    BY <2>5, <2>6
<1>5. \A q \in Peer \ stale' : FlowOf(q)'
  <2>1. ASSUME NEW q \in Peer \ stale', q # p PROVE FlowOf(q)'
    <3>1. Due(q)' = Due(q)
      BY <1>2, <1>3, <2>1 DEF Due, Todo, Slot
    <3>2. FlowOf(q)
      BY <1>2, <2>1, FlowParts
    <3> QED
      BY <1>2, <1>3, <2>1, <3>1, <3>2 DEF FlowOf, Ordered, Gapless
  <2>2. ASSUME p \notin stale' PROVE FlowOf(p)'
    <3>1. Due(p)' = Append(Due(p), m)
      <4>1. /\ ran[p] \in Seq(Packet) /\ Todo(p) \in Seq(Packet) /\ stream[p] \in Seq(Packet)
        BY DueTyped DEF Sound
      <4>2. Due(p)' = ran[p] \o (Todo(p) \o Append(stream[p], m))
        BY <1>2, <1>3 DEF Due, Todo, Slot
      <4>3. \A q \in Seq(Packet) : Append(q, m) = q \o <<m>> /\ <<m>> \in Seq(Packet)
        BY <1>1, AppendIsConcat
      <4>4. Todo(p) \o Append(stream[p], m) = (Todo(p) \o stream[p]) \o <<m>>
        <5>1. Append(stream[p], m) = stream[p] \o <<m>> /\ <<m>> \in Seq(Packet)
          BY <4>1, <4>3
        <5>2. (Todo(p) \o stream[p]) \o <<m>> = Todo(p) \o (stream[p] \o <<m>>)
          <6> DEFINE t == Todo(p)
                     q == stream[p]
                     e == <<m>>
          <6>1. t \in Seq(Packet) /\ q \in Seq(Packet) /\ e \in Seq(Packet)
            BY <4>1, <5>1
          <6> HIDE DEF t, q, e
          <6>2. (t \o q) \o e = t \o (q \o e)
            BY <6>1, Associative
          <6> QED
            BY <6>2 DEF t, q, e
        <5> QED
          BY <5>1, <5>2
      <4>5. Todo(p) \o stream[p] \in Seq(Packet)
        BY <4>1, ConcatClosed
      <4>6. ran[p] \o ((Todo(p) \o stream[p]) \o <<m>>) = (ran[p] \o (Todo(p) \o stream[p])) \o <<m>>
        <5> DEFINE r == ran[p]
                   d == Todo(p) \o stream[p]
        <5>1. r \in Seq(Packet) /\ d \in Seq(Packet) /\ <<m>> \in Seq(Packet)
          BY <4>1, <4>3, <4>5
        <5> HIDE DEF r, d
        <5>2. r \o (d \o <<m>>) = (r \o d) \o <<m>>
          BY <5>1, Associative
        <5> QED
          BY <5>2 DEF r, d
      <4>7. Due(p) \in Seq(Packet)
        BY DueTyped DEF Sound
      <4> QED
        BY <4>2, <4>3, <4>4, <4>6, <4>7 DEF Due
    <3>2. FlowOf(p) /\ Due(p) \in Seq(Packet) /\ sent[p] \in Seq(Packet)
      BY <1>2, <2>2, DueTyped, FlowParts DEF Sound
    <3>3. /\ Ordered(Append(Due(p), m), Append(sent[p], m))
          /\ Gapless(Due(p)) /\ Len(Due(p)) = Len(sent[p]) =>
               Gapless(Append(Due(p), m)) /\ Len(Append(Due(p), m)) = Len(Append(sent[p], m))
      BY <1>1, <3>2, AppendKeeps DEF FlowOf
    <3> QED
      BY <1>2, <1>3, <3>1, <3>2, <3>3 DEF FlowOf, Ordered, Gapless
  <2> QED
    BY <2>1, <2>2
<1>6. Flow' <=> (\A q \in Peer : SentOwn(q)') /\ (\A q \in Peer \ stale' : FlowOf(q)')
  BY Numbers DEF Flow, FlowOf, SentOwn
<1> QED
  BY <1>4, <1>5, <1>6

LEMMA FlowRead ==
  ASSUME Sound, Flow, NEW fd \in Fd, ReadData(fd) \/ ReadNothing(fd)
  PROVE  Flow'
<1>1. PICK p \in Peer : p = conn[fd]
  BY ReadEffect
<1>2. /\ run.todo = <<>> /\ run'.client = fd /\ Clients'[fd].name = p
      /\ UNCHANGED <<end, sent, ran, stale>>
      /\ \A q \in Peer : q # p => stream'[q] = stream[q]
      /\ p \in stale \/ (run'.todo = stream[p] /\ stream'[p] = <<>>)
  <2>1. /\ run.todo = <<>> /\ run'.client = fd
        /\ UNCHANGED <<end, sent, ran, stale>>
        /\ \A q \in Peer : q # p => stream'[q] = stream[q]
    BY <1>1, ReadEffect
  <2>2. Clients'[fd].name = p
    BY <1>1, ReadEffect
  <2>3. p \in stale \/ (run'.todo = stream[p] /\ stream'[p] = <<>>)
    BY <1>1, ReadEffect
  <2> QED
    BY <2>1, <2>2, <2>3
<1>3. \A q \in Peer : Todo(q) = <<>>
  BY <1>2, NoneTodo
<1>4. ASSUME NEW q \in Peer, q # p PROVE Due(q)' = Due(q)
  <2>1. Todo(q)' = <<>>
    BY <1>2, <1>4 DEF Todo, Slot
  <2> QED
    BY <1>2, <1>3, <1>4, <2>1 DEF Due
<1>5. ASSUME p \notin stale PROVE Due(p)' = Due(p)
  <2>1. Todo(p)' = stream[p]
    BY <1>2, <1>5 DEF Todo, Slot
  <2>2. Due(p)' = ran[p] \o (stream[p] \o <<>>)
    BY <1>2, <1>5, <2>1 DEF Due
  <2>3. Due(p) = ran[p] \o (<<>> \o stream[p])
    BY <1>3 DEF Due
  <2>4. stream[p] \o <<>> = <<>> \o stream[p]
    <3>1. stream[p] \in Seq(Packet)
      BY DEF Sound, TypeOK
    <3> QED
      BY <3>1, ConcatEmptySeq
  <2> QED
    BY <2>2, <2>3, <2>4
<1>6. \A q \in Peer \ stale' : Due(q)' = Due(q)
  BY <1>2, <1>4, <1>5
<1> QED
  BY <1>2, <1>6, FlowSame

LEMMA FlowClose ==
  ASSUME Sound, Sound', Flow, CronFollower \/ \E fd \in Fd : ReadFails(fd)
  PROVE  Flow'
<1>1. /\ UNCHANGED <<sent, run, ran, stale>>
      /\ \A g \in Fd : Clients'[g].name = Clients[g].name
      /\ \A p \in Peer : \/ stream'[p] = stream[p] /\ end'[p] = end[p]
                         \/ stream'[p] = <<>> /\ end'[p] = "closed"
  BY CloseEffect
<1>2. \A p \in Peer : SentOwn(p)'
  BY <1>1, FlowParts DEF SentOwn
<1>3. ASSUME NEW p \in Peer \ stale PROVE FlowOf(p)'
  <2>1. Todo(p)' = Todo(p)
    <3>1. run.client \in Fd
      BY DEF Sound, TypeOK
    <3> QED
      BY <1>1, <3>1 DEF Todo, Slot
  <2>2. CASE stream'[p] = stream[p] /\ end'[p] = end[p]
    <3>1. Due(p)' = Due(p)
      BY <1>1, <2>1, <2>2 DEF Due
    <3>2. FlowOf(p)
      BY FlowParts
    <3> QED
      BY <1>1, <2>2, <3>1, <3>2 DEF FlowOf, Ordered, Gapless
  <2>3. CASE stream'[p] = <<>> /\ end'[p] = "closed"
    <3>1. /\ ran[p] \o Todo(p) \in Seq(Packet) /\ stream[p] \in Seq(Packet)
          /\ sent[p] \in Seq(Packet) /\ Due(p) = (ran[p] \o Todo(p)) \o stream[p]
      BY DueTyped DEF Sound
    <3>2. Due(p)' = ran[p] \o Todo(p)
      <4>1. Due(p)' = ran[p] \o (Todo(p) \o <<>>)
        BY <1>1, <2>1, <2>3 DEF Due
      <4>2. Todo(p) \in Seq(Packet)
        BY DueTyped DEF Sound
      <4> QED
        BY <4>1, <4>2, ConcatEmptySeq
    <3>3. FlowOf(p)
      BY FlowParts
    <3>4. /\ Ordered(ran[p] \o Todo(p), sent[p])
          /\ p \in User => Gapless(ran[p] \o Todo(p))
      <4> DEFINE d == ran[p] \o Todo(p)
                 e == stream[p]
      <4>1. d \in Seq(Packet) /\ e \in Seq(Packet) /\ sent[p] \in Seq(Packet)
        BY <3>1
      <4>2. Ordered(d \o e, sent[p]) /\ (p \in User => Gapless(d \o e))
        BY <3>1, <3>3 DEF FlowOf
      <4> HIDE DEF d, e
      <4>3. Ordered(d, sent[p]) /\ (p \in User => Gapless(d))
        BY <4>1, <4>2, PrefixKeeps
      <4> QED
        BY <4>3 DEF d
    <3> QED
      BY <1>1, <2>3, <3>2, <3>4 DEF FlowOf, Ordered, Gapless
  <2> QED
    BY <1>1, <2>2, <2>3
<1>4. Flow' <=> (\A p \in Peer : SentOwn(p)') /\ (\A p \in Peer \ stale' : FlowOf(p)')
  BY Numbers DEF Flow, FlowOf, SentOwn
<1> QED
  BY <1>1, <1>2, <1>3, <1>4


LEMMA FlowHandler ==
  ASSUME Sound, Flow, Call \/ ConnectFails \/ \E b \in Link : ConnectServer(b)
  PROVE  Flow'
<1>1. /\ UNCHANGED <<stream, sent>> /\ stale \subseteq stale'
      /\ \A u \in User : end'[u] = end[u]
      /\ \/ Clients'[run.client].name = Slot.name
         \/ Slot.name \in stale /\ Clients'[run.client].name \in stale'
  BY HandlerEffect
<1>2. /\ run.todo # <<>> /\ run.todo \in Seq(Packet) /\ run'.todo = Tail(run.todo)
      /\ run'.client = run.client
      /\ ran' = [ran EXCEPT ![Slot.name] = Append(ran[Slot.name], Head(run.todo))]
  BY HandlerEffect, CalledRun
<1>3. ASSUME NEW p \in Peer \ stale' PROVE Due(p)' = Due(p)
  <2>1. /\ Todo(p)' = IF Slot.name = p THEN Tail(run.todo) ELSE <<>>
        /\ Todo(p) = IF Slot.name = p THEN run.todo ELSE <<>>
    BY <1>1, <1>2 DEF Todo, Slot
  <2>2. CASE Slot.name # p
    <3>1. ran'[p] = ran[p]
      BY <1>2, <2>2 DEF Sound, TypeOK
    <3> QED
      BY <1>1, <2>1, <2>2, <3>1 DEF Due
  <2>3. CASE Slot.name = p
    <3>1. ran'[p] = Append(ran[p], Head(run.todo))
      BY <1>2, <2>3 DEF Sound, TypeOK
    <3>2. ran[p] \in Seq(Packet) /\ stream[p] \in Seq(Packet)
      BY DEF Sound, TypeOK
    <3>3. Append(ran[p], Head(run.todo)) \o (Tail(run.todo) \o stream[p])
            = ran[p] \o (run.todo \o stream[p])
      BY <1>2, <3>2, HeadMoves
    <3> QED
      BY <1>1, <2>1, <2>3, <3>1, <3>3 DEF Due
  <2> QED
    BY <2>2, <2>3
<1> QED
  BY <1>1, <1>3, FlowSame

(* Steps that touch no packet. *)
LEMMA FlowElse ==
  ASSUME Sound, Flow,
         \/ \E u \in User : Dial(u)
         \/ \E p \in Peer : Leave(p)
         \/ EpollWait \/ Accept \/ FindCommand \/ ArmAgain
         \/ \E fd \in Fd : ClientWrite(fd)
  PROVE  Flow'
<1>1. ASSUME UNCHANGED <<stream, sent, ran>>, stale \subseteq stale',
             \A p \in Peer : Todo(p)' = Todo(p),
             \A p \in Peer : end'[p] = "closed" \/ end[p] # "closed" \/ end'[p] = end[p]
      PROVE  Flow'
  <2>1. \A p \in Peer : Due(p)' = Due(p)
    BY <1>1 DEF Due
  <2> QED
    BY <1>1, <2>1, FlowSame
<1>2. ASSUME NEW u \in User, Dial(u) PROVE Flow'
  <2>1. UNCHANGED <<stream, sent, ran, stale, Clients, run>>
        /\ \A p \in Peer : end[p] # "closed" \/ end'[p] = end[p]
    BY <1>2, Numbers DEF Dial, slots, loop, history, Sound, TypeOK
  <2> QED
    BY <1>1, <2>1 DEF Todo, Slot
<1>3. ASSUME NEW q \in Peer, Leave(q) PROVE Flow'
  <2>1. UNCHANGED <<stream, sent, ran, stale, Clients, run>>
        /\ \A p \in Peer : end[p] # "closed" \/ end'[p] = end[p]
    BY <1>3 DEF Leave, slots, loop, history, Sound, TypeOK
  <2> QED
    BY <1>1, <2>1 DEF Todo, Slot
<1>4. ASSUME EpollWait \/ \E fd \in Fd : ClientWrite(fd) PROVE Flow'
  <2>1. UNCHANGED <<stream, sent, end, ran, stale, Clients, run>>
    BY <1>4 DEF EpollWait, ClientWrite, outside, slots, history
  <2> QED
    BY <1>1, <2>1 DEF Todo, Slot
<1>5. ASSUME Accept PROVE Flow'
  <2>1. UNCHANGED <<stream, sent, ran, run>> /\ run.todo = <<>>
    BY <1>5 DEF Accept, Serve, AtLoop, Sound, RunAlive
  <2>2. \A p \in Peer : Todo(p)' = Todo(p)
    BY <2>1 DEF Todo
  <2>3. stale \subseteq stale'
    BY <1>5 DEF Accept, InitClient
  <2>4. \A p \in Peer : end'[p] = "closed" \/ end'[p] = end[p]
    BY <1>5 DEF Accept, Sound, TypeOK
  <2> QED
    BY <1>1, <2>1, <2>2, <2>3, <2>4
<1>6. ASSUME FindCommand PROVE Flow'
  <2>1. UNCHANGED <<stream, sent, end, ran, stale>> /\ run'.todo = run.todo
        /\ run'.client = run.client /\ run.client \in Fd
    BY <1>6 DEF FindCommand, outside, history, Sound, TypeOK
  <2>2. Slot.name' = Slot.name
    BY <1>6, <2>1, SoundFindCommand DEF Slot
  <2> QED
    BY <1>1, <2>1, <2>2 DEF Todo
<1>7. ASSUME ArmAgain PROVE Flow'
  <2>1. UNCHANGED <<stream, sent, end, ran, stale>> /\ run.todo = <<>> /\ run'.todo = <<>>
    BY <1>7 DEF ArmAgain, Running, Idle, outside, history, Sound, RunAlive
  <2> QED
    BY <1>1, <2>1 DEF Todo
<1> QED
  BY <1>2, <1>3, <1>4, <1>5, <1>6, <1>7

LEMMA FlowNext ==
  ASSUME Sound, Sound', Flow, [Next]_vars
  PROVE  Flow'
<1>1. CASE UNCHANGED vars
  <2>1. UNCHANGED <<sent, stale, end>> /\ \A p \in Peer : Due(p)' = Due(p)
    BY <1>1 DEF vars, outside, slots, loop, history, Due, Todo, Slot
  <2> QED
    BY <2>1, FlowSame
<1> QED
  BY <1>1, FlowSend, FlowRead, FlowClose, FlowHandler, FlowElse DEF Next, Loop

(* What ran is the first part of what is due. *)
LEMMA RanOrdered ==
  ASSUME TypeOK, Flow, NEW p \in Peer \ stale
  PROVE  /\ Ordered(ran[p], sent[p])
         /\ p \in User => Gapless(ran[p])
<1>1. /\ ran[p] \in Seq(Packet) /\ Todo(p) \o stream[p] \in Seq(Packet)
      /\ sent[p] \in Seq(Packet)
  BY DueTyped, ConcatClosed
<1>2. Ordered(Due(p), sent[p]) /\ (p \in User => Gapless(Due(p)))
  BY FlowParts DEF FlowOf
<1> QED
  BY <1>1, <1>2, PrefixKeeps DEF Due

(* Packets run once, in the name of who sent them and in the order they were   *)
(* sent, and none of a user's is left out.                                     *)
THEOREM RunsOnce == Spec => []RunOnce
<1>1. Init => Sound /\ Flow
  BY SoundInit, FlowInit
<1>2. Sound /\ Flow /\ [Next]_vars => Sound' /\ Flow'
  BY SoundNext, FlowNext
<1>3. ASSUME TypeOK, Flow PROVE RunOnce
  <2> SUFFICES ASSUME NEW p \in Peer \ stale PROVE RunsOwn(p)
    BY DEF RunOnce
  <2>1. /\ Ordered(ran[p], sent[p]) /\ (p \in User => Gapless(ran[p]))
        /\ SentOwn(p)
    BY <1>3, RanOrdered, FlowParts
  <2> QED
    BY <2>1 DEF RunsOwn, Ordered, Gapless, SentOwn
<1>4. Sound => TypeOK
  BY DEF Sound
<1> QED
  BY <1>1, <1>2, <1>3, <1>4, PTL DEF Spec

-----------------------------------------------------------------------------
(* Answers go to those who asked. *)

LEMMA AnswersInit ==
  ASSUME Init
  PROVE  Answers
BY DEF Init, Idle, Answers, Replies, GetsOwn, Holds

(* What a step must keep. *)
LEMMA AnswersBy ==
  ASSUME Answers, stale \subseteq stale',
         \A p \in Peer : SaysShow(p) => SaysShow(p)',
         \A p \in Peer \ stale' : ~SaysShow(p) => Replies(p)',
         \A p \in Peer \ stale' : \A fd \in Fd : ~SaysShow(p) /\ conn'[fd] = p => Holds(fd, p)'
  PROVE  Answers'
BY DEF Answers

(* Steps that run nothing and send nothing. *)
LEMMA AnswersQuiet ==
  ASSUME Answers, stale \subseteq stale', UNCHANGED <<got, ran>>,
         \A p \in Peer : SaysShow(p) => SaysShow(p)',
         \A p \in Peer \ stale' : \A fd \in Fd :
           ~SaysShow(p) /\ conn'[fd] = p /\ (conn[fd] = p => Holds(fd, p)) => Holds(fd, p)'
  PROVE  Answers'
<1>1. \A p \in Peer \ stale' : ~SaysShow(p) => Replies(p)'
  BY DEF Answers, Replies, GetsOwn, LastRun
<1>2. \A p \in Peer \ stale' : \A fd \in Fd : ~SaysShow(p) /\ conn'[fd] = p => Holds(fd, p)'
  BY DEF Answers
<1> QED
  BY <1>1, <1>2, AnswersBy

LEMMA AnswersOutside ==
  ASSUME Sound, Answers,
         \/ \E u \in User : Dial(u)
         \/ \E p \in Peer : Leave(p) \/ \E kind \in Kind : Send(p, kind)
  PROVE  Answers'
<1>1. UNCHANGED <<conn, armed, Clients, batch, run, stale, got, ran, crashed>>
  BY DEF Dial, Leave, Send, kernel, slots, loop, history
<1>2. \A p \in Peer : SaysShow(p) => SaysShow(p)'
  <2>1. CASE UNCHANGED sent
    BY <2>1 DEF SaysShow
  <2>2. ASSUME NEW p \in Peer, NEW kind \in Kind, Send(p, kind)
        PROVE  \A q \in Peer : SaysShow(q) => SaysShow(q)'
    <3> DEFINE m == [from |-> p, no |-> Len(sent[p]) + 1, kind |-> kind]
    <3>1. m \in Packet /\ m.no = Len(sent[p]) + 1
      BY DEF Sound, TypeOK, Packet
    <3>5. sent[p] \in Seq(Packet)
      BY DEF Sound, TypeOK
    <3>2. sent' = [sent EXCEPT ![p] = Append(sent[p], m)]
      BY <2>2 DEF Send
    <3> HIDE DEF m
    <3>3. /\ DOMAIN sent[p] = 1..Len(sent[p]) /\ Len(sent[p]) \in Nat
          /\ DOMAIN Append(sent[p], m) = 1..Len(sent[p]) + 1
          /\ \A i \in 1..Len(sent[p]) : Append(sent[p], m)[i] = sent[p][i]
      BY <3>1, <3>5, AppendProperties, LenProperties
    <3>4. /\ sent'[p] = Append(sent[p], m)
          /\ \A q \in Peer : q # p => sent'[q] = sent[q]
      BY <3>2 DEF Sound, TypeOK
    <3> QED
      BY <3>3, <3>4 DEF SaysShow
  <2> QED
    BY <2>1, <2>2 DEF Dial, Leave
<1> QED
  BY <1>1, <1>2, AnswersQuiet DEF Holds, Answer, LastRun

LEMMA AnswersEpoll ==
  ASSUME Sound, Answers, EpollWait
  PROVE  Answers'
<1>1. /\ batch' = Ready /\ run.at = "loop"
      /\ UNCHANGED <<sent, conn, Clients, run, stale, got, ran>>
  BY DEF EpollWait, AtLoop, outside, slots, history
<1>2. \A fd \in Fd : <<fd, "out">> \in Ready => armed[fd] = "out"
  BY Numbers DEF Ready
<1>3. \A fd \in Fd : armed'[fd] = "out" => armed[fd] = "out"
  BY DEF EpollWait, Disarmed
<1>4. \A p \in Peer : SaysShow(p) => SaysShow(p)'
  BY <1>1 DEF SaysShow
<1> QED
  BY <1>1, <1>2, <1>3, <1>4, AnswersQuiet DEF Holds, Answer, LastRun

LEMMA AnswersRead ==
  ASSUME Sound, Answers, NEW fd \in Fd, ReadData(fd) \/ ReadNothing(fd)
  PROVE  Answers'
<1>1. /\ run.at = "loop"
      /\ run'.client = fd /\ run'.at \in {"find", "arm"}
      /\ conn[fd] \in stale \/ run'.at = "find"
      /\ UNCHANGED <<conn, armed, sent, got, ran, stale>>
      /\ \A g \in Fd : Clients'[g].bufferWrite = Clients[g].bufferWrite
  BY ReadEffect
<1>2. \A g \in Fd : <<g, "out">> \in batch' => <<g, "out">> \in batch
  BY ReadEffect
<1>3. \A p \in Peer : SaysShow(p) => SaysShow(p)'
  BY <1>1 DEF SaysShow
<1> QED
  BY <1>1, <1>2, <1>3, AnswersQuiet DEF Holds, Answer, LastRun

LEMMA AnswersClose ==
  ASSUME Sound, Answers, CronFollower \/ \E fd \in Fd : ReadFails(fd)
  PROVE  Answers'
<1>1. /\ UNCHANGED <<sent, run, got, ran, stale, crashed>>
      /\ \A g \in Fd : conn'[g] # Nobody =>
           /\ conn'[g] = conn[g] /\ armed'[g] = armed[g] /\ Clients'[g] = Clients[g]
           /\ <<g, "out">> \in batch' <=> <<g, "out">> \in batch
  BY CloseEffect
<1>2. \A p \in Peer : SaysShow(p) => SaysShow(p)'
  BY <1>1 DEF SaysShow
<1> QED
  BY <1>1, <1>2, AnswersQuiet, Numbers DEF Holds, Answer, LastRun

LEMMA AnswersFind ==
  ASSUME Sound, Answers, FindCommand
  PROVE  Answers'
<1>1. /\ run.at = "find" /\ run'.at = "call" /\ run'.client = run.client
      /\ run'.todo = run.todo
      /\ UNCHANGED <<sent, conn, armed, batch, stale, got, ran>>
  BY DEF FindCommand, Running, outside, kernel, history, Sound, TypeOK
<1>2. /\ \A g \in Fd : Clients'[g].bufferWrite = Clients[g].bufferWrite
      /\ Clients'[run.client].argv1 = Argv1(Head(run.todo))
  BY SoundFindCommand
<1>3. \A p \in Peer : SaysShow(p) => SaysShow(p)'
  BY <1>1 DEF SaysShow
<1> QED
  BY <1>1, <1>2, <1>3, AnswersQuiet DEF Holds, Answer, LastRun

LEMMA AnswersArm ==
  ASSUME Sound, Answers, ArmAgain
  PROVE  Answers'
<1>1. /\ run.at = "arm" /\ ~crashed /\ run' = Idle /\ run'.at = "loop"
      /\ armed' = IF Slot.fdSock = -1 THEN armed
                  ELSE [armed EXCEPT ![run.client] = Awaits(run.client)]
      /\ UNCHANGED <<sent, conn, Clients, batch, stale, got, ran>>
  BY DEF ArmAgain, Running, Idle, outside, slots, history
<1>2. /\ \A g \in Fd : g # run.client => armed'[g] = armed[g]
      /\ armed'[run.client] = "out" =>
           armed[run.client] = "out" \/ Clients[run.client].argv1 # "onetime"
  BY <1>1 DEF Awaits, Sound, TypeOK
<1>3. \A p \in Peer : SaysShow(p) => SaysShow(p)'
  BY <1>1 DEF SaysShow
<1> QED
  BY <1>1, <1>2, <1>3, AnswersQuiet DEF Holds, Answer, LastRun, Argv1

LEMMA AnswersAccept ==
  ASSUME Sound, Answers, Accept
  PROVE  Answers'
<1>1. /\ run.at = "loop" /\ UNCHANGED <<sent, run, got, ran>>
      /\ \A fd \in Fd, w \in {"in", "out"} : <<fd, w>> \in batch' <=> <<fd, w>> \in batch
  BY Numbers DEF Accept, Serve, AtLoop
<1>2. \A p \in Peer : SaysShow(p) => SaysShow(p)'
  BY <1>1 DEF SaysShow
<1>3. CASE Free = {}
  <2>1. UNCHANGED <<conn, armed, Clients, stale>>
    BY <1>3 DEF Accept, kernel, slots
  <2>2. ASSUME NEW p \in Peer, NEW g \in Fd, Holds(g, p) PROVE Holds(g, p)'
    BY <1>1, <2>1, <2>2 DEF Holds, Answer, LastRun
  <2> QED
    BY <1>1, <1>2, <2>1, <2>2, AnswersQuiet
<1>4. CASE Free # {}
  <2>1. PICK fd \in Fd : Lowest(fd) /\ InitClient(Clients, fd, Head(backlog), "user")
    BY <1>4 DEF Accept
  <2>2. /\ Head(backlog) \in Peer
        /\ \A g \in Fd : conn[g] # Head(backlog)
    <3>1. backlog # <<>> /\ backlog \in Seq(User)
      BY DEF Accept, Serve, Sound, TypeOK, OneEach
    <3>2. 1 \in DOMAIN backlog /\ Head(backlog) = backlog[1] /\ Head(backlog) \in User
      BY <3>1
    <3> QED
      BY <3>2, Numbers DEF Sound, OneEach
  <2>3. Clients \in [Fd -> RedisClient]
    BY DEF Sound, TypeOK
  <2>4. /\ stale \subseteq stale'
        /\ conn'[fd] = Head(backlog) /\ armed'[fd] = "in"
        /\ \A g \in Fd : g # fd => /\ conn'[g] = conn[g] /\ armed'[g] = armed[g]
                                   /\ Clients'[g] = Clients[g]
        /\ \A w \in {"in", "out"} : <<fd, w>> \in batch => Head(backlog) \in stale'
    BY <2>1, <2>2, <2>3, Opening
  <2>5. ASSUME NEW p \in Peer \ stale', NEW g \in Fd, conn'[g] = p, conn[g] = p => Holds(g, p)
        PROVE  Holds(g, p)'
    <3>1. CASE g = fd
      BY <1>1, <2>4, <2>5, <3>1 DEF Holds
    <3>2. CASE g # fd
      BY <1>1, <2>4, <2>5, <3>2 DEF Holds, Answer, LastRun
    <3> QED
      BY <3>1, <3>2
  <2> QED
    BY <1>1, <1>2, <2>4, <2>5, AnswersQuiet
<1> QED
  BY <1>3, <1>4

(* What p gets next comes after what it got. *)
LEMMA RepliesGrow ==
  ASSUME TypeOK, Flow, NEW p \in Peer \ stale, Replies(p), ran[p] # <<>>,
         \A i \in DOMAIN got[p] : got[p][i].no < LastRun(p).no,
         LastRun(p).kind # "once", UNCHANGED ran, got'[p] = got[p] \o <<LastRun(p)>>
  PROVE  Replies(p)'
<1> DEFINE m == LastRun(p)
<1>1. m \in Packet /\ m.from = p /\ m.no \in Nat
  <2>1. /\ ran[p] \in Seq(Packet) /\ Len(ran[p]) \in Nat /\ Len(ran[p]) # 0
        /\ DOMAIN ran[p] = 1..Len(ran[p])
    BY LenProperties, EmptySeq DEF TypeOK
  <2>2. Len(ran[p]) \in DOMAIN ran[p] /\ m = ran[p][Len(ran[p])] /\ m \in Packet
    BY <2>1, ElementOfSeq DEF LastRun
  <2>3. m.no \in DOMAIN sent[p] /\ sent[p][m.no] = m
    BY <2>2, RanOrdered DEF Ordered
  <2> QED
    BY <2>2, <2>3, FlowParts, PacketFields DEF SentOwn
<1>2. LastRun(p)' = m
  BY DEF LastRun
<1> HIDE DEF m
<1>3. got[p] \in Seq(Packet)
  BY DEF TypeOK
<1>4. got'[p] = Append(got[p], m)
  BY <1>1, <1>3, AppendIsConcat DEF m
<1>5. /\ Len(got[p]) \in Nat /\ DOMAIN got[p] = 1..Len(got[p])
      /\ DOMAIN got'[p] = 1..Len(got[p]) + 1
      /\ \A i \in 1..Len(got[p]) : got'[p][i] = got[p][i]
      /\ got'[p][Len(got[p]) + 1] = m
  BY <1>1, <1>3, <1>4, AppendProperties, LenProperties
<1>6. \A i \in 1..Len(got[p]) : got[p][i].no < m.no /\ got[p][i].no \in Nat
  BY <1>3, <1>5, ElementOfSeq, PacketFields DEF m
<1>7. m.kind # "once"
  BY DEF m
<1>8. GetsOwn(p)'
  BY <1>1, <1>5, <1>6, <1>7 DEF Replies, GetsOwn
<1>9. \A i \in DOMAIN got'[p] : got'[p][i].no <= m.no
  BY <1>1, <1>5, <1>6
<1> QED
  BY <1>2, <1>8, <1>9 DEF Replies

LEMMA AnswersWrite ==
  ASSUME Sound, Flow, Answers, NEW fd \in Fd, ClientWrite(fd)
  PROVE  Answers'
<1>1. /\ batch' = batch \ {<<fd, "out">>} /\ <<fd, "out">> \in batch
      /\ run.at = "loop"
      /\ UNCHANGED <<sent, conn, Clients, run, ran, stale>>
  BY DEF ClientWrite, Serve, AtLoop, outside, slots
<1>2. \A p \in Peer : SaysShow(p) => SaysShow(p)'
  BY <1>1 DEF SaysShow
<1>3. CASE UNCHANGED <<got, armed>>
  BY <1>1, <1>2, <1>3, AnswersQuiet DEF Holds, Answer, LastRun
<1>4. CASE /\ Clients[fd].fdSock = fd
           /\ got' = [got EXCEPT ![conn[fd]] = got[conn[fd]] \o Clients[fd].bufferWrite]
           /\ armed' = [armed EXCEPT ![fd] = "in"]
  <2>1. /\ conn[fd] \in Peer
        /\ \A g \in Fd : conn[g] = conn[fd] => g = fd
    BY <1>4, Numbers DEF Sound, SlotsMatch, OneEach, TypeOK
  <2>2. /\ got'[conn[fd]] = got[conn[fd]] \o Clients[fd].bufferWrite
        /\ \A p \in Peer : p # conn[fd] => got'[p] = got[p]
        /\ armed'[fd] = "in" /\ \A g \in Fd : g # fd => armed'[g] = armed[g]
    BY <1>4, <2>1 DEF Sound, TypeOK
  <2>3. ASSUME NEW p \in Peer \ stale', ~SaysShow(p) PROVE Replies(p)'
    <3>1. Replies(p)
      BY <1>1, <2>3 DEF Answers
    <3>2. CASE p # conn[fd]
      BY <1>1, <2>2, <3>1, <3>2 DEF Replies, GetsOwn, LastRun
    <3>3. CASE p = conn[fd]
      <4>1. Answer(fd, p) /\ LastRun(p).kind # "once"
        BY <1>1, <2>3, <3>3 DEF Answers, Holds
      <4> QED
        BY <1>1, <2>2, <2>3, <3>1, <3>3, <4>1, RepliesGrow DEF Answer, Sound
    <3> QED
      BY <3>2, <3>3
  <2>4. ASSUME NEW p \in Peer \ stale', NEW g \in Fd, ~SaysShow(p), conn'[g] = p
        PROVE  Holds(g, p)'
    <3>1. Holds(g, p)
      BY <1>1, <2>4 DEF Answers
    <3>2. CASE g = fd
      BY <1>1, <2>2, <3>2 DEF Holds
    <3>3. CASE g # fd
      BY <1>1, <2>1, <2>2, <2>4, <3>1, <3>3 DEF Holds, Answer, LastRun
    <3> QED
      BY <3>2, <3>3
  <2> QED
    BY <1>1, <1>2, <2>3, <2>4, AnswersBy
<1> QED
  BY <1>3, <1>4 DEF ClientWrite

LEMMA AnswersHandler ==
  ASSUME Sound, OneWait, Flow, Answers, Call \/ ConnectFails \/ \E b \in Link : ConnectServer(b)
  PROVE  Answers'
<1> DEFINE m == Head(run.todo)
<1>1. /\ UNCHANGED <<stream, sent, batch, got>> /\ stale \subseteq stale'
      /\ \A g \in Fd : conn[g] # Nobody =>
           /\ conn'[g] = conn[g] /\ armed'[g] = armed[g]
           /\ Clients'[g].argv1 = Clients[g].argv1
           /\ g # run.client => Clients'[g].bufferWrite = Clients[g].bufferWrite
      /\ \A g \in Fd : conn[g] = Nobody /\ conn'[g] # Nobody =>
           /\ armed'[g] = "in"
           /\ \A w \in {"in", "out"} : <<g, w>> \in batch => conn'[g] \in stale'
           /\ g = run.client => conn'[g] \in stale'
      /\ conn[run.client] # Nobody /\ Slot.name \notin stale /\ ~crashed' /\ m.kind # "show" =>
           Clients'[run.client].bufferWrite = <<m>>
  BY HandlerEffect
<1>2. /\ run.at = "call" /\ ~crashed /\ run.todo # <<>> /\ run.todo \in Seq(Packet)
      /\ m \in Packet /\ Tail(run.todo) \in Seq(Packet)
      /\ run'.client = run.client /\ run'.at \in {"find", "arm"}
      /\ ran' = [ran EXCEPT ![Slot.name] = Append(ran[Slot.name], m)]
      /\ run.client \in Fd
  BY HandlerEffect, CalledRun DEF Sound, TypeOK
<1> HIDE DEF m
<1>3. \A p \in Peer : SaysShow(p) => SaysShow(p)'
  BY <1>1 DEF SaysShow
<1>4. \A p \in Peer : p # Slot.name => ran'[p] = ran[p]
  BY <1>2 DEF Sound, TypeOK
<1>5. ASSUME NEW p \in Peer \ stale, p = Slot.name, ~SaysShow(p)
      PROVE  /\ conn[run.client] = p /\ m.kind # "show" /\ m.no \in Nat
             /\ ran'[p] # <<>> /\ LastRun(p)' = m
             /\ ran[p] # <<>> => LastRun(p).no < m.no /\ LastRun(p).no \in Nat
  <2>1. conn[run.client] = p
    BY <1>2, <1>5 DEF Sound, RunAlive, SlotsMatch, Slot
  <2>2. /\ ran[p] \in Seq(Packet) /\ stream[p] \in Seq(Packet) /\ sent[p] \in Seq(Packet)
        /\ ran'[p] = Append(ran[p], m)
    BY <1>2, <1>5 DEF Sound, TypeOK
  <2>3. Append(ran[p], m) \in Seq(Packet) /\ Tail(run.todo) \o stream[p] \in Seq(Packet)
    BY <1>2, <2>2, AppendProperties, ConcatClosed
  <2>4. Ordered(Append(ran[p], m), sent[p])
    <3> DEFINE r == Append(ran[p], m)
               t == Tail(run.todo) \o stream[p]
    <3>1. r \o t = ran[p] \o (run.todo \o stream[p])
      <4>1. ran[p] \in Seq(Packet) /\ stream[p] \in Seq(Packet)
        BY <2>2
      <4>2. Append(ran[p], Head(run.todo)) \o (Tail(run.todo) \o stream[p])
              = ran[p] \o (run.todo \o stream[p])
        <5> DEFINE a == ran[p]
                   q == stream[p]
                   todo == run.todo
        <5>1. a \in Seq(Packet) /\ q \in Seq(Packet) /\ todo \in Seq(Packet) /\ todo # <<>>
          BY <1>2, <4>1
        <5> HIDE DEF a, q, todo
        <5>2. Append(a, Head(todo)) \o (Tail(todo) \o q) = a \o (todo \o q)
          BY <5>1, HeadMoves
        <5> QED
          BY <5>2 DEF a, q, todo
      <4> QED
        BY <4>2 DEF m
    <3>2. Due(p) = r \o t
      BY <1>5, <3>1 DEF Due, Todo
    <3>3. Ordered(Due(p), sent[p])
      BY FlowParts DEF FlowOf
    <3>4. r \in Seq(Packet) /\ t \in Seq(Packet)
      BY <2>3
    <3> HIDE DEF r, t
    <3>5. Ordered(r, sent[p])
      BY <2>2, <3>2, <3>3, <3>4, PrefixKeeps
    <3> QED
      BY <3>5 DEF r
  <2>5. /\ Len(ran[p]) \in Nat /\ DOMAIN Append(ran[p], m) = 1..Len(ran[p]) + 1
        /\ Len(Append(ran[p], m)) = Len(ran[p]) + 1
        /\ \A i \in 1..Len(ran[p]) : Append(ran[p], m)[i] = ran[p][i]
        /\ Append(ran[p], m)[Len(ran[p]) + 1] = m
    BY <1>2, <2>2, AppendProperties, LenProperties
  <2>6. LastRun(p)' = m /\ ran'[p] # <<>>
    <3>1. LastRun(p)' = m
      BY <2>2, <2>5 DEF LastRun
    <3>2. Len(ran'[p]) # 0
      BY <2>2, <2>5
    <3>3. Len(<<>>) = 0
      OBVIOUS
    <3> QED
      BY <3>1, <3>2, <3>3
  <2>7. m.no \in DOMAIN sent[p] /\ sent[p][m.no] = m
    BY <2>4, <2>5 DEF Ordered
  <2>8. ASSUME ran[p] # <<>> PROVE LastRun(p).no < m.no /\ LastRun(p).no \in Nat
    <3>1. Len(ran[p]) \in 1..Len(ran[p])
      BY <2>2, <2>5, <2>8, EmptySeq
    <3>2. LastRun(p) = Append(ran[p], m)[Len(ran[p])]
      BY <2>5, <3>1 DEF LastRun
    <3>3. LastRun(p).no < m.no
      BY <2>4, <2>5, <3>1, <3>2 DEF Ordered
    <3>4. LastRun(p) \in Packet
      BY <2>2, <3>1, ElementOfSeq DEF LastRun
    <3> QED
      BY <3>3, <3>4, PacketFields
  <2>9. m.kind # "show"
    BY <1>5, <2>7 DEF SaysShow
  <2> QED
    BY <1>2, <2>1, <2>6, <2>8, <2>9, PacketFields
<1>6. \A p \in Peer : \A i \in DOMAIN got[p] : got[p][i].no \in Nat
  <2> SUFFICES ASSUME NEW p \in Peer, NEW i \in DOMAIN got[p] PROVE got[p][i].no \in Nat
    OBVIOUS
  <2>1. got[p] \in Seq(Packet)
    BY DEF Sound, TypeOK
  <2> QED
    BY <2>1, LenProperties, ElementOfSeq, PacketFields
<1>7. ASSUME NEW p \in Peer \ stale, p = Slot.name, ~SaysShow(p), Replies(p)
      PROVE  \A i \in DOMAIN got[p] : got[p][i].no < m.no
  BY <1>5, <1>6, <1>7 DEF Replies
<1>8. ASSUME NEW p \in Peer \ stale', ~SaysShow(p) PROVE Replies(p)'
  <2>1. Replies(p) /\ p \notin stale
    BY <1>1, <1>8 DEF Answers
  <2>2. CASE p # Slot.name
    BY <1>1, <1>4, <2>1, <2>2 DEF Replies, GetsOwn, LastRun
  <2>3. CASE p = Slot.name
    <3>1. \A i \in DOMAIN got[p] : got[p][i].no < m.no
      BY <1>7, <1>8, <2>1, <2>3
    <3>2. ran'[p] # <<>> /\ LastRun(p)' = m /\ m.no \in Nat
      BY <1>5, <1>8, <2>1, <2>3
    <3>3. GetsOwn(p)'
      BY <1>1, <2>1 DEF Replies, GetsOwn
    <3> QED
      BY <1>1, <1>6, <3>1, <3>2, <3>3 DEF Replies
  <2> QED
    BY <2>2, <2>3
<1>9. ASSUME NEW p \in Peer \ stale', NEW g \in Fd, ~SaysShow(p), conn'[g] = p
      PROVE  Holds(g, p)'
  <2>1. p \notin stale /\ p # Nobody
    BY <1>1, Numbers
  <2>2. CASE conn[g] = Nobody
    BY <1>1, <1>2, <1>9, <2>1, <2>2 DEF Holds
  <2>3. CASE conn[g] # Nobody /\ g # run.client
    <3>1. conn[g] = p /\ Holds(g, p)
      BY <1>1, <1>9, <2>1, <2>3 DEF Answers
    <3>2. p # Slot.name
      BY <1>2, <1>5, <1>9, <2>1, <2>3, <3>1 DEF Sound, OneEach
    <3> QED
      BY <1>1, <1>2, <1>4, <2>3, <3>1, <3>2 DEF Holds, Answer, LastRun
  <2>4. CASE conn[g] # Nobody /\ g = run.client
    <3>1. conn[g] = p /\ Holds(g, p) /\ Replies(p)
      BY <1>1, <1>9, <2>1, <2>4 DEF Answers
    <3>2. p = Slot.name
      BY <1>2, <2>4, <3>1 DEF Sound, SlotsMatch, Slot
    <3>3. armed'[g] = "off" /\ <<g, "out">> \notin batch'
      BY <1>1, <1>2, <2>1, <2>4, <3>1 DEF OneWait
    <3>4. /\ ran'[p] # <<>> /\ LastRun(p)' = m /\ m.kind # "show"
          /\ \A i \in DOMAIN got[p] : got[p][i].no < m.no
      BY <1>5, <1>7, <1>9, <2>1, <3>1, <3>2
    <3>5. ~crashed' => Clients'[g].bufferWrite = <<m>>
      BY <1>1, <2>1, <2>4, <3>2, <3>4
    <3>6. Clients'[g].argv1 = Argv1(m)
      BY <1>1, <1>2, <2>4, <3>1 DEF Holds, m
    <3> QED
      BY <1>1, <1>2, <3>3, <3>4, <3>5, <3>6 DEF Holds, Answer, Argv1
  <2> QED
    BY <2>2, <2>3, <2>4
<1> QED
  BY <1>1, <1>3, <1>8, <1>9, AnswersBy

LEMMA AnswersNext ==
  ASSUME Sound, OneWait, Flow, Answers, [Next]_vars
  PROVE  Answers'
<1>1. CASE UNCHANGED vars
  BY <1>1 DEF vars, outside, kernel, slots, loop, history, Answers, Replies, GetsOwn,
     SaysShow, Holds, Answer, LastRun
<1> QED
  BY <1>1, AnswersOutside, AnswersEpoll, AnswersAccept, AnswersRead, AnswersClose,
     AnswersWrite, AnswersFind, AnswersHandler, AnswersArm DEF Next, Loop

(* A peer gets answers to its own packets only, in their order, none twice and *)
(* none to a "onetime", unless it was given a stale descriptor or said show.   *)
THEOREM AnswersToOwn == Spec => []AnswersOwn
<1>1. Init => IInv
  BY SoundInit, WaitInit, FlowInit, AnswersInit DEF IInv
<1>2. IInv /\ [Next]_vars => IInv'
  BY SoundNext, WaitNext, FlowNext, AnswersNext DEF IInv
<1>3. IInv => AnswersOwn
  BY DEF IInv, Answers, Replies, AnswersOwn
<1> QED
  BY <1>1, <1>2, <1>3, PTL DEF Spec

=============================================================================
