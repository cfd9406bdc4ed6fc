--------------------------- MODULE KvReplication ---------------------------
(***************************************************************************)
(* Log replication of the Lab3 key-value store                             *)
(* (Lab3/final2/DistributedKvStore-Server): the write commands, oldCmds    *)
(* (the "replication backlog"), the SYN / ACK packets between the servers  *)
(* of a full mesh, and the change of leader.                               *)
(*                                                                         *)
(* A packet is the list of its arguments.  A user's write has no header,   *)
(* only its command.  SYN and ACK have a header: the type, "onetime" or    *)
(* "times", and an offset into oldCmds.  A SYN ends with the TEXT of the   *)
(* log entry at its offset, so once a follower's entry is sent on the      *)
(* packet has several headers.                                             *)
(*                                                                         *)
(* The text a server logs is string(bufferRead): strtok has put a NUL      *)
(* after the FIRST packet of the batch, so that is the packet it logs,     *)
(* whichever packet of the batch it is executing.                          *)
(***************************************************************************)
EXTENDS Integers, FiniteSets, Sequences

CONSTANTS
  Server,         \* the processes of the mesh
  FirstLeader,    \* the server every other one was made slaveof
  User,           \* the router's connection, as a client of the leader
  Key, Value,     \* of the store
  Nil,            \* what a key without a value reads as
  Workload,       \* the write commands users issue, in this order
  NoCommand,      \* a packet without a command
  MaxUserBatch,   \* commands one read() from the router returns at most
  MaxBatch,       \* packets one read() from a server returns at most
  MaxInFlight,    \* bound: unread packets of a connection, below which the timer adds one
  MaxTimeouts,    \* bound: followers that give their leader up
  MaxCrashes      \* bound: leaders that stop

CommandType == [op : {"set", "del", "flushDb"}, key : Key, value : Value]

ASSUME ReplicationConstants ==
  /\ IsFiniteSet(Server) /\ FirstLeader \in Server /\ User \notin Server
  /\ Nil \notin Value
  /\ Workload \in Seq(CommandType) /\ NoCommand \notin CommandType
  /\ MaxCrashes \in Nat /\ MaxTimeouts \in Nat /\ MaxInFlight \in Nat
  /\ MaxUserBatch \in Nat \ {0} /\ MaxBatch \in Nat \ {0}

VARIABLES
  serverType,  \* role of each server
  clientType,  \* clientType[s][p]: what s takes its connection to p for
  oldCmds,     \* the log of each server: the texts of packets
  store,       \* RedisCommand::store
  requests,    \* requests[s]: commands on the router's connection to s, not yet read
  wire,        \* wire[s][p]: packets written by s that p has not read
  reply,       \* reply[s][p]: bufferWrite, when EPOLLOUT is armed for p
  handler,     \* the batch the loop of s is working through
  applied,     \* history: the commands each server executed
  writes,      \* history: number of commands issued
  timeouts,    \* history: number of followers that gave their leader up
  inherited    \* history: the commands of the leader when it took over

roleVars == <<serverType, clientType>>
dataVars == <<oldCmds, store, applied>>
pastVars == <<timeouts, inherited>>
vars == <<roleVars, dataVars, requests, wire, reply, handler, writes, pastVars>>

---------------------------------------------------------------------------
Header == [type : {"SYN", "ACK", "beMy"}, once : BOOLEAN, off : Nat]

Packet == [hdr : Seq(Header), cmd : CommandType \cup {NoCommand}]

Request(c) == [hdr |-> <<>>, cmd |-> c]

BeMy == [hdr |-> <<[type |-> "beMy", once |-> TRUE, off |-> 0]>>, cmd |-> NoCommand]

Alive(s) == serverType[s] # "down"

Followers(s) == {p \in Server : clientType[s][p] = "follower"}

\* s has not closed its connection to p.
Open(s, p) == clientType[s][p] # "closed"

\* w after s has written m to each server of ps; one that closed its end, or
\* stopped, receives nothing.
Sent(w, s, ps, m) ==
  [w EXCEPT ![s] = [p \in Server |->
     IF p \in ps /\ Open(p, s) THEN Append(w[s][p], m) ELSE w[s][p]]]

Smaller(a, b) == IF a < b THEN a ELSE b

\* heartBeat_send: offsets past the end are cut to the end; a SYN carries the
\* arguments of the entry it points at.
HeartBeat(log, type, once, n) ==
  LET off == Smaller(n, Len(log))
      h   == <<[type |-> type, once |-> once, off |-> off]>>
  IN  IF type = "SYN" /\ off > 0
      THEN [hdr |-> h \o log[off].hdr, cmd |-> log[off].cmd]
      ELSE [hdr |-> h, cmd |-> NoCommand]

\* setCommand, delCommand and flushDbCommand on the store.
Executed(c, st) ==
  [k \in Key |->
     IF c.op = "flushDb" THEN Nil
     ELSE IF k # c.key THEN st[k]
     ELSE IF c.op = "set" THEN c.value ELSE Nil]

Idle(s) == [client |-> s, first |-> BeMy, todo |-> <<>>]

Running(s) == handler[s].todo # <<>>

\* h[i] is the store after the first i commands of cs.
Stores(cs) ==
  {h \in [0..Len(cs) -> [Key -> Value \cup {Nil}]] :
     /\ h[0] = [k \in Key |-> Nil]
     /\ \A i \in 1..Len(cs) : h[i] = Executed(cs[i], h[i - 1])}

\* The mesh has just formed: every other server was made slaveof FirstLeader,
\* which alone has already executed the first n commands.
InitAfter(n) ==
  /\ serverType = [s \in Server |-> IF s = FirstLeader THEN "leader" ELSE "follower"]
  /\ clientType = [s \in Server |-> [p \in Server |->
        IF p = s THEN "closed" ELSE IF p = FirstLeader THEN "leader" ELSE "follower"]]
  /\ oldCmds = [s \in Server |->
        IF s = FirstLeader THEN [i \in 1..n |-> Request(Workload[i])] ELSE <<>>]
  /\ \E h \in Stores(SubSeq(Workload, 1, n)) :
       store = [s \in Server |-> h[IF s = FirstLeader THEN n ELSE 0]]
  /\ applied = [s \in Server |-> IF s = FirstLeader THEN SubSeq(Workload, 1, n) ELSE <<>>]
  /\ writes = n
  /\ timeouts = 0
  /\ requests = [s \in Server |-> <<>>]
  /\ wire = [s \in Server |-> [p \in Server |-> <<>>]]
  /\ reply = [s \in Server |-> [p \in Server |-> <<>>]]
  /\ handler = [s \in Server |-> Idle(s)]
  /\ inherited = <<>>

Init == \E n \in 0..Len(Workload) : InitAfter(n)

---------------------------------------------------------------------------
(* The epoll loop                                                          *)

\* A user's write reaches a leader's socket, through the router.
Issue(s) ==
  /\ writes < Len(Workload)
  /\ serverType[s] = "leader"
  /\ requests' = [requests EXCEPT ![s] = Append(@, Workload[writes + 1])]
  /\ writes' = writes + 1
  /\ UNCHANGED <<roleVars, dataVars, wire, reply, handler, pastVars>>

\* No handler asks whether its server still leads.
ReadRequests(s) ==
  /\ Alive(s) /\ ~Running(s)
  /\ LET q == requests[s]
     IN  \E n \in 1..MaxUserBatch :
           /\ n <= Len(q)
           /\ handler' = [handler EXCEPT ![s] =
                [client |-> User, first |-> Request(q[1]), todo |-> [i \in 1..n |-> Request(q[i])]]]
           /\ requests' = [requests EXCEPT ![s] = SubSeq(q, n + 1, Len(q))]
  /\ UNCHANGED <<roleVars, dataVars, wire, reply, writes, pastVars>>

ReadPackets(s, p) ==
  /\ Alive(s) /\ ~Running(s)
  /\ Open(s, p) /\ reply[s][p] = <<>>
  /\ \E n \in 1..MaxBatch :
       /\ n <= Len(wire[p][s])
       /\ handler' = [handler EXCEPT ![s] =
            [client |-> p, first |-> wire[p][s][1], todo |-> SubSeq(wire[p][s], 1, n)]]
       /\ wire' = [wire EXCEPT ![p][s] = SubSeq(wire[p][s], n + 1, Len(wire[p][s]))]
  /\ UNCHANGED <<roleVars, dataVars, requests, reply, writes, pastVars>>

ClientWrite(s, p) ==
  /\ Alive(s) /\ ~Running(s)
  /\ reply[s][p] # <<>>
  /\ wire' = Sent(wire, s, {p}, Head(reply[s][p]))
  /\ reply' = [reply EXCEPT ![s][p] = <<>>]
  /\ UNCHANGED <<roleVars, dataVars, requests, handler, writes, pastVars>>

\* closeClient: drops what was unread and unsent.
CloseClient(s, p) ==
  /\ clientType' = [clientType EXCEPT ![s][p] = "closed"]
  /\ reply' = [reply EXCEPT ![s][p] = <<>>]
  /\ wire' = [wire EXCEPT ![p][s] = <<>>]

\* read() returned 0: the peer closed its end, or stopped.
ReadEnd(s, p) ==
  /\ Alive(s) /\ ~Running(s)
  /\ Open(s, p) /\ reply[s][p] = <<>>
  /\ ~Open(p, s) /\ wire[p][s] = <<>>
  /\ CloseClient(s, p)
  /\ UNCHANGED <<serverType, dataVars, requests, handler, writes, pastVars>>

\* The next packet of the batch, or the end of runCommand: only the answer to
\* the last packet is armed.  Answers to the user are left out.
FinishPacket(s, answer) ==
  LET h    == handler[s]
      rest == Tail(h.todo)
  IN  /\ handler' = [handler EXCEPT ![s] = IF rest = <<>> THEN Idle(s) ELSE [h EXCEPT !.todo = rest]]
      /\ reply' = IF rest = <<>> /\ h.client # User /\ Open(s, h.client)
                  THEN [reply EXCEPT ![s][h.client] = answer] ELSE reply

---------------------------------------------------------------------------
(* The command handlers                                                    *)

\* string(bufferRead)
Logged(s) == handler[s].first

\* set, del or flushDb: log the text, update the store, send the followers the
\* new end of the log at once.
RunWrite(s, c) ==
  LET log == Append(oldCmds[s], Logged(s))
  IN  /\ oldCmds' = [oldCmds EXCEPT ![s] = log]
      /\ store' = [store EXCEPT ![s] = Executed(c, @)]
      /\ applied' = [applied EXCEPT ![s] = Append(@, c)]
      /\ wire' = Sent(wire, s, Followers(s), HeartBeat(log, "SYN", FALSE, Len(log)))

Handles(s) == Alive(s) /\ Running(s)

\* A write command of a user.
WriteCommand(s) ==
  /\ Handles(s) /\ Head(handler[s].todo).hdr = <<>>
  /\ RunWrite(s, Head(handler[s].todo).cmd)
  /\ FinishPacket(s, <<>>)
  /\ UNCHANGED <<roleVars, requests, writes, pastVars>>

NotOlder(h, n) == h.type = "SYN" /\ h.off > 0 /\ h.off >= n

\* The one offset at which a SYN is executed: that of the next entry.
IsNext(h, n) == h.type = "SYN" /\ h.off = n + 1

\* Every header of the packet, outermost first, passes synResponseCommand.
Unwraps(m, n) == \A i \in DOMAIN m.hdr : IsNext(m.hdr[i], n)

\* The header whose handler runs last: the first one that does not pass.  Its
\* argv[1] decides whether runCommand answers.
StopsAt(m, n) ==
  m.hdr[1 + Cardinality({i \in DOMAIN m.hdr : \A j \in 1..i : IsNext(m.hdr[j], n)})]

Acknowledge(once, n) ==
  [hdr |-> <<[type |-> "ACK", once |-> once, off |-> n]>>, cmd |-> NoCommand]

\* synResponseCommand on the entry that is next: it is executed and the new
\* size acknowledged.  A flushDb leaves argv with one element while argc is
\* stale, so runCommand reads a destroyed argv[1]: it may or may not answer.
SynNext(s) ==
  /\ Handles(s)
  /\ LET m == Head(handler[s].todo)
         n == Len(oldCmds[s])
     IN  /\ m.hdr # <<>> /\ Unwraps(m, n)
         /\ RunWrite(s, m.cmd)
         /\ \E answers \in IF m.cmd.op = "flushDb" THEN BOOLEAN ELSE {TRUE} :
              FinishPacket(s, IF answers THEN <<Acknowledge(FALSE, n + 1)>> ELSE <<>>)
  /\ UNCHANGED <<roleVars, requests, writes, pastVars>>

\* synResponseCommand on any other offset: only the own size is acknowledged,
\* "onetime" when both agree.
SynOther(s) ==
  /\ Handles(s)
  /\ LET m == Head(handler[s].todo)
         n == Len(oldCmds[s])
     IN  /\ m.hdr # <<>> /\ Head(m.hdr).type = "SYN" /\ ~Unwraps(m, n)
         /\ StopsAt(m, n).type # "beMy"
         /\ FinishPacket(s, IF StopsAt(m, n).once THEN <<>>
                            ELSE <<Acknowledge(Head(m.hdr).off = n, n)>>)
  /\ UNCHANGED <<roleVars, dataVars, requests, wire, writes, pastVars>>

SameEntry(h) == h.off

\* The entry to send after an ACK.
EntryAfter(h) == h.off + 1

\* ackResponseCommand: the entry after the acknowledged one, or the last.
AckResponse(s) ==
  /\ Handles(s)
  /\ LET m   == Head(handler[s].todo)
         h   == Head(m.hdr)
         log == oldCmds[s]
     IN  /\ m.hdr # <<>> /\ h.type = "ACK"
         /\ FinishPacket(s,
              IF h.once THEN <<>>
              ELSE IF h.off = Len(log)
              THEN <<HeartBeat(log, "SYN", TRUE, Len(log))>>
              ELSE <<HeartBeat(log, "SYN", FALSE, EntryAfter(h))>>)
  /\ UNCHANGED <<roleVars, dataVars, requests, wire, writes, pastVars>>

\* beMyCommand with "follower": the sender is the leader now.  It also runs when
\* a SYN unwraps to the text of an entry that was logged as a beMy packet.
BeMyFollower(s) ==
  /\ Handles(s)
  /\ LET m == Head(handler[s].todo)
         n == Len(oldCmds[s])
     IN  m.hdr # <<>> /\ ~Unwraps(m, n) /\ StopsAt(m, n).type = "beMy"
  /\ serverType' = [serverType EXCEPT ![s] = "follower"]
  /\ clientType' = [clientType EXCEPT ![s] = [p \in Server |->
       IF @[p] = "closed" THEN "closed"
       ELSE IF p = handler[s].client THEN "leader" ELSE "follower"]]
  /\ FinishPacket(s, <<>>)
  /\ UNCHANGED <<dataVars, requests, wire, writes, pastVars>>

---------------------------------------------------------------------------
(* serverCron and the change of leader                                     *)

\* Every two seconds a leader sends its followers the end of its log; the
\* signal may land between two packets of a batch.
ServerCron(s) ==
  /\ serverType[s] = "leader"
  /\ \A p \in Followers(s) : Len(wire[s][p]) + Len(wire[p][s]) < MaxInFlight
  /\ wire' = Sent(wire, s, Followers(s),
                  HeartBeat(oldCmds[s], "SYN", FALSE, Len(oldCmds[s])))
  /\ UNCHANGED <<roleVars, dataVars, requests, reply, handler, writes, pastVars>>

\* The leader's process stops.  What it had written still arrives; requests it
\* had not read are lost with its connection.
Crash(s) ==
  /\ serverType[s] = "leader"
  /\ Cardinality({p \in Server : ~Alive(p)}) < MaxCrashes
  /\ serverType' = [serverType EXCEPT ![s] = "down"]
  /\ clientType' = [clientType EXCEPT ![s] = [p \in Server |-> "closed"]]
  /\ handler' = [handler EXCEPT ![s] = Idle(s)]
  /\ reply' = [reply EXCEPT ![s] = [p \in Server |-> <<>>]]
  /\ wire' = [p \in Server |-> [wire[p] EXCEPT ![s] = <<>>]]
  /\ requests' = [requests EXCEPT ![s] = <<>>]
  /\ UNCHANGED <<dataVars, writes, pastVars>>

\* A follower has not heard of a leader for time2Candidate, because it stopped
\* or only because it was slow: it closes its connection to it.  A batch from
\* the leader has just renewed the time.
CronFollower(s) ==
  LET leaders == {p \in Server : clientType[s][p] = "leader"}
  IN  /\ serverType[s] = "follower"
      /\ timeouts < MaxTimeouts
      /\ ~(Running(s) /\ handler[s].client \in leaders)
      /\ timeouts' = timeouts + 1
      /\ serverType' = [serverType EXCEPT ![s] = "candidate"]
      /\ IF leaders = {} THEN UNCHANGED <<clientType, reply, wire>>
         ELSE \E p \in leaders : CloseClient(s, p)
      /\ UNCHANGED <<dataVars, requests, handler, writes, inherited>>

\* A candidate has won an election (KvElection says how; the votes look neither
\* at logs nor at whether a leader lives): it tells its followers.
CronCandidate(s) ==
  /\ serverType[s] = "candidate"
  /\ serverType' = [serverType EXCEPT ![s] = "leader"]
  /\ wire' = Sent(wire, s, Followers(s), BeMy)
  /\ inherited' = applied[s]
  /\ UNCHANGED <<clientType, dataVars, requests, reply, handler, writes, timeouts>>

Next ==
  \/ \E s \in Server :
       \/ Issue(s) \/ ReadRequests(s) \/ WriteCommand(s) \/ SynNext(s) \/ SynOther(s)
       \/ AckResponse(s) \/ BeMyFollower(s) \/ ServerCron(s) \/ Crash(s)
       \/ CronFollower(s) \/ CronCandidate(s)
  \/ \E s, p \in Server : ReadPackets(s, p) \/ ClientWrite(s, p) \/ ReadEnd(s, p)

Spec == Init /\ [][Next]_vars

\* The epoll loop serves every ready connection in turn, runs a batch to its
\* end and writes what it armed; the timer fires for ever.
Fairness ==
  \A s \in Server :
    /\ WF_vars(ReadRequests(s))
    /\ WF_vars(WriteCommand(s) \/ SynNext(s) \/ SynOther(s) \/ AckResponse(s) \/ BeMyFollower(s))
    /\ SF_vars(ServerCron(s))
    /\ \A p \in Server \ {s} : SF_vars(ReadPackets(s, p)) /\ SF_vars(ClientWrite(s, p))

FairSpec == Spec /\ Fairness

---------------------------------------------------------------------------
(* Properties                                                              *)

HandlerType == [client : Server \cup {User}, first : Packet, todo : Seq(Packet)]

\* Every variable keeps its type.
TypeOK ==
  /\ serverType \in [Server -> {"leader", "follower", "candidate", "down"}]
  /\ clientType \in [Server -> [Server -> {"leader", "follower", "closed"}]]
  /\ oldCmds \in [Server -> Seq(Packet)]
  /\ store \in [Server -> [Key -> Value \cup {Nil}]]
  /\ requests \in [Server -> Seq(CommandType)]
  /\ wire \in [Server -> [Server -> Seq(Packet)]]
  /\ reply \in [Server -> [Server -> Seq(Packet)]]
  /\ handler \in [Server -> HandlerType]
  /\ applied \in [Server -> Seq(CommandType)]
  /\ writes \in Nat /\ timeouts \in Nat
  /\ inherited \in Seq(CommandType)

Replicas == Server \ {FirstLeader}

Replicated == INSTANCE ReplicatedLog WITH
  Command <- CommandType,
  Replica <- Replicas,
  log <- applied[FirstLeader],
  copy <- [s \in Replicas |-> applied[s]]

\* Until a follower gives the first leader up (MaxTimeouts = 0: the steady state,
\* without a change of leader) every follower executes the leader's commands, in
\* order and each once, whatever is coalesced, repeated or crosses on the wires
\* between servers: offsets and their checks make the SYN traffic idempotent.
ReplicatesLog == Replicated!Spec

\* In the steady state, and with the leader alive, what the leader has executed
\* every follower executes in the end: a lost answer is made up for by the next
\* heartbeat.
FollowersCatchUp ==
  \A s \in Replicas : \A n \in DOMAIN Workload :
    Len(applied[FirstLeader]) >= n ~> Len(applied[s]) >= n

Agree(a, b) == \A i \in DOMAIN a \cap DOMAIN b : a[i] = b[i]

\* No server, the old leader among them, has executed, at any position, another
\* command than the one the new leader took over at that position: what a change
\* of leader leaves in flight, or logged under a wrong text, is never executed out
\* of place.  It says nothing of the positions after those.
TakeoverAgrees ==
  \A s \in Server : Agree(applied[s], inherited)

\* Every command has one place: whoever executes it, however often it is sent,
\* passed on by other followers or logged under another packet's text, executes
\* it at the same position, and so once.  It holds through changes of leader and
\* with two leaders at work, where servers may disagree on what a position holds
\* (HistoriesAgree).  Said of workloads that repeat no command.
OnePlace ==
  \A s, p \in Server : \A i \in DOMAIN applied[s], j \in DOMAIN applied[p] :
    applied[s][i] = applied[p][j] => i = j

\* Two living servers that executed equally many commands hold the same data.
StoresAgree ==
  \A s, p \in Server :
    Alive(s) /\ Alive(p) /\ Len(applied[s]) = Len(applied[p]) => store[s] = store[p]

\* No two living servers have executed different commands at one position.
HistoriesAgree ==
  \A s, p \in Server : Alive(s) /\ Alive(p) => Agree(applied[s], applied[p])
============================================================================
