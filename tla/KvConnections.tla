--------------------------- MODULE KvConnections ---------------------------
(***************************************************************************)
(* The connections of a Lab3 server                                        *)
(* (Lab3/final2/DistributedKvStore-Server): serverRun's epoll loop, the    *)
(* slot RedisClient of each descriptor, one-shot arming, and the timer     *)
(* that closes the leader's connection from inside a signal handler.       *)
(*                                                                         *)
(* The kernel's side is conn, armed, stream and end; the server's is       *)
(* Clients, nums_Client and the two tables.  The loop takes a batch of     *)
(* events and serves them in any order; whatever a later event of the      *)
(* batch was about may have changed meanwhile.  The timer may land between *)
(* any two steps of the loop.                                              *)
(*                                                                         *)
(* A packet is one command of a peer; what the commands do to the store    *)
(* is KvReplication's.  Peers are users, which connect to the server, and  *)
(* the connections to the server that a user's slaveof makes this one      *)
(* follow: one for each slaveof, all under that server's address.          *)
(* Elections and followers of this server are left to KvElection and       *)
(* KvMembership.                                                           *)
(***************************************************************************)
EXTENDS Integers, FiniteSets, Sequences

CONSTANTS
  User,          \* sessions of users: each connects once
  Link,          \* connections to the server to follow, at once
  Nobody,        \* no peer: a free descriptor, a slot never used
  FirstFd,       \* the first descriptor after fd_server
  MAX_EVENT,     \* slots of Clients; a slot is found by its descriptor
  Kind,          \* what peers send
  MaxPackets,    \* bound: packets the peers send
  MaxSlaveof,    \* bound: slaveof packets among them
  MaxGone        \* bound: connections that have ended when a peer leaves

ASSUME ConnectionConstants ==
  /\ IsFiniteSet(User) /\ IsFiniteSet(Link) /\ User \cap Link = {}
  /\ Nobody \notin User \cup Link
  /\ FirstFd \in Nat \ {0} /\ MAX_EVENT \in Nat /\ FirstFd < MAX_EVENT
  /\ Kind \subseteq {"ask", "once", "show", "slaveof"}
  /\ MaxPackets \in Nat /\ MaxSlaveof \in Nat /\ MaxGone \in Nat

Peer == User \cup Link

\* Descriptors that have a slot, and the listening one before them.
Fd        == FirstFd .. MAX_EVENT - 1
fd_server == FirstFd - 1

\* An "ask" is answered; "once" has "onetime" as its first argument (a get of
\* the key "onetime", an ACK, a SYN), "show" is showServer, whose handler fills
\* no buffer.
Packet == [from : Peer, no : Nat \ {0}, kind : Kind]

\* A slot of Clients; cmd is the pointer, argv1 what the answer depends on.  The
\* name of a slot says whose it is; to the tables, links have the same name.
RedisClient ==
  [fdSock : Fd \cup {-1}, name : Peer \cup {Nobody}, clientType : {"user", "leader"},
   cmd : {"nullptr", "command"}, argv1 : {"onetime", "other"},
   bufferRead : Seq(Packet), bufferWrite : Seq(Packet)]

VARIABLES
  conn,          \* conn[fd]: the peer the descriptor is connected to
  leaked,        \* descriptors open that no slot knows
  armed,         \* armed[fd]: the event epoll watches for, "off" after it fired
  stream,        \* stream[p]: packets of p that have arrived unread
  end,           \* end[p]: what became of the peer's side
  sent,          \* history: sent[p], the packets p wrote
  backlog,       \* peers that wait to be accepted
  Clients,       \* the slots
  nums_Client,   \* RedisClient::nums_Client
  userClients,   \* tables of <<name, descriptor>>
  leaderClients,
  serverType,    \* leader (at the start), follower, candidate
  fresh,         \* lastChatWithLeader was set since epoll_wait
  batch,         \* events of the batch not served yet
  run,           \* runCommand: whose, the tokens left, how far
  got,           \* history: got[p], the answers sent to p
  ran,           \* history: ran[p], the packets run in p's name
  stale,         \* history: peers given a descriptor with an old event pending
  crashed        \* the process is gone, or writes past Clients

outside == <<stream, end, sent, backlog>>
kernel == <<conn, leaked, armed>>
slots  == <<Clients, nums_Client, userClients, leaderClients>>
loop == <<serverType, fresh, batch, run>>
history == <<got, ran, stale>>
vars == <<outside, kernel, slots, loop, history, crashed>>

---------------------------------------------------------------------------

Unused == [fdSock |-> -1, name |-> Nobody, clientType |-> "user", cmd |-> "nullptr",
           argv1 |-> "other", bufferRead |-> <<>>, bufferWrite |-> <<>>]

Idle == [client |-> FirstFd, todo |-> <<>>, at |-> "loop"]

Init ==
  /\ conn = [fd \in Fd |-> Nobody]
  /\ leaked = {}
  /\ armed = [fd \in Fd |-> "off"]
  /\ stream = [p \in Peer |-> <<>>]
  /\ end = [p \in Peer |-> "new"]
  /\ sent = [p \in Peer |-> <<>>]
  /\ backlog = <<>>
  /\ Clients = [fd \in Fd |-> Unused]
  /\ nums_Client = 0
  /\ userClients = {} /\ leaderClients = {}
  /\ serverType = "leader"
  /\ fresh = FALSE
  /\ batch = {}
  /\ run = Idle
  /\ got = [p \in Peer |-> <<>>]
  /\ ran = [p \in Peer |-> <<>>]
  /\ stale = {}
  /\ crashed = FALSE

---------------------------------------------------------------------------
(* Peers and the network                                                   *)

Dial(u) ==
  /\ end[u] = "new"
  /\ end' = [end EXCEPT ![u] = "open"]
  /\ backlog' = Append(backlog, u)
  /\ UNCHANGED <<stream, sent, kernel, slots, loop, history, crashed>>

SentAll == {e \in Peer \X (1..MaxPackets) : e[2] \in DOMAIN sent[e[1]]}

Asked(kind) == {e \in SentAll : sent[e[1]][e[2]].kind = kind}

\* Users send what they like; the leader sends SYNs.
Send(p, kind) ==
  /\ end[p] = "open" /\ Cardinality(SentAll) < MaxPackets
  /\ kind = "slaveof" => Cardinality(Asked("slaveof")) < MaxSlaveof
  /\ p \in Link => kind \in {"ask", "once"}
  /\ LET m == [from |-> p, no |-> Len(sent[p]) + 1, kind |-> kind]
     IN  /\ sent' = [sent EXCEPT ![p] = Append(@, m)]
         /\ stream' = [stream EXCEPT ![p] = Append(@, m)]
  /\ UNCHANGED <<end, backlog, kernel, slots, loop, history, crashed>>

Gone == {p \in Peer : end[p] \notin {"new", "open"}}

\* The peer closes.  What it sent can still be read; once its side answers with
\* a reset, writes fail.
Leave(p) ==
  /\ \E e \in {"fin", "reset"} :
       /\ (end[p] = "open" /\ Cardinality(Gone) < MaxGone) \/ (end[p] = "fin" /\ e = "reset")
       /\ end' = [end EXCEPT ![p] = e]
  /\ UNCHANGED <<stream, sent, backlog, kernel, slots, loop, history, crashed>>

---------------------------------------------------------------------------
(* epoll (Net.cpp) and descriptors                                         *)

\* What epoll_wait reports: the listening socket as long as somebody waits, and
\* of each descriptor only the event it is armed for.
Ready ==
  LET readable(fd) == stream[conn[fd]] # <<>> \/ end[conn[fd]] # "open"
  IN  (IF backlog = <<>> THEN {} ELSE {<<fd_server, "in">>})
      \cup {<<fd, armed[fd]>> : fd \in
              {f \in Fd : armed[f] = "out" \/ (armed[f] = "in" /\ readable(f))}}

StillArmed(events) == armed

\* EPOLLONESHOT: a reported event disarms its descriptor.
Disarmed(events) == [fd \in Fd |-> IF \E e \in events : e[1] = fd THEN "off" ELSE armed[fd]]

Free == {fd \in Fd : conn[fd] = Nobody} \ leaked

\* The kernel gives out the lowest number.
Lowest(fd) == fd \in Free /\ \A g \in Free : fd <= g

AtLoop == ~crashed /\ run.at = "loop"

\* A batch takes less than the three seconds of the shortest time2Candidate.
EpollWait ==
  /\ AtLoop /\ batch = {} /\ Ready # {}
  /\ batch' = Ready
  /\ armed' = Disarmed(Ready)
  /\ fresh' = FALSE
  /\ UNCHANGED <<outside, conn, leaked, slots, serverType, run, history, crashed>>

Opened(c, fd, p, type) == [c EXCEPT !.fdSock = fd, !.name = p, !.clientType = type]

\* An event of the connection that had fd before is in the batch or being served.
Pending(fd) == (\E e \in batch : e[1] = fd) \/ (run.at # "loop" /\ run.client = fd)

\* initClient: slot fd becomes p's.  What its buffers and argv held of the
\* connection before stays.
InitClient(clients, fd, p, type) ==
  /\ conn' = [conn EXCEPT ![fd] = p]
  /\ armed' = [armed EXCEPT ![fd] = "in"]
  /\ Clients' = [clients EXCEPT ![fd] = Opened(@, fd, p, type)]
  /\ nums_Client' = nums_Client + 1
  /\ stale' = IF Pending(fd) THEN stale \cup {p} ELSE stale

\* Links lead to one address, which is their name.
SameName(p, q) == p = q \/ {p, q} \subseteq Link

\* The entries of a table that erase leaves.
Erased(table, p) == {e \in table : ~SameName(e[1], p)}

\* emplace does nothing where the name is there already.
Emplaced(table, p, fd) ==
  IF \E e \in table : SameName(e[1], p) THEN table ELSE table \cup {<<p, fd>>}

Unchanged(n) == n

OneLess(n) == n - 1

Closed(c) == [c EXCEPT !.fdSock = -1, !.cmd = "nullptr"]

\* closeClient; of an unused slot it does nothing.
CloseClient(fd) ==
  IF Clients[fd].fdSock = -1
  THEN UNCHANGED <<conn, armed, end, stream, slots>>
  ELSE LET p == Clients[fd].name
       IN  /\ conn' = [conn EXCEPT ![fd] = Nobody]
           /\ armed' = [armed EXCEPT ![fd] = "off"]
           /\ end' = [end EXCEPT ![p] = "closed"]
           /\ stream' = [stream EXCEPT ![p] = <<>>]
           /\ Clients' = [Clients EXCEPT ![fd] = Closed(@)]
           /\ nums_Client' = OneLess(nums_Client)
           /\ userClients' = Erased(userClients, p)
           /\ leaderClients' = Erased(leaderClients, p)

---------------------------------------------------------------------------
(* The events of a batch                                                   *)

Serve(fd, what) ==
  /\ AtLoop /\ <<fd, what>> \in batch
  /\ batch' = batch \ {<<fd, what>>}

\* A connection is accepted on the lowest free descriptor.  With all slots taken
\* that is one past Clients: the test of nums_Client comes too late, as
\* descriptors below FirstFd are not clients.
Accept ==
  /\ Serve(fd_server, "in")
  /\ backlog' = Tail(backlog)
  /\ LET u == Head(backlog)
     IN  IF Free = {}
         THEN /\ crashed' = (nums_Client < MAX_EVENT)
              /\ end' = [end EXCEPT ![u] = "closed"]
              /\ UNCHANGED <<kernel, slots, stale>>
         ELSE /\ \E fd \in Fd :
                   /\ Lowest(fd)
                   /\ InitClient(Clients, fd, u, "user")
                   /\ userClients' = userClients \cup {<<u, fd>>}
              /\ UNCHANGED <<leaked, leaderClients, end, crashed>>
  /\ UNCHANGED <<stream, sent, serverType, fresh, run, got, ran>>

\* runCommand on what bufferRead holds; strtok ends its text after the first
\* packet.
RunCommand(fd, tokens) ==
  /\ run' = [client |-> fd, todo |-> tokens, at |-> IF tokens = <<>> THEN "arm" ELSE "find"]
  /\ Clients' = [Clients EXCEPT ![fd].bufferRead =
       IF tokens = <<>> THEN tokens ELSE <<Head(tokens)>>]

NotNoted(fd) == FALSE

\* clientRead sets lastChatWithLeader.
NotesLeader(fd) == Clients[fd].clientType = "leader"

ReadData(fd) ==
  /\ Serve(fd, "in")
  /\ Clients[fd].fdSock = fd /\ stream[conn[fd]] # <<>>
  /\ stream' = [stream EXCEPT ![conn[fd]] = <<>>]
  /\ fresh' = (fresh \/ NotesLeader(fd))
  /\ RunCommand(fd, stream[conn[fd]])
  /\ UNCHANGED <<end, sent, backlog, kernel, nums_Client, userClients, leaderClients,
                 serverType, history, crashed>>

Never(fd) == FALSE

\* read() found the stream at its end.
AtEnd(fd) == end[conn[fd]] # "open"

\* EAGAIN counts as a read: the event was the old connection's.
ReadNothing(fd) ==
  /\ Serve(fd, "in")
  /\ Clients[fd].fdSock = fd /\ stream[conn[fd]] = <<>> /\ ~AtEnd(fd)
  /\ RunCommand(fd, Clients[fd].bufferRead)
  /\ UNCHANGED <<outside, kernel, nums_Client, userClients, leaderClients,
                 serverType, fresh, history, crashed>>

\* The peer closed, or the slot was closed since the event was reported.
ReadFails(fd) ==
  /\ Serve(fd, "in")
  /\ Clients[fd].fdSock = fd => stream[conn[fd]] = <<>> /\ AtEnd(fd)
  /\ CloseClient(fd)
  /\ UNCHANGED <<sent, backlog, leaked, serverType, fresh, run, history, crashed>>

\* clientWrite.  A write that fails, or has nothing to send, leaves the
\* descriptor disarmed: its result is not looked at.
ClientWrite(fd) ==
  /\ Serve(fd, "out")
  /\ LET c == Clients[fd]
     IN  IF c.fdSock = fd /\ c.bufferWrite # <<>> /\ end[conn[fd]] # "reset"
         THEN /\ got' = [got EXCEPT ![conn[fd]] = @ \o c.bufferWrite]
              /\ armed' = [armed EXCEPT ![fd] = "in"]
         ELSE UNCHANGED <<got, armed>>
  /\ UNCHANGED <<outside, conn, leaked, slots, serverType, fresh, run, ran, stale, crashed>>

---------------------------------------------------------------------------
(* runCommand                                                              *)

Running(at) == ~crashed /\ run.at = at

Slot == Clients[run.client]

Argv1(m) == IF m.kind = "once" THEN "onetime" ELSE "other"

Decoded(c, m) == [c EXCEPT !.cmd = "command", !.argv1 = Argv1(m)]

\* The packet is decoded and its command looked up.
FindCommand ==
  /\ Running("find")
  /\ Clients' = [Clients EXCEPT ![run.client] = Decoded(@, Head(run.todo))]
  /\ run' = [run EXCEPT !.at = "call"]
  /\ UNCHANGED <<outside, kernel, nums_Client, userClients, leaderClients,
                 serverType, fresh, batch, history, crashed>>

\* fillBuffer: the answer to m takes the place of what was there.
FillBuffer(m) == [Clients EXCEPT ![run.client].bufferWrite = <<m>>]

Called ==
  /\ Running("call")
  /\ ran' = [ran EXCEPT ![Slot.name] = Append(@, Head(run.todo))]
  /\ run' = [run EXCEPT !.todo = Tail(@), !.at = IF Len(run.todo) = 1 THEN "arm" ELSE "find"]

\* cmd->proc(this), with cmd as closeClient may have left it.
Call ==
  /\ Called /\ Head(run.todo).kind # "slaveof"
  /\ IF Slot.cmd # "nullptr"
     THEN /\ Clients' = IF Head(run.todo).kind = "show" THEN Clients
                        ELSE FillBuffer(Head(run.todo))
          /\ UNCHANGED crashed
     ELSE crashed' = TRUE /\ UNCHANGED Clients
  /\ UNCHANGED <<outside, kernel, nums_Client, userClients, leaderClients,
                 serverType, fresh, batch, got, stale>>

\* slaveofCommand where connect succeeds, for a user, whose slot the timer
\* leaves alone; nobody asks whether there is a connection already.
\* lastChatWithLeader is not set.
ConnectServer(p) ==
  /\ Called /\ Head(run.todo).kind = "slaveof"
  /\ end[p] \in {"new", "closed"}
  /\ end' = [end EXCEPT ![p] = "open"]
  /\ IF Free = {}
     THEN crashed' = TRUE /\ UNCHANGED <<kernel, slots, serverType, stale>>
     ELSE /\ \E fd \in Fd :
               /\ Lowest(fd)
               /\ InitClient(FillBuffer(Head(run.todo)), fd, p, "leader")
               /\ leaderClients' = Emplaced(leaderClients, p, fd)
          /\ serverType' = "follower"
          /\ UNCHANGED <<leaked, userClients, crashed>>
  /\ UNCHANGED <<stream, sent, backlog, fresh, batch, got>>

\* And where it fails: its descriptor stays open.
ConnectFails ==
  /\ Called /\ Head(run.todo).kind = "slaveof"
  /\ leaked' = leaked \cup {fd \in Fd : Lowest(fd)}
  /\ Clients' = FillBuffer(Head(run.todo))
  /\ UNCHANGED <<outside, conn, armed, nums_Client, userClients, leaderClients,
                 serverType, fresh, batch, got, stale, crashed>>

AlwaysIn(fd) == "in"

AlwaysOut(fd) == "out"

\* What runCommand arms the descriptor for, by the last packet of the read.
Awaits(fd) == IF Clients[fd].argv1 = "onetime" THEN "in" ELSE "out"

ArmAgain ==
  /\ Running("arm")
  /\ armed' = IF Slot.fdSock = -1 THEN armed
              ELSE [armed EXCEPT ![run.client] = Awaits(run.client)]
  /\ run' = Idle
  /\ UNCHANGED <<outside, conn, leaked, slots, serverType, fresh, batch, history, crashed>>

---------------------------------------------------------------------------

\* serverCron of a follower that has not heard of its leader for
\* time2Candidate: the leader's connection is closed.
CronFollower ==
  /\ ~crashed /\ serverType = "follower" /\ ~fresh
  /\ serverType' = "candidate"
  /\ IF leaderClients = {}
     THEN UNCHANGED <<conn, armed, end, stream, slots>>
     ELSE \E e \in leaderClients : CloseClient(e[2])
  /\ UNCHANGED <<sent, backlog, leaked, fresh, batch, run, history, crashed>>

Loop ==
  \/ EpollWait \/ Accept
  \/ \E fd \in Fd : ReadData(fd) \/ ReadNothing(fd) \/ ReadFails(fd) \/ ClientWrite(fd)
  \/ FindCommand \/ Call \/ ConnectFails \/ ArmAgain
  \/ \E p \in Link : ConnectServer(p)

Next ==
  \/ \E u \in User : Dial(u)
  \/ \E p \in Peer : Leave(p) \/ \E kind \in Kind : Send(p, kind)
  \/ Loop \/ CronFollower

Spec == Init /\ [][Next]_vars

\* One thread runs the loop, and a batch holds all that was ready.
Fairness == WF_vars(Loop)

FairSpec == Spec /\ Fairness

---------------------------------------------------------------------------
(* Properties                                                              *)

TypeOK ==
  /\ conn \in [Fd -> Peer \cup {Nobody}]
  /\ leaked \subseteq Fd
  /\ armed \in [Fd -> {"in", "out", "off"}]
  /\ stream \in [Peer -> Seq(Packet)] /\ sent \in [Peer -> Seq(Packet)]
  /\ end \in [Peer -> {"new", "open", "fin", "reset", "closed"}]
  /\ backlog \in Seq(User)
  /\ Clients \in [Fd -> RedisClient]
  /\ nums_Client \in Int
  /\ userClients \subseteq User \X Fd /\ leaderClients \subseteq Link \X Fd
  /\ serverType \in {"leader", "follower", "candidate"}
  /\ fresh \in BOOLEAN /\ crashed \in BOOLEAN
  /\ batch \subseteq ({fd_server} \cup Fd) \X {"in", "out"}
  /\ run \in [client : Fd, todo : Seq(Packet), at : {"loop", "find", "call", "arm"}]
  /\ got \in [Peer -> Seq(Packet)] /\ ran \in [Peer -> Seq(Packet)]
  /\ stale \subseteq Peer

RunsOwn(p) ==
  /\ \A i \in DOMAIN ran[p] : ran[p][i].from = p /\ (p \in User => ran[p][i].no = i)
  /\ \A i, j \in DOMAIN ran[p] : i < j => ran[p][i].no < ran[p][j].no

\* A packet is run once, in the name of the peer that sent it and in the order
\* it was sent; of a user's none is left out (a link may be made again, and
\* what it sent on the connection before is gone with that).  The exceptions are
\* the peers of stale: given a descriptor while an event of the connection before
\* was still to be served.
RunOnce == \A p \in Peer \ stale : RunsOwn(p)

SaysShow(p) == \E i \in DOMAIN sent[p] : sent[p][i].kind = "show"

GetsOwn(p) ==
  /\ \A i \in DOMAIN got[p] : got[p][i].from = p /\ got[p][i].kind # "once"
  /\ \A i, j \in DOMAIN got[p] : i < j => got[p][i].no < got[p][j].no

\* A peer gets answers to its own packets only, none twice and in order, and
\* none to a "onetime".  The exceptions are again stale, and peers that said
\* showServer, which are sent what the slot's last answer was.
AnswersOwn == \A p \in Peer \ stale : SaysShow(p) \/ GetsOwn(p)

\* What a connection waits for: an event it is watched for, an event still to be
\* served, or the end of runCommand.
Waiting(fd) ==
  {<<"armed", a>> : a \in {armed[fd]} \ {"off"}}
  \cup {<<"event", e[2]>> : e \in {b \in batch : b[1] = fd}}
  \cup {<<"run", r.at>> : r \in {q \in {run} : q.at # "loop" /\ q.client = fd}}

\* One-shot arming: a connection never waits for two things at a time (the
\* comment of add_event).  It waits for none, which is for ever, only after a
\* failed write: the peer sent a reset, or the slot never had an answer to send.
OneShot ==
  \A fd \in Fd : conn[fd] \notin stale \cup {Nobody} =>
    /\ Cardinality(Waiting(fd)) <= 1
    /\ Waiting(fd) = {} => end[conn[fd]] = "reset" \/ Clients[fd].bufferWrite = <<>>

\* The timer never closes the connection whose packet is being run: what comes
\* from the leader has just renewed lastChatWithLeader.  A connection to a new
\* leader that finds an old event on its descriptor has nothing renewed.
CmdAlive == run.at = "call" => Slot.cmd # "nullptr" \/ Slot.name \in stale

Latest(p) == sent[p][Len(sent[p])]

\* A user that stays has asked something and was not answered yet.
Waits(u) ==
  /\ ~crashed /\ end[u] = "open" /\ u \notin stale /\ ~SaysShow(u)
  /\ sent[u] # <<>> /\ Latest(u).kind = "ask"
  /\ \A i \in DOMAIN got[u] : got[u][i] # Latest(u)

\* The latest packet of a user is answered, however many others it was read
\* together with and whatever else goes on.
LatestAnswered == \A u \in User : []<>~Waits(u)

---------------------------------------------------------------------------
(* What does not hold of the code (see Findings in the README)             *)

\* Nobody is served another's packet, or the same one again.
RunOnceAnyway == \A p \in Peer : RunsOwn(p)

\* Nobody gets another's answer ("reply command results to clients").
AnswersOwnAnyway == \A p \in Peer : GetsOwn(p)

\* A connection that is open is watched, served or being worked for.
AlwaysWaits == \A fd \in Fd : conn[fd] # Nobody => Waiting(fd) # {}

\* cmd is never null when its handler is called.
CmdNeverNull == run.at = "call" => Slot.cmd # "nullptr"

\* The table is never overrun: nums_Client is tested for that.
SlotForEach == ~crashed

===========================================================================
