---------------------------- MODULE KvMembership ----------------------------
(***************************************************************************)
(* How the mesh of the Lab3 store forms                                    *)
(* (Lab3/final2/DistributedKvStore-Server).  The router makes each server  *)
(* slaveof one leader, all at once and without waiting.  The newcomer      *)
(* connects and writes "beMy leader"; the leader files the connection and  *)
(* answers with the followers it knows; the newcomer connects to each and  *)
(* writes "beMy otherfollower".  KvElection and KvReplication start from   *)
(* the mesh this leads to.                                                 *)
(*                                                                         *)
(* A follower may stop and be started and made slaveof again.  The leader  *)
(* stays, and no timeout fires: elections are KvElection's.  A connection  *)
(* is the number it was made as.  A server files a connection it made      *)
(* under the address of the other server, and one it accepted under the    *)
(* address it came from, which no other connection has.                    *)
(***************************************************************************)
EXTENDS Integers, Sequences, FiniteSets

CONSTANTS
  Server,      \* the processes
  Leader,      \* the server every other one is made slaveof
  MaxConns,    \* bound: connections made
  MaxCrashes   \* bound: followers that stop

ASSUME MembershipConstants ==
  /\ IsFiniteSet(Server) /\ Leader \in Server
  /\ MaxConns \in Nat /\ MaxCrashes \in Nat
  /\ Server \cap (1..MaxConns) = {}

VARIABLES
  up,              \* the processes that run
  toJoin,          \* servers the router still makes slaveof
  serverType, numsServer,
  conns,           \* who made each connection, and to whom
  clientType,      \* clientType[s][i]: what s takes connection i for
  leaderClients,   \* leaderClients[s]: connections by name
  followerClients,
  wire,            \* wire[s][i]: packets written by s that were not read
  todo,            \* todo[s][p]: how often the list s works through names p
  crashes,
  restarted        \* history: servers that were started again

tables == <<leaderClients, followerClients>>
own    == <<serverType, numsServer, tables>>
runs   == <<up, toJoin, crashes, restarted>>
vars   == <<runs, own, conns, clientType, wire, todo>>

Ids    == 1..MaxConns
Nobody == [p \in Server |-> 0]
Names  == Server \cup Ids

Packet(type, others) == [type |-> type, others |-> others]
BeMyLeader == Packet("beMy leader", Nobody)
BeMyOther  == Packet("beMy otherfollower", Nobody)
FIN        == Packet("FIN", Nobody)

Init ==
  /\ up = Server /\ toJoin = Server \ {Leader}
  /\ serverType = [s \in Server |-> "leader"]
  /\ numsServer = [s \in Server |-> 1]
  /\ conns = <<>>
  /\ clientType = [s \in Server |-> [i \in Ids |-> "closed"]]
  /\ leaderClients = [s \in Server |-> [n \in {} |-> 0]]
  /\ followerClients = [s \in Server |-> [n \in {} |-> 0]]
  /\ wire = [s \in Server |-> [i \in Ids |-> <<>>]]
  /\ todo = [s \in Server |-> Nobody]
  /\ crashes = 0 /\ restarted = {}

---------------------------------------------------------------------------
(* Connections and the tables they are filed in                            *)

\* The server at the other end, and the name of the connection.
Other(s, i) == IF conns[i].from = s THEN conns[i].to ELSE conns[i].from
Name(s, i)  == IF conns[i].from = s THEN conns[i].to ELSE i

NotErased(map, n) == map

Without(map, n) == [m \in DOMAIN map \ {n} |-> map[m]]

\* emplace leaves a name that is there already as it is.
Emplaced(map, n, i) ==
  [m \in DOMAIN map \cup {n} |-> IF m \in DOMAIN map THEN map[m] ELSE i]

\* connectServer: s makes connection i to p, takes p for a leader at first, and
\* writes a packet.
Connected(s, p, i, type, packet) ==
  /\ Len(conns) < MaxConns
  /\ conns' = Append(conns, [from |-> s, to |-> p])
  /\ clientType' = [clientType EXCEPT ![s][i] = type, ![p][i] = "backlog"]
  /\ serverType' = [serverType EXCEPT ![s] = "follower"]
  /\ numsServer' = [numsServer EXCEPT ![s] = @ + 1]
  /\ wire' = [wire EXCEPT ![s][i] = <<packet>>]

\* slaveofCommand
Slaveof(s) ==
  /\ s \in up \cap toJoin /\ todo[s] = Nobody
  /\ LET i == Len(conns) + 1
     IN  /\ Connected(s, Leader, i, "leader", BeMyLeader)
         /\ leaderClients' = [leaderClients EXCEPT ![s] = Emplaced(@, Leader, i)]
  /\ toJoin' = toJoin \ {s}
  /\ UNCHANGED <<up, crashes, restarted, followerClients, todo>>

Accept(s, i) ==
  /\ s \in up /\ todo[s] = Nobody
  /\ clientType[s][i] = "backlog"
  /\ clientType' = [clientType EXCEPT ![s][i] = "user"]
  /\ UNCHANGED <<runs, own, conns, wire, todo>>

\* A read of connection i by s returns a packet of this type.
Reads(s, i, type) ==
  /\ s \in up /\ todo[s] = Nobody
  /\ clientType[s][i] \in {"user", "leader", "follower"}
  /\ wire[Other(s, i)][i] # <<>>
  /\ Head(wire[Other(s, i)][i]).type = type

Read(s, i) == [wire EXCEPT ![Other(s, i)][i] = Tail(@)]

---------------------------------------------------------------------------
(* The command handlers                                                    *)

EveryBeMy(s, i) == numsServer[s] + 1

\* beMyCommand: a connection that was a user's is a server more.
OneMore(s, i) == numsServer[s] + (IF clientType[s][i] = "user" THEN 1 ELSE 0)

\* clientTypeChanged(c, "follower")
BecomesFollower(s, i) ==
  /\ clientType' = [clientType EXCEPT ![s][i] = "follower"]
  /\ leaderClients' = [leaderClients EXCEPT ![s] = Without(@, Name(s, i))]
  /\ followerClients' = [followerClients EXCEPT ![s] = Emplaced(@, Name(s, i), i)]

\* Addresses compared without their ports, on one host.
ListedByHost(s, i) == Nobody

\* Who is connected, whether or not it introduced itself.
ListedUnknown(s, i) ==
  [p \in Server |->
     IF p = Other(s, i) THEN 0
     ELSE Cardinality({j \in DOMAIN conns \ {i} : clientType[s][j] \in {"user", "follower"} /\ Other(s, j) = p})]

\* The followers the answer to connection i lists: those on other connections,
\* and not the newcomer itself, whose last connection may still be there.
Listed(s, i) ==
  LET filed == {followerClients'[s][n] : n \in DOMAIN followerClients'[s]}
  IN  [p \in Server |->
        IF p = Other(s, i) THEN 0 ELSE Cardinality({j \in filed \ {i} : Other(s, j) = p})]

\* beMyCommand with "leader".  The answer is armed and nothing is read from the
\* connection before it is written.
BeMyLeaderCommand(s, i) ==
  /\ Reads(s, i, "beMy leader")
  /\ serverType' = [serverType EXCEPT ![s] = "leader"]
  /\ numsServer' = [numsServer EXCEPT ![s] = OneMore(s, i)]
  /\ BecomesFollower(s, i)
  /\ wire' = [Read(s, i) EXCEPT ![s][i] =
       IF clientType[Other(s, i)][i] = "closed" THEN @
       ELSE Append(@, Packet("otherFollower", Listed(s, i)))]
  /\ UNCHANGED <<runs, conns, todo>>

\* beMyCommand with "otherfollower"
BeMyOtherCommand(s, i) ==
  /\ Reads(s, i, "beMy otherfollower")
  /\ serverType' = [serverType EXCEPT ![s] = "follower"]
  /\ numsServer' = [numsServer EXCEPT ![s] = OneMore(s, i)]
  /\ BecomesFollower(s, i)
  /\ wire' = Read(s, i)
  /\ UNCHANGED <<runs, conns, todo>>

\* otherFollowerCommand starts on its list ...
OtherFollowerCommand(s, i) ==
  /\ Reads(s, i, "otherFollower")
  /\ todo' = [todo EXCEPT ![s] = Head(wire[Other(s, i)][i]).others]
  /\ wire' = Read(s, i)
  /\ UNCHANGED <<runs, own, conns, clientType>>

OneTooMany(s, p) == todo[s][p] >= 0

ToConnect(s, p) == todo[s][p] > 0

\* ... and goes through it; a server that does not run is passed over.
ConnectOther(s, p) ==
  /\ s \in up /\ ToConnect(s, p)
  /\ todo' = [todo EXCEPT ![s][p] = @ - 1]
  /\ IF p \in up
     THEN LET i == Len(conns) + 1
          IN  /\ Connected(s, p, i, "follower", BeMyOther)
              /\ leaderClients' = [leaderClients EXCEPT ![s] = Without(@, p)]
              /\ followerClients' = [followerClients EXCEPT ![s] = Emplaced(@, p, i)]
     ELSE UNCHANGED <<own, conns, clientType, wire>>
  /\ UNCHANGED runs

---------------------------------------------------------------------------
(* The end of connections and of processes                                 *)

AnyoneLess(s, i) == numsServer[s] - 1

OneLess(s, i) == numsServer[s] - (IF clientType[s][i] = "user" THEN 0 ELSE 1)

\* read() returned 0, or -1 after a reset: closeClient.
CloseClient(s, i) ==
  /\ Reads(s, i, "FIN")
  /\ clientType' = [clientType EXCEPT ![s][i] = "closed"]
  /\ numsServer' = [numsServer EXCEPT ![s] = OneLess(s, i)]
  /\ leaderClients' = [leaderClients EXCEPT ![s] = Without(@, Name(s, i))]
  /\ followerClients' = [followerClients EXCEPT ![s] = Without(@, Name(s, i))]
  /\ wire' = Read(s, i)
  /\ UNCHANGED <<runs, serverType, conns, todo>>

\* The process of a follower stops.  What it had written is read, or lost by a
\* reset; what it had not read is lost.
Crash(s) ==
  /\ s \in up \ {Leader} /\ crashes < MaxCrashes
  /\ crashes' = crashes + 1
  /\ up' = up \ {s}
  /\ serverType' = [serverType EXCEPT ![s] = "leader"]
  /\ numsServer' = [numsServer EXCEPT ![s] = 1]
  /\ clientType' = [clientType EXCEPT ![s] = [i \in Ids |-> "closed"]]
  /\ leaderClients' = [leaderClients EXCEPT ![s] = [n \in {} |-> 0]]
  /\ followerClients' = [followerClients EXCEPT ![s] = [n \in {} |-> 0]]
  /\ todo' = [todo EXCEPT ![s] = Nobody]
  /\ \E lost \in BOOLEAN :
       wire' = [p \in Server |-> [i \in Ids |->
         IF clientType[s][i] = "closed" THEN wire[p][i]
         ELSE IF p # s THEN <<>>
         ELSE IF clientType[Other(s, i)][i] = "closed" THEN <<>>
         ELSE IF lost THEN <<FIN>> ELSE Append(wire[s][i], FIN)]]
  /\ UNCHANGED <<toJoin, restarted, conns>>

\* It is started again, and the user types its slaveof again.
Restart(s) ==
  /\ s \notin up
  /\ up' = up \cup {s}
  /\ toJoin' = toJoin \cup {s}
  /\ restarted' = restarted \cup {s}
  /\ UNCHANGED <<crashes, own, conns, clientType, wire, todo>>

Handle(s, i) ==
  \/ Accept(s, i) \/ BeMyLeaderCommand(s, i) \/ BeMyOtherCommand(s, i)
  \/ OtherFollowerCommand(s, i) \/ CloseClient(s, i)

Next ==
  \/ \E s \in Server : Slaveof(s) \/ Crash(s) \/ Restart(s)
  \/ \E s \in Server, i \in Ids : Handle(s, i)
  \/ \E s, p \in Server : ConnectOther(s, p)

Spec == Init /\ [][Next]_vars

\* The router has written the slaveof lines, and the loop of a server serves
\* every connection that can be accepted or read.
Fairness ==
  \A s \in Server :
    /\ WF_vars(Slaveof(s))
    /\ \A i \in Ids : WF_vars(Handle(s, i))
    /\ \A p \in Server : WF_vars(ConnectOther(s, p))

FairSpec == Spec /\ Fairness

---------------------------------------------------------------------------
(* Properties                                                              *)

Table(t) == DOMAIN t \subseteq Names /\ t \in [DOMAIN t -> Ids]

\* Every variable keeps its type.
TypeOK ==
  /\ up \subseteq Server /\ toJoin \subseteq Server /\ restarted \subseteq Server
  /\ serverType \in [Server -> {"leader", "follower"}]
  /\ numsServer \in [Server -> Nat]
  /\ conns \in Seq([from : Server, to : Server]) /\ Len(conns) <= MaxConns
  /\ clientType \in [Server -> [Ids -> {"closed", "backlog", "user", "leader", "follower"}]]
  /\ \A s \in Server : Table(leaderClients[s]) /\ Table(followerClients[s])
  /\ wire \in [Server -> [Ids -> Seq([type : {"beMy leader", "beMy otherfollower", "otherFollower", "FIN"},
                                     others : [Server -> Nat]])]]
  /\ todo \in [Server -> [Server -> Nat]]
  /\ crashes \in Nat

ServerConns(s) == {i \in Ids : clientType[s][i] \in {"leader", "follower"}}

\* numsServer, from which election() takes its majority, is one more than the
\* connections to servers, however joins, failed connects and closings of
\* connections that never introduced themselves interleave.
CountsServers ==
  \A s \in up : numsServer[s] = 1 + Cardinality(ServerConns(s))

Between(s, p) ==
  {i \in DOMAIN conns : /\ {conns[i].from, conns[i].to} = {s, p}
                        /\ clientType[s][i] # "closed" /\ clientType[p][i] # "closed"}

\* Servers that join at the same time, neither of them started again, never
\* connect to each other twice: the leader names to each newcomer only those
\* that came before.
OneConnection ==
  \A s, p \in Server \ restarted : s # p => Cardinality(Between(s, p)) <= 1

\* The same of all servers.  This does not hold: a server that comes back while
\* its old connections are still filed is listed by them, so that others connect
\* to it and it to them.
ConnectedOnce ==
  \A s, p \in Server : s # p => Cardinality(Between(s, p)) <= 1

\* No pointer of the tables leads to a closed connection or one of another kind
\* or name, although closing erases by name; and a connection to a server that
\* was not started again is in its table, so messages reach it.
TablesLead ==
  \A s \in up :
    /\ \A n \in DOMAIN leaderClients[s] :
         LET i == leaderClients[s][n] IN Name(s, i) = n /\ clientType[s][i] = "leader"
    /\ \A n \in DOMAIN followerClients[s] :
         LET i == followerClients[s][n] IN Name(s, i) = n /\ clientType[s][i] = "follower"
    /\ \A i \in ServerConns(s) : Other(s, i) \notin restarted =>
         Name(s, i) \in DOMAIN leaderClients[s] \cup DOMAIN followerClients[s]

\* In the end every two servers that run are connected and take each other for
\* what they are, whatever order the joins, crashes and restarts came in.
MeshCompletes ==
  <>[](\A s \in up :
         /\ serverType[s] = IF s = Leader THEN "leader" ELSE "follower"
         /\ \A p \in up \ {s} : \E i \in Between(s, p) :
              clientType[s][i] = IF p = Leader THEN "leader" ELSE "follower")
=============================================================================
