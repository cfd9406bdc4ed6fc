----------------------------- MODULE UserRouter -----------------------------
(***************************************************************************)
(* The router of Lab3 (DistributedKvStore-Client2): one thread reads the   *)
(* user's lines and the connections to the store's servers.  Clients[fd]   *)
(* is the slot of descriptor fd; leaderClient, curClient and               *)
(* followerClients point to slots, and lines are sent to the connection    *)
(* such a pointer leads to.  Slots know their server by name only, the     *)
(* "ip:port" the user connected to, which outlives the connection.         *)
(*                                                                         *)
(* One handler runs at a time, so each event of the loop is one action.    *)
(* Of a server the model keeps what the router sees of it: answers, beMy   *)
(* when it wins an election, and the end of the stream when it stops.      *)
(***************************************************************************)
EXTENDS Integers, Sequences

CONSTANTS
  Servers,     \* the servers, named by their addresses
  Fds,         \* the descriptors after stdin, epoll and the listening socket
  Again,       \* TRUE: the user may connect to a server that is connected
  MaxTyped,    \* bound on the lines that are sent to servers
  MaxAnswers,  \* bound on the packets of one connection nobody read yet
  MaxWins,     \* bound on the elections won
  MaxCrashes   \* bound on the servers that stop

ASSUME FdsAssumption == Fds \subseteq Nat \ {0}
ASSUME AgainAssumption == Again \in BOOLEAN
ASSUME ServersAssumption == "NoOne_Client" \notin Servers

nullptr == 0     \* the null pointer, the slot of no descriptor
NoOne   == "NoOne_Client"

VARIABLES
  up,         \* the servers that run
  slot,       \* Clients: whether fd_client is set, and name
  leader,     \* leaderClient
  cur,        \* curClient
  followers,  \* followerClients, from names to slots
  leaked,     \* descriptors of failed connects, which nobody closes
  peer,       \* the server's end of the connection is open
  asked,      \* commands on their way to the server
  in,         \* packets on their way to the router
  chosen,     \* the server of the user's last setCur that was accepted
  typed, wins, crashes

routing == <<slot, leader, cur, followers, leaked, chosen>>
network == <<peer, asked, in>>
bounds  == <<typed, wins, crashes>>
vars    == <<up, routing, network, bounds>>

Init ==
  /\ up = Servers
  /\ slot = [f \in Fds |-> [open |-> FALSE, name |-> NoOne]]
  /\ leader = nullptr /\ cur = nullptr
  /\ followers = [n \in {} |-> nullptr]
  /\ leaked = {}
  /\ peer = [f \in Fds |-> FALSE]
  /\ asked = [f \in Fds |-> 0]
  /\ in = [f \in Fds |-> <<>>]
  /\ chosen = NoOne
  /\ typed = 0 /\ wins = 0 /\ crashes = 0

Without(map, n)  == [m \in DOMAIN map \ {n} |-> map[m]]
With(map, n, f)  == [m \in DOMAIN map \cup {n} |-> IF m = n THEN f ELSE map[m]]

-----------------------------------------------------------------------------
(* Lines the router executes itself. *)

(* socket() takes the lowest free descriptor. *)
Free == {f \in Fds : ~slot[f].open /\ f \notin leaked}
Lowest(f) == f \in Free /\ \A g \in Free : f <= g

(* emplace leaves a name that is there already as it is. *)
Emplaced(map, n, f) == IF n \in DOMAIN map THEN map ELSE With(map, n, f)

ConnectServer(s) ==
  /\ s \in up
  /\ Again \/ \A f \in Fds : slot[f].open => slot[f].name # s
  /\ \E f \in Fds :
       /\ Lowest(f)
       /\ slot' = [slot EXCEPT ![f] = [open |-> TRUE, name |-> s]]
       /\ followers' = Emplaced(followers, s, f)
       /\ peer' = [peer EXCEPT ![f] = TRUE]
       /\ asked' = [asked EXCEPT ![f] = 0]
       /\ in' = [in EXCEPT ![f] = <<>>]
  /\ UNCHANGED <<up, leader, cur, leaked, chosen, bounds>>

(* connect() fails: connectServer returns without closing the socket. *)
ConnectFails(s) ==
  /\ s \notin up
  /\ \E f \in Fds : Lowest(f) /\ leaked' = leaked \cup {f}
  /\ UNCHANGED <<up, slot, leader, cur, followers, chosen, network, bounds>>

(* clientTypeChanged(n, "leader"): the old leader becomes a follower. *)
LeaderDropped == followers
NoNullTest == With(followers, IF leader = nullptr THEN NoOne ELSE slot[leader].name, leader)
Demoted == IF leader = nullptr THEN followers ELSE With(followers, slot[leader].name, leader)

BecomesLeader(n) ==
  IF (leader # nullptr /\ slot[leader].name = n) \/ n \notin DOMAIN followers
  THEN UNCHANGED <<leader, followers>>
  ELSE /\ leader' = followers[n]
       /\ followers' = Without(Demoted, n)

SetLeader(n) ==
  /\ BecomesLeader(n)
  /\ UNCHANGED <<up, slot, cur, leaked, chosen, network, bounds>>

(* clientTypeChanged(n, "cur") *)
SetCur(n) ==
  /\ n \in DOMAIN followers
  /\ cur' = followers[n]
  /\ chosen' = n
  /\ UNCHANGED <<up, slot, leader, followers, leaked, network, bounds>>

-----------------------------------------------------------------------------
(* Lines the router passes on.  A command to a server that stopped is      *)
(* lost, and nobody looks at the result of write.                          *)

Passed(f) ==
  /\ typed < MaxTyped
  /\ typed' = typed + 1
  /\ asked' = [asked EXCEPT ![f] = @ + (IF peer[f] THEN 1 ELSE 0)]
  /\ UNCHANGED <<up, routing, peer, in, wins, crashes>>

TransmitLeader == leader # nullptr /\ Passed(leader)

TransmitCur == cur # nullptr /\ Passed(cur)

(* begin() of an unordered_map: any of the followers. *)
TransmitFollower ==
  \/ \E n \in DOMAIN followers : Passed(followers[n])
  \/ DOMAIN followers = {} /\ TransmitLeader

-----------------------------------------------------------------------------
(* Events of the connections. *)

(* closeClient: the pointers are compared by the name of their slots. *)
KeepsCur(n) == cur
CurWithout(n) == IF cur # nullptr /\ slot[cur].name = n THEN nullptr ELSE cur

KeepsLeader(n) == leader
LeaderWithout(n) == IF leader # nullptr /\ slot[leader].name = n THEN nullptr ELSE leader

CloseClient(f) ==
  /\ slot[f].open
  /\ in[f] = <<>> /\ ~peer[f]
  /\ slot' = [slot EXCEPT ![f].open = FALSE]
  /\ leader' = LeaderWithout(slot[f].name)
  /\ cur' = CurWithout(slot[f].name)
  /\ followers' = Without(followers, slot[f].name)
  /\ UNCHANGED <<up, leaked, chosen, network, bounds>>

(* runCommand: decodeResp puts the arguments of all packets of the read    *)
(* into one list, and its first element alone is looked up.                *)
RunCommand(f) ==
  /\ slot[f].open
  /\ \E k \in 1..Len(in[f]) : in' = [in EXCEPT ![f] = SubSeq(@, k + 1, Len(@))]
  /\ IF Head(in[f]) = "beMy"
     THEN BecomesLeader(slot[f].name)
     ELSE UNCHANGED <<leader, followers>>
  /\ UNCHANGED <<up, slot, cur, leaked, chosen, peer, asked, bounds>>

-----------------------------------------------------------------------------
(* The servers. *)

(* One read of the server takes some commands and sends the last answer.   *)
Answer(f) ==
  /\ peer[f] /\ asked[f] > 0
  /\ Len(in[f]) < MaxAnswers
  /\ \E k \in 1..asked[f] : asked' = [asked EXCEPT ![f] = @ - k]
  /\ in' = [in EXCEPT ![f] = Append(@, "answer")]
  /\ UNCHANGED <<up, routing, peer, bounds>>

(* A server that wins tells its user clients, the router's connections. *)
WinElection(s) ==
  /\ s \in up
  /\ wins < MaxWins
  /\ wins' = wins + 1
  /\ in' = [f \in Fds |->
       IF peer[f] /\ slot[f].name = s THEN Append(in[f], "beMy") ELSE in[f]]
  /\ UNCHANGED <<up, routing, peer, asked, typed, crashes>>

Crash(s) ==
  /\ s \in up
  /\ crashes < MaxCrashes
  /\ crashes' = crashes + 1
  /\ up' = up \ {s}
  /\ peer' = [f \in Fds |-> peer[f] /\ slot[f].name # s]
  /\ asked' = [f \in Fds |-> IF peer'[f] THEN asked[f] ELSE 0]
  /\ UNCHANGED <<routing, in, typed, wins>>

Restart(s) ==
  /\ s \notin up
  /\ up' = up \cup {s}
  /\ UNCHANGED <<routing, network, bounds>>

-----------------------------------------------------------------------------

(* STDINRunCommand *)
UserLine ==
  \/ \E s \in Servers : ConnectServer(s) \/ ConnectFails(s) \/ SetLeader(s) \/ SetCur(s)
  \/ TransmitLeader \/ TransmitCur \/ TransmitFollower

(* The rest of serverRun's loop, and the servers. *)
Event(f) == CloseClient(f) \/ RunCommand(f)

Network ==
  \/ \E f \in Fds : Answer(f)
  \/ \E s \in Servers : WinElection(s) \/ Crash(s) \/ Restart(s)

Next == UserLine \/ Network \/ \E f \in Fds : Event(f)

Spec == Init /\ [][Next]_vars

(* epoll reports every connection that can be read, and the loop handles   *)
(* all of a batch before the next one.                                     *)
Fairness == \A f \in Fds : WF_vars(Event(f))

FairSpec == Spec /\ Fairness

-----------------------------------------------------------------------------
(* Properties. *)

(* Every variable keeps its type. *)
TypeOK ==
  /\ up \subseteq Servers
  /\ slot \in [Fds -> [open : BOOLEAN, name : Servers \cup {NoOne}]]
  /\ leader \in Fds \cup {nullptr}
  /\ cur \in Fds \cup {nullptr}
  /\ DOMAIN followers \subseteq Servers
  /\ followers \in [DOMAIN followers -> Fds]
  /\ leaked \subseteq Fds
  /\ peer \in [Fds -> BOOLEAN]
  /\ asked \in [Fds -> Nat]
  /\ in \in [Fds -> Seq({"answer", "beMy"})]
  /\ chosen \in Servers \cup {NoOne}
  /\ typed \in Nat /\ wins \in Nat /\ crashes \in Nat

(* No pointer dangles: each leads to the slot of an open connection, a     *)
(* follower's to one of the server it is filed under, although closing     *)
(* compares names and several connections may share one.                   *)
PointersOpen ==
  /\ leader # nullptr => slot[leader].open
  /\ cur # nullptr => slot[cur].open
  /\ \A n \in DOMAIN followers :
       slot[followers[n]].open /\ slot[followers[n]].name = n

(* What the user sends to the current server goes to the server of the     *)
(* last setCur or nowhere, also after that server stopped and a connection *)
(* to another one got its descriptor.                                      *)
CurIsChosen == cur # nullptr => slot[cur].name = chosen

(* When no server is connected twice, each connection has one role: it is  *)
(* the leader's or filed under its name, and never both.                   *)
OneRole ==
  \A f \in Fds : slot[f].open =>
    /\ leader = f <=> slot[f].name \notin DOMAIN followers
    /\ slot[f].name \in DOMAIN followers => followers[slot[f].name] = f

(* A connection whose server announces itself becomes the leader's by the  *)
(* read that returns the announcement, as far as the router can name it.   *)
(* This does not hold: the announcement is lost behind an answer.          *)
AnnouncementObeyed ==
  [][\A f \in Fds :
       (\E i \in 1..(Len(in[f]) - Len(in'[f])) : slot[f].open /\ in[f][i] = "beMy") =>
         leader' # nullptr /\ slot[leader'].name = slot[f].name]_vars

(* A server that stops is dropped from the routing, or comes back. *)
Routed(s) ==
  \/ leader # nullptr /\ slot[leader].name = s
  \/ cur # nullptr /\ slot[cur].name = s
  \/ s \in DOMAIN followers

StoppedIsDropped ==
  \A s \in Servers : s \notin up ~> (s \in up \/ ~Routed(s))

=============================================================================
