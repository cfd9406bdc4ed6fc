------------------------ MODULE KvMembershipProofs ------------------------
(***************************************************************************)
(* Proofs about KvMembership, for any servers and any number of            *)
(* connections, crashes and restarts.                                      *)
(***************************************************************************)
EXTENDS KvMembership, FiniteSetTheorems, SequenceTheorems, TLAPS

Packets == [type : {"beMy leader", "beMy otherfollower", "otherFollower", "FIN"},
            others : [Server -> Nat]]

(* No connection leads back to the server it starts from: the leader joins *)
(* nobody, and a list never names the server it was sent to.               *)
LeaderStays == Leader \in up /\ Leader \notin toJoin
Selfless    == \A s \in Server : todo[s][s] = 0

Harmless(s, i) == {m \in Packets : m.others[Other(s, i)] = 0}
Lists == \A s \in Server, i \in DOMAIN conns : wire[s][i] \in Seq(Harmless(s, i))

(* A connection not made yet is unknown to all, and one that was made is   *)
(* known to its ends alone.                                                *)
Unmade == \A s \in Server, i \in Ids \ DOMAIN conns :
            clientType[s][i] = "closed" /\ wire[s][i] = <<>>
Ends   == \A s \in Server, i \in DOMAIN conns :
            clientType[s][i] # "closed" => s \in {conns[i].from, conns[i].to}

Tables == DOMAIN leaderClients = Server /\ DOMAIN followerClients = Server

Counts == \A s \in Server : numsServer[s] = 1 + Cardinality(ServerConns(s))

IInv == /\ TypeOK /\ Tables /\ LeaderStays /\ Selfless /\ Lists /\ Unmade /\ Ends
        /\ Counts

-----------------------------------------------------------------------------
(* Lemmas about single operators. *)

LEMMA IdsFinite == IsFiniteSet(Ids)
BY MembershipConstants, FS_Interval DEF Ids

LEMMA NobodyType == Nobody \in [Server -> Nat] /\ \A p \in Server : Nobody[p] = 0
BY DEF Nobody

LEMMA ConnsFacts ==
  ASSUME TypeOK
  PROVE  /\ DOMAIN conns = 1..Len(conns) /\ DOMAIN conns \subseteq Ids
         /\ Len(conns) \in Nat
         /\ \A i \in DOMAIN conns : conns[i].from \in Server /\ conns[i].to \in Server
         /\ \A s \in Server, i \in DOMAIN conns : Other(s, i) \in Server /\ Name(s, i) \in Names
<1>1. conns \in Seq([from : Server, to : Server]) /\ Len(conns) <= MaxConns
  BY DEF TypeOK
<1>2. DOMAIN conns = 1..Len(conns) /\ Len(conns) \in Nat
  BY <1>1
<1>3. DOMAIN conns \subseteq Ids
  BY <1>1, <1>2, MembershipConstants DEF Ids
<1>4. ASSUME NEW i \in DOMAIN conns
      PROVE  conns[i].from \in Server /\ conns[i].to \in Server
  <2> DEFINE R == [from : Server, to : Server]
  <2>1. conns[i] \in R
    <3>1. conns \in Seq(R) /\ i \in 1..Len(conns)
      BY <1>1, <1>2
    <3> HIDE DEF R
    <3> QED
      BY <3>1
  <2> QED
    BY <2>1
<1> QED
  BY <1>1, <1>2, <1>3, <1>4 DEF Names, Other, Name

LEMMA WithoutType == ASSUME NEW t, Table(t), NEW n PROVE Table(Without(t, n))
BY DEF Without, Table

LEMMA EmplacedType ==
  ASSUME NEW t, Table(t), NEW n \in Names, NEW i \in Ids PROVE Table(Emplaced(t, n, i))
BY DEF Emplaced, Table

(* What a server reads names it nowhere in its list. *)
LEMMA ReadFacts ==
  ASSUME TypeOK, Lists, Unmade, Ends, NEW s \in Server, NEW i \in Ids, NEW type,
         Reads(s, i, type)
  PROVE  /\ i \in DOMAIN conns /\ Other(s, i) \in Server /\ Other(Other(s, i), i) = s
         /\ Head(wire[Other(s, i)][i]) \in Packets
         /\ Head(wire[Other(s, i)][i]).others[s] = 0
         /\ Read(s, i) \in [Server -> [Ids -> Seq(Packets)]]
         /\ \A p \in Server, j \in DOMAIN conns : Read(s, i)[p][j] \in Seq(Harmless(p, j))
<1>1. i \in DOMAIN conns
  BY DEF Reads, Unmade
<1>2. Other(s, i) \in Server
  BY <1>1, ConnsFacts
<1>3. Other(Other(s, i), i) = s
  BY <1>1 DEF Reads, Ends, Other
<1> DEFINE q == wire[Other(s, i)][i]
<1>4. q \in Seq(Harmless(Other(s, i), i)) /\ q # <<>>
  BY <1>1, <1>2 DEF Lists, Reads
<1>5. Head(q) \in Harmless(Other(s, i), i) /\ Tail(q) \in Seq(Harmless(Other(s, i), i))
  BY <1>4
<1>6. q \in Seq(Packets) /\ wire \in [Server -> [Ids -> Seq(Packets)]]
  BY <1>2 DEF TypeOK, Packets
<1>7. Tail(q) \in Seq(Packets)
  BY <1>4, <1>6
<1>8. Read(s, i) \in [Server -> [Ids -> Seq(Packets)]]
  BY <1>2, <1>6, <1>7 DEF Read
<1>9. ASSUME NEW p \in Server, NEW j \in DOMAIN conns PROVE Read(s, i)[p][j] \in Seq(Harmless(p, j))
  <2>1. j \in Ids
    BY ConnsFacts
  <2>2. Read(s, i)[p][j] = IF p = Other(s, i) /\ j = i THEN Tail(q) ELSE wire[p][j]
    BY <1>2, <1>6, <2>1 DEF Read
  <2> QED
    BY <1>5, <2>2 DEF Lists
<1> QED
  BY <1>1, <1>2, <1>3, <1>5, <1>8, <1>9 DEF Harmless

(* What connectServer does to a new connection between two servers. *)
LEMMA ConnectedFacts ==
  ASSUME IInv, NEW s \in Server, NEW p \in Server, s # p,
         NEW type \in {"leader", "follower"}, NEW packet \in Packets, packet.others = Nobody,
         Connected(s, p, Len(conns) + 1, type, packet)
  PROVE  /\ Len(conns) + 1 \in Ids
         /\ conns' \in Seq([from : Server, to : Server]) /\ Len(conns') <= MaxConns
         /\ clientType' \in [Server -> [Ids -> {"closed", "backlog", "user", "leader", "follower"}]]
         /\ serverType' \in [Server -> {"leader", "follower"}]
         /\ numsServer' \in [Server -> Nat]
         /\ wire' \in [Server -> [Ids -> Seq(Packets)]]
         /\ Lists' /\ Unmade' /\ Ends' /\ Counts'
<1> DEFINE i == Len(conns) + 1
<1>0. /\ conns \in Seq([from : Server, to : Server]) /\ Len(conns) \in Nat
      /\ DOMAIN conns = 1..Len(conns)
      /\ serverType \in [Server -> {"leader", "follower"}]
      /\ numsServer \in [Server -> Nat]
      /\ clientType \in [Server -> [Ids -> {"closed", "backlog", "user", "leader", "follower"}]]
      /\ wire \in [Server -> [Ids -> Seq(Packets)]]
  BY ConnsFacts DEF IInv, TypeOK, Packets
<1>1. i \in Ids /\ i \notin DOMAIN conns
  BY ConnsFacts, MembershipConstants DEF IInv, Connected, Ids
<1>2. conns' \in Seq([from : Server, to : Server]) /\ Len(conns') = i /\ i <= MaxConns
  BY <1>0, MembershipConstants DEF Connected
<1>3. /\ DOMAIN conns' = DOMAIN conns \cup {i}
      /\ conns'[i] = [from |-> s, to |-> p]
      /\ \A j \in DOMAIN conns : conns'[j] = conns[j]
  BY <1>0 DEF Connected
<1>4. clientType' \in [Server -> [Ids -> {"closed", "backlog", "user", "leader", "follower"}]]
  BY <1>0, <1>1 DEF Connected
<1>5. \A q \in Server, j \in Ids :
        clientType'[q][j] = IF q = s /\ j = i THEN type
                            ELSE IF q = p /\ j = i THEN "backlog" ELSE clientType[q][j]
  BY <1>0, <1>1 DEF Connected
<1>6. wire' \in [Server -> [Ids -> Seq(Packets)]]
  <2>1. <<packet>> \in Seq(Packets)
    OBVIOUS
  <2> QED
    BY <1>0, <1>1, <2>1 DEF Connected
<1>7. ASSUME NEW q \in Server, NEW j \in DOMAIN conns' PROVE wire'[q][j] \in Seq(Harmless(q, j)')
  <2>1. CASE j = i
    <3>1. wire'[q][j] = IF q = s THEN <<packet>> ELSE <<>>
      BY <1>0, <1>1, <2>1 DEF IInv, Unmade, Connected
    <3>2. q = s => wire'[q][j] \in Seq(Harmless(q, j)')
      <4>1. Other(q, j)' \in Server
        BY <1>3, <2>1 DEF Other
      <4>2. packet \in Harmless(q, j)'
        BY <4>1, NobodyType DEF Harmless
      <4> QED
        BY <3>1, <4>2
    <3>3. <<>> \in Seq(Harmless(q, j)')
      OBVIOUS
    <3> QED
      BY <3>1, <3>2, <3>3
  <2>2. CASE j # i
    <3>1. j \in DOMAIN conns /\ j \in Ids
      BY <1>3, <2>2, ConnsFacts DEF IInv
    <3>4. wire'[q][j] = wire[q][j]
      BY <1>0, <1>1, <2>2, <3>1 DEF Connected
    <3>2. Harmless(q, j)' = Harmless(q, j)
      BY <1>3, <3>1 DEF Harmless, Other
    <3> QED
      BY <3>1, <3>2, <3>4 DEF IInv, Lists
  <2> QED
    BY <2>1, <2>2
<1>8. Unmade'
  <2>1. \A q \in Server, j \in Ids \ {i} : wire'[q][j] = wire[q][j]
    BY <1>0, <1>1 DEF Connected
  <2> QED
    BY <1>3, <1>5, <2>1 DEF IInv, Unmade
<1>9. Ends'
  <2> SUFFICES ASSUME NEW q \in Server, NEW j \in DOMAIN conns', clientType'[q][j] # "closed"
               PROVE  q \in {conns'[j].from, conns'[j].to}
    BY DEF Ends
  <2>1. j \in Ids
    BY <1>1, <1>3, ConnsFacts DEF IInv
  <2>2. CASE j = i
    BY <1>1, <1>3, <1>5, <2>2 DEF IInv, Unmade
  <2>3. CASE j # i
    BY <1>3, <1>5, <2>1, <2>3 DEF IInv, Ends
  <2> QED
    BY <2>2, <2>3
<1>10. ASSUME NEW q \in Server
       PROVE  numsServer'[q] = 1 + Cardinality(ServerConns(q)') /\ numsServer'[q] \in Nat
  <2>1. clientType[q][i] = "closed" /\ i \notin ServerConns(q)
    BY <1>1 DEF IInv, Unmade, ServerConns
  <2>2. ServerConns(q)' = IF q = s THEN ServerConns(q) \cup {i} ELSE ServerConns(q)
    BY <1>1, <1>5, <2>1 DEF ServerConns
  <2>3. IsFiniteSet(ServerConns(q))
    BY IdsFinite, FS_Subset DEF ServerConns
  <2>4. Cardinality(ServerConns(q) \cup {i}) = Cardinality(ServerConns(q)) + 1
    BY <2>1, <2>3, FS_AddElement
  <2>5. numsServer'[q] = IF q = s THEN numsServer[q] + 1 ELSE numsServer[q]
    BY <1>0 DEF Connected
  <2>6. Cardinality(ServerConns(q)) \in Nat
    BY <2>3, FS_CardinalityType
  <2> QED
    BY <2>2, <2>4, <2>5, <2>6 DEF IInv, Counts
<1>11. numsServer' \in [Server -> Nat]
  BY <1>0 DEF Connected
<1>12. serverType' \in [Server -> {"leader", "follower"}]
  BY <1>0 DEF Connected
<1> QED
  BY <1>1, <1>2, <1>4, <1>6, <1>7, <1>8, <1>9, <1>10, <1>11, <1>12 DEF Lists, Counts
-----------------------------------------------------------------------------
(* Every action preserves the invariant. *)

LEMMA InvInit == Init => IInv
<1> SUFFICES ASSUME Init PROVE IInv
  OBVIOUS
<1>1. conns = <<>> /\ DOMAIN conns = {} /\ Len(conns) = 0
  BY DEF Init
<1>2. conns \in Seq([from : Server, to : Server])
  BY <1>1
<1>3. TypeOK
  BY <1>1, <1>2, NobodyType, MembershipConstants DEF Init, TypeOK, Table
<1>4. Counts
  <2> SUFFICES ASSUME NEW s \in Server PROVE numsServer[s] = 1 + Cardinality(ServerConns(s))
    BY DEF Counts
  <2>1. ServerConns(s) = {}
    BY DEF Init, ServerConns
  <2> QED
    BY <2>1, FS_EmptySet DEF Init
<1> QED
  BY <1>1, <1>3, <1>4, NobodyType, MembershipConstants
  DEF Init, IInv, Tables, LeaderStays, Selfless, Lists, Unmade, Ends

LEMMA InvSlaveof == ASSUME IInv, NEW s \in Server, Slaveof(s) PROVE IInv'
<1> DEFINE i == Len(conns) + 1
<1>1. s # Leader /\ Leader \in Server
  BY MembershipConstants DEF IInv, LeaderStays, Slaveof
<1>2. BeMyLeader \in Packets /\ BeMyLeader.others = Nobody
  BY NobodyType DEF BeMyLeader, Packet, Packets
<1>3. Connected(s, Leader, i, "leader", BeMyLeader)
  BY DEF Slaveof
<1>4. /\ i \in Ids
      /\ conns' \in Seq([from : Server, to : Server]) /\ Len(conns') <= MaxConns
      /\ clientType' \in [Server -> [Ids -> {"closed", "backlog", "user", "leader", "follower"}]]
      /\ serverType' \in [Server -> {"leader", "follower"}]
      /\ numsServer' \in [Server -> Nat]
      /\ wire' \in [Server -> [Ids -> Seq(Packets)]]
      /\ Lists' /\ Unmade' /\ Ends' /\ Counts'
  BY <1>1, <1>2, <1>3, ConnectedFacts
<1>5. /\ DOMAIN leaderClients' = Server
      /\ \A q \in Server : leaderClients'[q] = IF q = s THEN Emplaced(leaderClients[q], Leader, i)
                                               ELSE leaderClients[q]
  BY DEF IInv, Tables, Slaveof
<1>6. \A q \in Server : Table(leaderClients'[q])
  <2>1. Leader \in Names /\ i \in Ids /\ \A q \in Server : Table(leaderClients[q])
    BY <1>1, <1>4 DEF IInv, TypeOK, Names
  <2>2. Table(Emplaced(leaderClients[s], Leader, i))
    BY <2>1, EmplacedType
  <2> QED
    BY <1>5, <2>1, <2>2
<1>7. TypeOK'
  BY <1>4, <1>6 DEF IInv, TypeOK, Slaveof, Packets
<1> QED
  BY <1>4, <1>5, <1>7 DEF IInv, Tables, LeaderStays, Selfless, Slaveof
LEMMA InvConnectOther ==
  ASSUME IInv, NEW s \in Server, NEW p \in Server, ConnectOther(s, p) PROVE IInv'
<1> DEFINE i == Len(conns) + 1
<1>1. s # p
  BY DEF IInv, Selfless, ConnectOther, ToConnect
<1>2. todo' \in [Server -> [Server -> Nat]] /\ Selfless'
  <2>2. todo' = [todo EXCEPT ![s][p] = @ - 1] /\ todo \in [Server -> [Server -> Nat]]
    BY DEF IInv, TypeOK, ConnectOther
  <2>1. todo[s][p] - 1 \in Nat
    BY <2>2 DEF ConnectOther, ToConnect
  <2> QED
    BY <1>1, <2>1, <2>2 DEF IInv, Selfless
<1>3. CASE p \in up
  <2>1. BeMyOther \in Packets /\ BeMyOther.others = Nobody
    BY NobodyType DEF BeMyOther, Packet, Packets
  <2>2. Connected(s, p, i, "follower", BeMyOther)
    BY <1>3 DEF ConnectOther
  <2>3. /\ i \in Ids
        /\ conns' \in Seq([from : Server, to : Server]) /\ Len(conns') <= MaxConns
        /\ clientType' \in [Server -> [Ids -> {"closed", "backlog", "user", "leader", "follower"}]]
        /\ serverType' \in [Server -> {"leader", "follower"}]
        /\ numsServer' \in [Server -> Nat]
        /\ wire' \in [Server -> [Ids -> Seq(Packets)]]
        /\ Lists' /\ Unmade' /\ Ends' /\ Counts'
    BY <1>1, <2>1, <2>2, ConnectedFacts
  <2>4. /\ DOMAIN leaderClients' = Server /\ DOMAIN followerClients' = Server
        /\ \A q \in Server :
             /\ leaderClients'[q] = IF q = s THEN Without(leaderClients[q], p) ELSE leaderClients[q]
             /\ followerClients'[q] = IF q = s THEN Emplaced(followerClients[q], p, i)
                                      ELSE followerClients[q]
    BY <1>3 DEF IInv, Tables, ConnectOther
  <2>5. \A q \in Server : Table(leaderClients'[q]) /\ Table(followerClients'[q])
    BY <2>3, <2>4, WithoutType, EmplacedType DEF IInv, TypeOK, Names
  <2>6. TypeOK'
    BY <1>2, <2>3, <2>5 DEF IInv, TypeOK, ConnectOther, runs, Packets
  <2> QED
    BY <1>2, <2>3, <2>4, <2>6 DEF IInv, Tables, LeaderStays, ConnectOther, runs
<1>4. CASE p \notin up
  <2>1. UNCHANGED <<runs, own, conns, clientType, wire>>
    BY <1>4 DEF ConnectOther
  <2>2. TypeOK'
    BY <1>2, <2>1 DEF IInv, TypeOK, runs, own, tables
  <2>3. Tables' /\ LeaderStays' /\ Unmade' /\ Ends'
    BY <2>1 DEF IInv, Tables, LeaderStays, Unmade, Ends, runs, own, tables
  <2>4. Lists'
    BY <2>1 DEF IInv, Lists, Harmless, Other
  <2>5. Counts'
    BY <2>1 DEF IInv, Counts, ServerConns, own
  <2> QED
    BY <1>2, <2>2, <2>3, <2>4, <2>5 DEF IInv
<1> QED
  BY <1>3, <1>4

LEMMA InvAccept == ASSUME IInv, NEW s \in Server, NEW i \in Ids, Accept(s, i) PROVE IInv'
<1>1. \A q \in Server, j \in Ids :
        clientType'[q][j] = IF q = s /\ j = i THEN "user" ELSE clientType[q][j]
  BY DEF IInv, TypeOK, Accept
<1>2. TypeOK'
  BY DEF IInv, TypeOK, Accept, runs, own, tables
<1>3. \A q \in Server : ServerConns(q)' = ServerConns(q)
  BY <1>1 DEF Accept, ServerConns
<1>4. Counts'
  BY <1>3 DEF IInv, Counts, Accept, own
<1>5. Unmade' /\ Ends'
  <2>1. conns' = conns /\ wire' = wire /\ clientType[s][i] = "backlog" /\ DOMAIN conns \subseteq Ids
    BY ConnsFacts DEF IInv, Accept
  <2>2. \A q \in Server, j \in Ids : clientType'[q][j] # "closed" => clientType[q][j] # "closed"
    BY <1>1, <2>1
  <2>3. Unmade'
    BY <2>1, <2>2 DEF IInv, Unmade
  <2>4. Ends'
    BY <2>1, <2>2 DEF IInv, Ends
  <2> QED
    BY <2>3, <2>4
<1>6. Tables' /\ LeaderStays' /\ Selfless'
  BY DEF IInv, Tables, LeaderStays, Selfless, Accept, runs, own, tables
<1>7. Lists'
  BY DEF IInv, Lists, Harmless, Other, Accept
<1> QED
  BY <1>2, <1>4, <1>5, <1>6, <1>7 DEF IInv

(* beMyCommand, for both kinds: the connection is a follower's now. *)
LEMMA FollowerFacts ==
  ASSUME IInv, NEW s \in Server, NEW i \in Ids, NEW type, Reads(s, i, type),
         numsServer' = [numsServer EXCEPT ![s] = OneMore(s, i)],
         BecomesFollower(s, i), UNCHANGED conns
  PROVE  /\ clientType' \in [Server -> [Ids -> {"closed", "backlog", "user", "leader", "follower"}]]
         /\ numsServer' \in [Server -> Nat]
         /\ Tables' /\ Ends' /\ Counts'
         /\ \A q \in Server : Table(leaderClients'[q]) /\ Table(followerClients'[q])
         /\ \A q \in Server, j \in Ids \ DOMAIN conns' : clientType'[q][j] = "closed"
<1>1. i \in DOMAIN conns /\ Name(s, i) \in Names
  BY ReadFacts, ConnsFacts DEF IInv
<1>2. \A q \in Server, j \in Ids :
        clientType'[q][j] = IF q = s /\ j = i THEN "follower" ELSE clientType[q][j]
  BY DEF IInv, TypeOK, BecomesFollower
<1>3. clientType' \in [Server -> [Ids -> {"closed", "backlog", "user", "leader", "follower"}]]
  BY DEF IInv, TypeOK, BecomesFollower
<1>4. /\ Tables'
      /\ \A q \in Server :
           /\ leaderClients'[q] = IF q = s THEN Without(leaderClients[q], Name(q, i)) ELSE leaderClients[q]
           /\ followerClients'[q] = IF q = s THEN Emplaced(followerClients[q], Name(q, i), i)
                                    ELSE followerClients[q]
  BY DEF IInv, Tables, BecomesFollower
<1>5. \A q \in Server : Table(leaderClients'[q]) /\ Table(followerClients'[q])
  BY <1>1, <1>4, WithoutType, EmplacedType DEF IInv, TypeOK
<1>6. Ends'
  BY <1>2, ConnsFacts DEF IInv, Ends, Reads
<1>7. ASSUME NEW q \in Server
      PROVE  numsServer'[q] = 1 + Cardinality(ServerConns(q)') /\ numsServer'[q] \in Nat
  <2>1. IsFiniteSet(ServerConns(q))
    BY IdsFinite, FS_Subset DEF ServerConns
  <2>2. Cardinality(ServerConns(q)) \in Nat
    BY <2>1, FS_CardinalityType
  <2>3. ServerConns(q)' = IF q = s THEN ServerConns(q) \cup {i} ELSE ServerConns(q)
    BY <1>2 DEF ServerConns
  <2>4. i \in ServerConns(s) <=> clientType[s][i] # "user"
    BY DEF ServerConns, Reads
  <2>5. Cardinality(ServerConns(q) \cup {i})
          = IF i \in ServerConns(q) THEN Cardinality(ServerConns(q)) ELSE Cardinality(ServerConns(q)) + 1
    BY <2>1, FS_AddElement
  <2>6. numsServer'[q] = IF q = s THEN OneMore(s, i) ELSE numsServer[q]
    BY DEF IInv, TypeOK
  <2> QED
    BY <2>2, <2>3, <2>4, <2>5, <2>6 DEF IInv, Counts, OneMore
<1>8. numsServer' \in [Server -> Nat]
  BY <1>7 DEF IInv, TypeOK
<1> QED
  BY <1>1, <1>2, <1>3, <1>4, <1>5, <1>6, <1>7, <1>8 DEF IInv, Unmade, Counts
LEMMA InvBeMyLeader ==
  ASSUME IInv, NEW s \in Server, NEW i \in Ids, BeMyLeaderCommand(s, i) PROVE IInv'
<1> DEFINE answer == Packet("otherFollower", Listed(s, i))
<1>1. /\ i \in DOMAIN conns
      /\ Read(s, i) \in [Server -> [Ids -> Seq(Packets)]]
      /\ \A p \in Server, j \in DOMAIN conns : Read(s, i)[p][j] \in Seq(Harmless(p, j))
  BY ReadFacts DEF IInv, BeMyLeaderCommand
<1>2. /\ clientType' \in [Server -> [Ids -> {"closed", "backlog", "user", "leader", "follower"}]]
      /\ numsServer' \in [Server -> Nat]
      /\ Tables' /\ Ends' /\ Counts'
      /\ \A q \in Server : Table(leaderClients'[q]) /\ Table(followerClients'[q])
      /\ \A q \in Server, j \in Ids \ DOMAIN conns' : clientType'[q][j] = "closed"
  BY FollowerFacts DEF BeMyLeaderCommand
<1>3. answer \in Harmless(s, i) /\ answer \in Packets
  <2> DEFINE filed == {followerClients'[s][n] : n \in DOMAIN followerClients'[s]}
  <2>1. filed \subseteq Ids
    BY <1>2 DEF Table
  <2>2. ASSUME NEW p \in Server PROVE Cardinality({j \in filed \ {i} : Other(s, j) = p}) \in Nat
    <3>1. {j \in filed \ {i} : Other(s, j) = p} \subseteq Ids
      BY <2>1
    <3> QED
      BY <3>1, IdsFinite, FS_Subset, FS_CardinalityType
  <2>3. Listed(s, i) \in [Server -> Nat]
    BY <2>2 DEF Listed
  <2>4. Other(s, i) \in Server /\ Listed(s, i)[Other(s, i)] = 0
    BY <1>1, ConnsFacts DEF IInv, Listed
  <2> QED
    BY <2>3, <2>4 DEF Packet, Packets, Harmless
<1> DEFINE r == Read(s, i)
<1>4. /\ wire' \in [Server -> [Ids -> Seq(Packets)]]
      /\ \A p \in Server, j \in Ids :
           \/ wire'[p][j] = r[p][j]
           \/ p = s /\ j = i /\ wire'[p][j] = Append(r[p][j], answer)
  <2>1. PICK silent \in BOOLEAN :
          wire' = [r EXCEPT ![s][i] = IF silent THEN @ ELSE Append(@, answer)]
    BY DEF BeMyLeaderCommand
  <2>2. r \in [Server -> [Ids -> Seq(Packets)]]
    BY <1>1
  <2> HIDE DEF r, answer
  <2>3. Append(r[s][i], answer) \in Seq(Packets)
    BY <1>3, <2>2
  <2>4. \A p \in Server, j \in Ids :
          wire'[p][j] = IF p = s /\ j = i /\ ~silent THEN Append(r[p][j], answer) ELSE r[p][j]
    BY <2>1, <2>2
  <2> QED
    BY <2>1, <2>2, <2>3, <2>4
<1>6. Lists'
  <2> SUFFICES ASSUME NEW p \in Server, NEW j \in DOMAIN conns
               PROVE  wire'[p][j] \in Seq(Harmless(p, j))
    BY DEF Lists, Harmless, Other, BeMyLeaderCommand
  <2>1. j \in Ids /\ r[p][j] \in Seq(Harmless(p, j))
    BY <1>1, ConnsFacts DEF IInv
  <2> HIDE DEF r, answer
  <2>2. wire'[p][j] = r[p][j] \/ (p = s /\ j = i /\ wire'[p][j] = Append(r[p][j], answer))
    BY <1>4, <2>1
  <2>3. p = s /\ j = i => answer \in Harmless(p, j)
    BY <1>3
  <2>4. p = s /\ j = i => Append(r[p][j], answer) \in Seq(Harmless(p, j))
    BY <2>1, <2>3
  <2> QED
    BY <2>1, <2>2, <2>4
<1>7. Unmade'
  <2>1. ASSUME NEW p \in Server, NEW j \in Ids \ DOMAIN conns PROVE wire'[p][j] = <<>>
    <3>1. r[p][j] = wire[p][j]
      BY <1>1 DEF IInv, TypeOK, Read
    <3> HIDE DEF r, answer
    <3>2. wire'[p][j] = r[p][j]
      BY <1>1, <1>4
    <3> QED
      BY <3>1, <3>2 DEF IInv, Unmade
  <2> QED
    BY <1>2, <2>1 DEF Unmade, BeMyLeaderCommand
<1>8. TypeOK'
  <2>1. serverType' \in [Server -> {"leader", "follower"}]
    BY DEF IInv, TypeOK, BeMyLeaderCommand
  <2> QED
    BY <1>2, <1>4, <2>1 DEF IInv, TypeOK, BeMyLeaderCommand, runs, Packets
<1> QED
  BY <1>2, <1>6, <1>7, <1>8 DEF IInv, LeaderStays, Selfless, BeMyLeaderCommand, runs

LEMMA InvBeMyOther ==
  ASSUME IInv, NEW s \in Server, NEW i \in Ids, BeMyOtherCommand(s, i) PROVE IInv'
<1>1. /\ i \in DOMAIN conns
      /\ Read(s, i) \in [Server -> [Ids -> Seq(Packets)]]
      /\ \A p \in Server, j \in DOMAIN conns : Read(s, i)[p][j] \in Seq(Harmless(p, j))
  BY ReadFacts DEF IInv, BeMyOtherCommand
<1>2. /\ clientType' \in [Server -> [Ids -> {"closed", "backlog", "user", "leader", "follower"}]]
      /\ numsServer' \in [Server -> Nat]
      /\ Tables' /\ Ends' /\ Counts'
      /\ \A q \in Server : Table(leaderClients'[q]) /\ Table(followerClients'[q])
      /\ \A q \in Server, j \in Ids \ DOMAIN conns' : clientType'[q][j] = "closed"
  BY FollowerFacts DEF BeMyOtherCommand
<1>3. wire' = Read(s, i)
  BY DEF BeMyOtherCommand
<1>4. Lists'
  BY <1>1, <1>3 DEF Lists, Harmless, Other, BeMyOtherCommand
<1>5. Unmade'
  <2>1. ASSUME NEW p \in Server, NEW j \in Ids \ DOMAIN conns PROVE wire'[p][j] = <<>>
    BY <1>1, <1>3 DEF IInv, TypeOK, Unmade, Read
  <2> QED
    BY <1>2, <2>1 DEF Unmade, BeMyOtherCommand
<1>6. TypeOK'
  <2>1. serverType' \in [Server -> {"leader", "follower"}]
    BY DEF IInv, TypeOK, BeMyOtherCommand
  <2> QED
    BY <1>1, <1>2, <1>3, <2>1 DEF IInv, TypeOK, BeMyOtherCommand, runs, Packets
<1> QED
  BY <1>2, <1>4, <1>5, <1>6 DEF IInv, LeaderStays, Selfless, BeMyOtherCommand, runs
LEMMA InvOtherFollower ==
  ASSUME IInv, NEW s \in Server, NEW i \in Ids, OtherFollowerCommand(s, i) PROVE IInv'
<1> DEFINE packet == Head(wire[Other(s, i)][i])
<1>1. /\ i \in DOMAIN conns /\ packet \in Packets /\ packet.others[s] = 0
      /\ Read(s, i) \in [Server -> [Ids -> Seq(Packets)]]
      /\ \A p \in Server, j \in DOMAIN conns : Read(s, i)[p][j] \in Seq(Harmless(p, j))
  BY ReadFacts DEF IInv, OtherFollowerCommand
<1>2. todo' = [todo EXCEPT ![s] = packet.others] /\ wire' = Read(s, i)
  BY DEF OtherFollowerCommand
<1>3. todo' \in [Server -> [Server -> Nat]] /\ Selfless'
  <2>1. packet.others \in [Server -> Nat]
    BY <1>1 DEF Packets
  <2>2. todo \in [Server -> [Server -> Nat]]
    BY DEF IInv, TypeOK
  <2> QED
    BY <1>1, <1>2, <2>1, <2>2 DEF IInv, Selfless
<1>4. UNCHANGED <<runs, own, conns, clientType>>
  BY DEF OtherFollowerCommand
<1>5. TypeOK'
  BY <1>1, <1>2, <1>3, <1>4 DEF IInv, TypeOK, runs, own, tables, Packets
<1>6. Lists'
  <2>1. conns' = conns
    BY <1>4
  <2>2. \A p, j : Harmless(p, j)' = Harmless(p, j)
    BY <2>1 DEF Harmless, Other
  <2> QED
    BY <1>1, <1>2, <2>1, <2>2 DEF Lists
<1>7. Unmade'
  <2>1. ASSUME NEW p \in Server, NEW j \in Ids \ DOMAIN conns PROVE wire'[p][j] = <<>>
    BY <1>1, <1>2 DEF IInv, TypeOK, Unmade, Read
  <2> QED
    BY <1>4, <2>1 DEF IInv, Unmade
<1>8. Counts'
  BY <1>4 DEF IInv, Counts, ServerConns, own
<1> QED
  BY <1>3, <1>4, <1>5, <1>6, <1>7, <1>8 DEF IInv, Tables, LeaderStays, Ends, runs, own, tables

LEMMA InvCloseClient ==
  ASSUME IInv, NEW s \in Server, NEW i \in Ids, CloseClient(s, i) PROVE IInv'
<1>1. /\ i \in DOMAIN conns
      /\ Read(s, i) \in [Server -> [Ids -> Seq(Packets)]]
      /\ \A p \in Server, j \in DOMAIN conns : Read(s, i)[p][j] \in Seq(Harmless(p, j))
  BY ReadFacts DEF IInv, CloseClient
<1>2. /\ clientType' \in [Server -> [Ids -> {"closed", "backlog", "user", "leader", "follower"}]]
      /\ \A q \in Server, j \in Ids :
           clientType'[q][j] = IF q = s /\ j = i THEN "closed" ELSE clientType[q][j]
  BY DEF IInv, TypeOK, CloseClient
<1>3. wire' = Read(s, i) /\ conns' = conns
  BY DEF CloseClient
<1>4. /\ Tables'
      /\ \A q \in Server :
           /\ leaderClients'[q] = IF q = s THEN Without(leaderClients[q], Name(s, i)) ELSE leaderClients[q]
           /\ followerClients'[q] = IF q = s THEN Without(followerClients[q], Name(s, i))
                                    ELSE followerClients[q]
  BY DEF IInv, Tables, CloseClient
<1>5. \A q \in Server : Table(leaderClients'[q]) /\ Table(followerClients'[q])
  BY <1>4, WithoutType DEF IInv, TypeOK
<1>6. ASSUME NEW q \in Server
      PROVE  numsServer'[q] = 1 + Cardinality(ServerConns(q)') /\ numsServer'[q] \in Nat
  <2>1. IsFiniteSet(ServerConns(q)) /\ IsFiniteSet(ServerConns(q) \ {i})
    BY IdsFinite, FS_Subset DEF ServerConns
  <2>2. Cardinality(ServerConns(q)) \in Nat /\ Cardinality(ServerConns(q) \ {i}) \in Nat
    BY <2>1, FS_CardinalityType
  <2>3. ServerConns(q)' = IF q = s THEN ServerConns(q) \ {i} ELSE ServerConns(q)
    BY <1>2 DEF ServerConns
  <2>4. i \in ServerConns(s) <=> clientType[s][i] # "user"
    BY DEF ServerConns, CloseClient, Reads
  <2>5. Cardinality(ServerConns(q) \ {i})
          = IF i \in ServerConns(q) THEN Cardinality(ServerConns(q)) - 1 ELSE Cardinality(ServerConns(q))
    BY <2>1, FS_RemoveElement
  <2>6. numsServer'[q] = IF q = s THEN OneLess(s, i) ELSE numsServer[q]
    BY DEF IInv, TypeOK, CloseClient
  <2> QED
    BY <2>2, <2>3, <2>4, <2>5, <2>6 DEF IInv, Counts, OneLess
<1>7. TypeOK'
  <2>1. numsServer' \in [Server -> Nat]
    BY <1>6 DEF IInv, TypeOK, CloseClient
  <2> QED
    BY <1>1, <1>2, <1>3, <1>5, <2>1 DEF IInv, TypeOK, CloseClient, runs, Packets
<1>8. Lists'
  BY <1>1, <1>3 DEF Lists, Harmless, Other
<1>9. Unmade' /\ Ends'
  <2>1. ASSUME NEW p \in Server, NEW j \in Ids \ DOMAIN conns PROVE wire'[p][j] = <<>>
    BY <1>1, <1>3 DEF IInv, TypeOK, Unmade, Read
  <2>2. Unmade'
    BY <1>2, <1>3, <2>1 DEF IInv, Unmade
  <2>3. Ends'
    BY <1>2, <1>3, ConnsFacts DEF IInv, Ends
  <2> QED
    BY <2>2, <2>3
<1> QED
  BY <1>4, <1>6, <1>7, <1>8, <1>9 DEF IInv, LeaderStays, Selfless, Counts, CloseClient, runs

LEMMA InvCrash == ASSUME IInv, NEW s \in Server, Crash(s) PROVE IInv'
<1>1. /\ clientType' \in [Server -> [Ids -> {"closed", "backlog", "user", "leader", "follower"}]]
      /\ \A q \in Server, j \in Ids :
           clientType'[q][j] = IF q = s THEN "closed" ELSE clientType[q][j]
  BY DEF IInv, TypeOK, Crash
<1>2. /\ Tables'
      /\ \A q \in Server :
           /\ leaderClients'[q] = IF q = s THEN [n \in {} |-> 0] ELSE leaderClients[q]
           /\ followerClients'[q] = IF q = s THEN [n \in {} |-> 0] ELSE followerClients[q]
  BY DEF IInv, Tables, Crash
<1>3. \A q \in Server : Table(leaderClients'[q]) /\ Table(followerClients'[q])
  <2>1. Table([n \in {} |-> 0])
    BY DEF Table
  <2> QED
    BY <1>2, <2>1 DEF IInv, TypeOK
<1>4. conns' = conns
  BY DEF Crash
<1>5. PICK lost \in BOOLEAN :
        wire' = [p \in Server |-> [i \in Ids |->
          IF clientType[s][i] = "closed" THEN wire[p][i]
          ELSE IF p # s THEN <<>>
          ELSE IF clientType[Other(s, i)][i] = "closed" THEN <<>>
          ELSE IF lost THEN <<FIN>> ELSE Append(wire[s][i], FIN)]]
  BY DEF Crash
<1>6. ASSUME NEW p \in Server, NEW j \in Ids, NEW S, FIN \in S, wire[p][j] \in Seq(S)
      PROVE  wire'[p][j] \in Seq(S)
  BY <1>5, <1>6
<1>7. FIN \in Packets /\ FIN.others = Nobody
  BY NobodyType DEF FIN, Packet, Packets
<1>8. wire' \in [Server -> [Ids -> Seq(Packets)]]
  <2>1. \A p \in Server, j \in Ids : wire[p][j] \in Seq(Packets)
    BY DEF IInv, TypeOK, Packets
  <2>2. \A p \in Server, j \in Ids : wire'[p][j] \in Seq(Packets)
    BY <1>6, <1>7, <2>1
  <2> QED
    BY <1>5, <2>2
<1>9. Lists'
  <2> SUFFICES ASSUME NEW p \in Server, NEW j \in DOMAIN conns
               PROVE  wire'[p][j] \in Seq(Harmless(p, j))
    BY <1>4 DEF Lists, Harmless, Other
  <2>1. j \in Ids /\ Other(p, j) \in Server
    BY ConnsFacts DEF IInv
  <2>2. FIN \in Harmless(p, j)
    BY <1>7, <2>1, NobodyType DEF Harmless
  <2> QED
    BY <1>6, <2>1, <2>2 DEF IInv, Lists
<1>10. Unmade' /\ Ends'
  <2>1. ASSUME NEW p \in Server, NEW j \in Ids \ DOMAIN conns PROVE wire'[p][j] = <<>>
    BY <1>5 DEF IInv, Unmade, Crash
  <2>2. Unmade'
    BY <1>1, <1>4, <2>1 DEF IInv, Unmade
  <2>3. Ends'
    <3>1. DOMAIN conns \subseteq Ids
      BY ConnsFacts DEF IInv
    <3>2. \A q \in Server, j \in DOMAIN conns :
            clientType'[q][j] # "closed" => clientType[q][j] # "closed"
      BY <1>1, <3>1
    <3> QED
      BY <1>4, <3>2 DEF IInv, Ends
  <2> QED
    BY <2>2, <2>3
<1>11. TypeOK'
  <2>1. todo' \in [Server -> [Server -> Nat]]
    BY NobodyType DEF IInv, TypeOK, Crash
  <2>2. /\ up' \subseteq Server /\ toJoin' \subseteq Server /\ restarted' \subseteq Server
        /\ crashes' \in Nat
    <3>1. UNCHANGED <<toJoin, restarted>> /\ up' = up \ {s} /\ crashes' = crashes + 1
      BY DEF Crash
    <3>2. up \subseteq Server /\ toJoin \subseteq Server /\ restarted \subseteq Server /\ crashes \in Nat
      BY DEF IInv, TypeOK
    <3> QED
      BY <3>1, <3>2
  <2>3. serverType' \in [Server -> {"leader", "follower"}]
    BY DEF IInv, TypeOK, Crash
  <2>4. numsServer' \in [Server -> Nat]
    <3>1. numsServer' = [numsServer EXCEPT ![s] = 1] /\ numsServer \in [Server -> Nat]
      BY DEF IInv, TypeOK, Crash
    <3> QED
      BY <3>1
  <2> QED
    BY <1>1, <1>3, <1>4, <1>8, <2>1, <2>2, <2>3, <2>4 DEF IInv, TypeOK, Packets
<1>12. ASSUME NEW q \in Server
       PROVE  numsServer'[q] = 1 + Cardinality(ServerConns(q)')
  <2>1. numsServer'[q] = IF q = s THEN 1 ELSE numsServer[q]
    BY DEF IInv, TypeOK, Crash
  <2>2. ServerConns(q)' = IF q = s THEN {} ELSE ServerConns(q)
    BY <1>1 DEF ServerConns
  <2> QED
    BY <2>1, <2>2, FS_EmptySet DEF IInv, Counts
<1>13. LeaderStays' /\ Selfless'
  <2>1. todo' = [todo EXCEPT ![s] = Nobody] /\ todo \in [Server -> [Server -> Nat]]
    BY DEF IInv, TypeOK, Crash
  <2> QED
    BY <2>1, NobodyType DEF IInv, LeaderStays, Selfless, Crash
<1> QED
  BY <1>2, <1>9, <1>10, <1>11, <1>12, <1>13 DEF IInv, Counts

LEMMA InvRestart == ASSUME IInv, NEW s \in Server, Restart(s) PROVE IInv'
<1>1. UNCHANGED <<crashes, own, conns, clientType, wire, todo>>
  BY DEF Restart
<1>2. TypeOK'
  BY <1>1 DEF IInv, TypeOK, Restart, own, tables
<1>3. LeaderStays'
  BY DEF IInv, LeaderStays, Restart
<1>4. Lists' /\ Counts'
  BY <1>1 DEF IInv, Lists, Harmless, Other, Counts, ServerConns, own
<1> QED
  BY <1>1, <1>2, <1>3, <1>4 DEF IInv, Tables, Selfless, Unmade, Ends, own, tables

LEMMA InvNext == IInv /\ [Next]_vars => IInv'
<1> SUFFICES ASSUME IInv, [Next]_vars PROVE IInv'
  OBVIOUS
<1>1. CASE UNCHANGED vars
  <2>1. TypeOK' /\ Tables' /\ LeaderStays' /\ Selfless' /\ Unmade' /\ Ends'
    BY <1>1 DEF IInv, TypeOK, Tables, LeaderStays, Selfless, Unmade, Ends, vars, runs, own, tables
  <2>2. Lists' /\ Counts'
    BY <1>1 DEF IInv, Lists, Harmless, Other, Counts, ServerConns, vars, own
  <2> QED
    BY <2>1, <2>2 DEF IInv
<1>2. ASSUME NEW s \in Server, Slaveof(s) \/ Crash(s) \/ Restart(s) PROVE IInv'
  BY <1>2, InvSlaveof, InvCrash, InvRestart
<1>3. ASSUME NEW s \in Server, NEW i \in Ids, Handle(s, i) PROVE IInv'
  BY <1>3, InvAccept, InvBeMyLeader, InvBeMyOther, InvOtherFollower, InvCloseClient DEF Handle
<1>4. ASSUME NEW s \in Server, NEW p \in Server, ConnectOther(s, p) PROVE IInv'
  BY <1>4, InvConnectOther
<1> QED
  BY <1>1, <1>2, <1>3, <1>4 DEF Next

LEMMA Invariant == Spec => []IInv
BY InvInit, InvNext, PTL DEF Spec

-----------------------------------------------------------------------------
(* Every variable keeps its type. *)
THEOREM TypeCorrect == Spec => []TypeOK
<1>1. IInv => TypeOK
  BY DEF IInv
<1> QED
  BY <1>1, Invariant, PTL

(* The number election() takes its majority of is one more than the        *)
(* connections to servers, however servers join, stop and come back.       *)
THEOREM NumsServerExact == Spec => []CountsServers
<1>1. IInv => CountsServers
  BY DEF IInv, TypeOK, Counts, CountsServers
<1> QED
  BY <1>1, Invariant, PTL

-----------------------------------------------------------------------------
(* The mesh.  Which connection a server has with which, and what is on its  *)
(* way over them, is the work of several handlers: the leader answers a     *)
(* newcomer once and names to it those that asked before, so that of two    *)
(* newcomers only the later one learns of the other.  This is Order below;  *)
(* the other parts say what may be on a connection while it is so.          *)

(* What the servers that join leave on their connections to the leader:     *)
(* the request, the end of the connection, or both.                         *)
Done   == {<<>>, <<FIN>>}
Asking == {<<BeMyLeader>>, <<BeMyLeader, FIN>>}

IsList(q) == Len(q) = 1 /\ q[1].type = "otherFollower" /\ q[1].others[Leader] = 0
Plain(q)  == \A k \in DOMAIN q : q[k].type \in {"beMy otherfollower", "FIN"}

Made(s, p, i) == i \in DOMAIN conns /\ conns[i].from = s /\ conns[i].to = p
Open(s, i)    == clientType[s][i] # "closed"

(* s has no open connection that it made but i, and no list to go through.  *)
Alone(s, i) ==
  todo[s] = Nobody /\ \A p \in Server, j \in Ids : Made(s, p, j) /\ j # i => ~Open(s, j)

LeaderAccepts ==
  /\ \A p \in Server, i \in Ids : ~Made(Leader, p, i)
  /\ todo[Leader] = Nobody
  /\ \A s \in Server : todo[s][Leader] = 0

(* A newcomer asks on its only connection and the leader answers on it once. *)
Joining(s, i) ==
  /\ wire[s][i] \in Done \cup Asking
  /\ clientType[Leader][i] = "follower" => wire[s][i] \in Done
  /\ ~Open(s, i) => wire[Leader][i] = <<>>
  /\ Open(s, i) =>
       /\ wire[s][i] \in {<<>>, <<BeMyLeader>>}
       /\ wire[Leader][i] = <<>> \/ IsList(wire[Leader][i])
       /\ wire[s][i] # <<>> => wire[Leader][i] = <<>>
       /\ wire[s][i] # <<>> \/ wire[Leader][i] # <<>> => Alone(s, i)

Joins  == \A s \in Server, i \in Ids : Made(s, Leader, i) => Joining(s, i)
Plains == \A s, p, q \in Server, i \in Ids : Made(s, p, i) /\ p # Leader => Plain(wire[q][i])

Down == \A s \in Server \ up : todo[s] = Nobody /\ \A i \in Ids : ~Open(s, i)

Waiting ==
  \A s \in toJoin :
    /\ todo[s] = Nobody
    /\ \A p \in Server, i \in Ids : Made(s, p, i) => ~Open(s, i) /\ s \in restarted

OneJoin ==
  \A s \in Server, i, j \in Ids :
    /\ Made(s, Leader, i) /\ Made(s, Leader, j)
    /\ s \notin restarted \/ (Open(s, i) /\ Open(s, j))
    => i = j

(* A server that was not started again is named once to another, or is      *)
(* connected to by it once, and not both.                                   *)
Peer == Server \ (restarted \cup {Leader})

Once ==
  \A s \in Server, p \in Peer :
    /\ todo[s][p] <= 1
    /\ \A i \in Ids : Made(s, Leader, i) /\ wire[Leader][i] # <<>> => wire[Leader][i][1].others[p] <= 1
    /\ \A i, j \in Ids : Made(s, p, i) /\ Made(s, p, j) /\ Open(s, i) /\ Open(s, j) => i = j
    /\ todo[s][p] > 0 => \A i \in Ids : Made(s, p, i) => ~Open(s, i)

Files ==
  \A s \in Server, n \in Names, i \in Ids :
    /\ n \in DOMAIN leaderClients[s] /\ leaderClients[s][n] = i => Name(s, i) = n /\ clientType[s][i] = "leader"
    /\ n \in DOMAIN followerClients[s] /\ followerClients[s][n] = i => Name(s, i) = n /\ clientType[s][i] = "follower"

Found ==
  \A s \in Server, i \in Ids :
    clientType[s][i] \in {"leader", "follower"} /\ Other(s, i) \notin restarted =>
      Name(s, i) \in DOMAIN leaderClients[s] \cup DOMAIN followerClients[s]

(* The leader has answered s; s is named to p, or was.                      *)
Answered(s) ==
  s \notin toJoin /\ \A i \in Ids : Made(s, Leader, i) => wire[s][i] \in Done

Named(s, p) ==
  \/ todo[p][s] > 0
  \/ \E i \in Ids : Made(p, Leader, i) /\ wire[Leader][i] # <<>> /\ wire[Leader][i][1].others[s] > 0
  \/ \E i \in Ids : Made(p, s, i)

(* Of two servers only the one that joined last has the other's name.       *)
Order ==
  \A p \in Server, s \in Peer :
    Named(s, p) => Answered(s) /\ (p \notin restarted => ~Named(p, s))

Mesh == /\ LeaderAccepts /\ Joins /\ Plains /\ Down /\ Waiting /\ OneJoin /\ Once
        /\ Files /\ Found /\ Order

LEMMA Distinct ==
  /\ BeMyLeader.type = "beMy leader" /\ FIN.type = "FIN" /\ BeMyOther.type = "beMy otherfollower"
  /\ BeMyLeader # FIN
BY DEF BeMyLeader, FIN, BeMyOther, Packet

(* What is left of what a newcomer wrote, and what a stop adds to it. *)
LEMMA Shapes ==
  /\ <<>> \in Done /\ <<BeMyLeader>> \in Asking
  /\ \A q \in Asking : q \notin Done /\ q # <<>>
  /\ \A q \in Done \cup Asking : q # <<>> =>
       /\ Head(q).type = "beMy leader" => /\ q \in Asking /\ Tail(q) \in Done
                                          /\ q = <<BeMyLeader>> => Tail(q) = <<>>
       /\ Head(q).type = "FIN" => q = <<FIN>> /\ Tail(q) = <<>>
       /\ Head(q).type \in {"beMy leader", "FIN"}
  /\ Append(<<>>, FIN) \in Done /\ Append(<<BeMyLeader>>, FIN) \in Asking
  /\ <<FIN>> \in Done /\ <<FIN>> # <<>> /\ <<FIN>> # <<BeMyLeader>>
<1>1. <<BeMyLeader>> # <<FIN>> /\ <<BeMyLeader>>[1].type = "beMy leader" /\ <<FIN>>[1].type = "FIN"
      /\ <<BeMyLeader, FIN>>[1].type = "beMy leader"
  BY Distinct
<1>2. /\ Tail(<<BeMyLeader>>) = <<>> /\ Tail(<<FIN>>) = <<>> /\ Tail(<<BeMyLeader, FIN>>) = <<FIN>>
      /\ Head(<<BeMyLeader>>) = BeMyLeader /\ Head(<<FIN>>) = FIN /\ Head(<<BeMyLeader, FIN>>) = BeMyLeader
      /\ Append(<<>>, FIN) = <<FIN>> /\ Append(<<BeMyLeader>>, FIN) = <<BeMyLeader, FIN>>
  <2>1. Tail(<<BeMyLeader>>) = <<>> /\ Tail(<<FIN>>) = <<>>
    OBVIOUS
  <2>2. Tail(<<BeMyLeader, FIN>>) = <<FIN>>
    OBVIOUS
  <2>3. Head(<<BeMyLeader>>) = BeMyLeader /\ Head(<<FIN>>) = FIN /\ Head(<<BeMyLeader, FIN>>) = BeMyLeader
    OBVIOUS
  <2>4. Append(<<>>, FIN) = <<FIN>>
    OBVIOUS
  <2>5. Append(<<BeMyLeader>>, FIN) = <<BeMyLeader, FIN>>
    <3>1. Append(<<BeMyLeader>>, FIN) \in Seq({BeMyLeader, FIN})
          /\ <<BeMyLeader, FIN>> \in Seq({BeMyLeader, FIN})
      OBVIOUS
    <3>2. Len(Append(<<BeMyLeader>>, FIN)) = 2 /\ Len(<<BeMyLeader, FIN>>) = 2
      OBVIOUS
    <3>3. \A k \in 1..2 : Append(<<BeMyLeader>>, FIN)[k] = <<BeMyLeader, FIN>>[k]
      OBVIOUS
    <3> QED
      BY <3>1, <3>2, <3>3, SeqEqual
  <2> QED
    BY <2>1, <2>2, <2>3, <2>4, <2>5
<1>3. <<BeMyLeader, FIN>> # <<BeMyLeader>> /\ <<BeMyLeader, FIN>> # <<FIN>> /\ <<BeMyLeader, FIN>> # <<>>
      /\ <<BeMyLeader>> # <<>> /\ <<FIN>> # <<>>
  OBVIOUS
<1> HIDE DEF Done
<1>4. /\ <<>> \in Done /\ <<FIN>> \in Done /\ \A q \in Done : q = <<>> \/ q = <<FIN>>
      /\ <<BeMyLeader>> \in Asking /\ <<BeMyLeader, FIN>> \in Asking
      /\ \A q \in Asking : q = <<BeMyLeader>> \/ q = <<BeMyLeader, FIN>>
  BY DEF Done, Asking
<1> QED
  BY <1>1, <1>2, <1>3, <1>4, Distinct

LEMMA ListShape ==
  ASSUME NEW S, NEW q \in Seq(S), IsList(q)
  PROVE  q # <<>> /\ Head(q) = q[1] /\ Head(q).type = "otherFollower" /\ Tail(q) = <<>>
<1>1. Len(q) = 1 /\ q[1].type = "otherFollower"
  BY DEF IsList
<1>2. q # <<>> /\ Head(q) = q[1]
  BY <1>1
<1>3. Tail(q) \in Seq(S) /\ Len(Tail(q)) = 0
  BY <1>1, <1>2
<1>4. Tail(q) = <<>>
  BY <1>3, EmptySeq
<1> QED
  BY <1>1, <1>2, <1>4

LEMMA PlainTail ==
  ASSUME NEW S, NEW q \in Seq(S), Plain(q), q # <<>>
  PROVE  Plain(Tail(q)) /\ Head(q).type \in {"beMy otherfollower", "FIN"}
<1>1. Head(q) = q[1] /\ 1 \in DOMAIN q
  OBVIOUS
<1>2. \A k \in DOMAIN Tail(q) : Tail(q)[k] = q[k + 1] /\ k + 1 \in DOMAIN q
  OBVIOUS
<1> QED
  BY <1>1, <1>2 DEF Plain

LEMMA PlainBasics ==
  /\ Plain(<<>>) /\ Plain(<<FIN>>) /\ Plain(<<BeMyOther>>)
  /\ \A q \in Seq(Packets) : Plain(q) => Plain(Append(q, FIN))
<1>1. Plain(<<>>) /\ Plain(<<FIN>>) /\ Plain(<<BeMyOther>>)
  <2>1. Plain(<<>>)
    <3>1. DOMAIN <<>> = {}
      OBVIOUS
    <3> QED
      BY <3>1 DEF Plain
  <2>2. \A k \in DOMAIN <<FIN>> : <<FIN>>[k] = FIN
    OBVIOUS
  <2>3. Plain(<<FIN>>)
    BY <2>2, Distinct DEF Plain
  <2>5. \A k \in DOMAIN <<BeMyOther>> : <<BeMyOther>>[k] = BeMyOther
    OBVIOUS
  <2>4. Plain(<<BeMyOther>>)
    BY <2>5, Distinct DEF Plain
  <2> QED
    BY <2>1, <2>3, <2>4
<1>2. ASSUME NEW q \in Seq(Packets), Plain(q) PROVE Plain(Append(q, FIN))
  <2>1. \A k \in DOMAIN Append(q, FIN) : Append(q, FIN)[k] = FIN \/ (k \in DOMAIN q /\ Append(q, FIN)[k] = q[k])
    OBVIOUS
  <2> QED
    BY <1>2, <2>1, Distinct DEF Plain
<1> QED
  BY <1>1, <1>2

(* Both ends of a connection, and its only two possible readers. *)
LEMMA MadeFacts ==
  ASSUME IInv, LeaderAccepts
  PROVE  /\ Leader \in Server /\ DOMAIN conns \subseteq Ids
         /\ \A i \in DOMAIN conns : \E s, p \in Server : Made(s, p, i)
         /\ \A s, p, q, r, i : Made(s, p, i) /\ Made(q, r, i) => s = q /\ p = r
         /\ \A s, p \in Server, i \in Ids : Made(s, p, i) => s # Leader /\ Other(s, i) = p
         /\ \A s, p, q \in Server, i \in Ids : Made(s, p, i) /\ Open(q, i) => q = s \/ q = p
         /\ \A s, p \in Server, i \in Ids : Made(s, p, i) /\ s # p => Other(p, i) = s
<1>1. Leader \in Server
  BY MembershipConstants
<1>2. /\ DOMAIN conns \subseteq Ids
      /\ \A i \in DOMAIN conns : conns[i].from \in Server /\ conns[i].to \in Server
  BY ConnsFacts DEF IInv
<1>3. \A s, p, q \in Server, i \in Ids : Made(s, p, i) /\ Open(q, i) => q = s \/ q = p
  BY DEF IInv, Ends, Made, Open
<1> QED
  BY <1>1, <1>2, <1>3 DEF Made, Other, LeaderAccepts

(* Who can read what from a connection of a to p: the leader requests, the  *)
(* newcomer its answer, and between newcomers there is neither.             *)
ReadKind(s, i, type, a, p) ==
  \/ /\ p = Leader /\ s = Leader /\ Other(s, i) = a /\ type = "beMy leader"
     /\ wire[a][i] \in Asking /\ Tail(wire[a][i]) \in Done
     /\ Open(a, i) => Tail(wire[a][i]) = <<>> /\ wire[Leader][i] = <<>> /\ Alone(a, i)
  \/ /\ p = Leader /\ s = Leader /\ Other(s, i) = a /\ type = "FIN"
     /\ wire[a][i] = <<FIN>> /\ Tail(wire[a][i]) = <<>> /\ ~Open(a, i)
  \/ /\ p = Leader /\ s = a /\ Other(s, i) = Leader /\ type = "otherFollower"
     /\ IsList(wire[Leader][i]) /\ Tail(wire[Leader][i]) = <<>>
     /\ Head(wire[Leader][i]) = wire[Leader][i][1]
     /\ Alone(a, i) /\ Open(a, i) /\ wire[a][i] = <<>>
  \/ /\ p # Leader /\ s \in {a, p} /\ s # Leader /\ type \in {"beMy otherfollower", "FIN"}

LEMMA MeshReads ==
  ASSUME IInv, Mesh, NEW s \in Server, NEW i \in Ids, NEW type, Reads(s, i, type)
  PROVE  \E a, p \in Server : Made(a, p, i) /\ ReadKind(s, i, type, a, p)
<1>1. /\ i \in DOMAIN conns /\ Other(s, i) \in Server
      /\ s \in up /\ Open(s, i)
      /\ wire[Other(s, i)][i] # <<>> /\ Head(wire[Other(s, i)][i]).type = type
      /\ wire[Other(s, i)][i] \in Seq(Packets) /\ wire[Leader][i] \in Seq(Packets)
  <2>1. i \in DOMAIN conns /\ Other(s, i) \in Server
    BY ReadFacts DEF IInv
  <2>2. \A q \in Server : wire[q][i] \in Seq(Packets)
    BY DEF IInv, TypeOK, Packets
  <2>3. s \in up /\ Open(s, i) /\ wire[Other(s, i)][i] # <<>> /\ Head(wire[Other(s, i)][i]).type = type
    BY DEF Reads, Open
  <2> QED
    BY <2>1, <2>2, <2>3, MembershipConstants
<1>2. LeaderAccepts /\ Joins /\ Plains
  BY DEF Mesh
<1>3. PICK a, p \in Server : Made(a, p, i)
  BY <1>1, <1>2, MadeFacts
<1>4. /\ a # Leader /\ s \in {a, p} /\ Leader \in Server
      /\ s = a => Other(s, i) = p
      /\ s = p /\ a # p => Other(s, i) = a
  BY <1>1, <1>2, <1>3, MadeFacts
<1>5. CASE p # Leader
  <2>1. Plain(wire[Other(s, i)][i])
    BY <1>1, <1>2, <1>3, <1>5 DEF Plains
  <2>2. type \in {"beMy otherfollower", "FIN"}
    BY <1>1, <2>1, PlainTail
  <2> QED
    BY <1>3, <1>4, <1>5, <2>2 DEF ReadKind
<1>6. CASE p = Leader /\ s = Leader
  <2>1. Other(s, i) = a /\ Joining(a, i)
    BY <1>2, <1>3, <1>4, <1>6 DEF Joins
  <2>2. wire[a][i] \in Done \cup Asking /\ wire[a][i] # <<>> /\ Head(wire[a][i]).type = type
    BY <1>1, <2>1 DEF Joining
  <2>3. Open(a, i) => wire[a][i] = <<BeMyLeader>> /\ wire[Leader][i] = <<>> /\ Alone(a, i)
    BY <2>1, <2>2 DEF Joining
  <2>4. CASE type = "beMy leader"
    <3>1. wire[a][i] \in Asking /\ Tail(wire[a][i]) \in Done
          /\ (wire[a][i] = <<BeMyLeader>> => Tail(wire[a][i]) = <<>>)
      BY <2>2, <2>4, Shapes
    <3> QED
      BY <1>3, <1>6, <2>1, <2>3, <2>4, <3>1 DEF ReadKind
  <2>5. CASE type = "FIN"
    <3>1. wire[a][i] = <<FIN>> /\ Tail(wire[a][i]) = <<>> /\ ~Open(a, i)
      BY <2>2, <2>3, <2>5, Shapes
    <3> QED
      BY <1>3, <1>6, <2>1, <2>5, <3>1 DEF ReadKind
  <2> QED
    BY <2>2, <2>4, <2>5, Shapes
<1>7. CASE p = Leader /\ s # Leader
  <2>1. s = a /\ Other(s, i) = Leader /\ Joining(a, i)
    BY <1>2, <1>3, <1>4, <1>7 DEF Joins
  <2>2. IsList(wire[Leader][i]) /\ Alone(a, i) /\ wire[a][i] = <<>>
    BY <1>1, <2>1 DEF Joining
  <2>3. Tail(wire[Leader][i]) = <<>> /\ Head(wire[Leader][i]) = wire[Leader][i][1] /\ type = "otherFollower"
    BY <1>1, <2>1, <2>2, ListShape
  <2> QED
    BY <1>1, <1>3, <1>7, <2>1, <2>2, <2>3 DEF ReadKind
<1> QED
  BY <1>5, <1>6, <1>7

LEMMA MeshInit == Init => Mesh
<1> SUFFICES ASSUME Init PROVE Mesh
  OBVIOUS
<1>1. \A s, p, i : ~Made(s, p, i)
  BY DEF Init, Made
<1>2. \A s, p \in Server : todo[s] = Nobody /\ todo[s][p] = 0
  BY NobodyType DEF Init
<1>3. \A s \in Server, i \in Ids : ~Open(s, i)
  BY DEF Init, Open
<1>4. Leader \in Server
  BY MembershipConstants
<1>5. LeaderAccepts /\ Joins /\ Plains /\ OneJoin /\ Order
  BY <1>1, <1>2, <1>4 DEF LeaderAccepts, Joins, Plains, OneJoin, Order, Named, Peer
<1>6. Down /\ Waiting
  BY <1>1, <1>2, <1>3 DEF Down, Waiting, Init
<1>7. Once
  BY <1>1, <1>2 DEF Once, Peer
<1>8. Files /\ Found
  <2>1. \A s \in Server : DOMAIN leaderClients[s] = {} /\ DOMAIN followerClients[s] = {}
    BY DEF Init
  <2> QED
    BY <1>3, <2>1 DEF Files, Found, Open
<1> QED
  BY <1>5, <1>6, <1>7, <1>8 DEF Mesh


(* What connectServer adds: a connection nobody knew, its two ends, and one *)
(* packet.                                                                  *)
LEMMA MadeNew ==
  ASSUME IInv, LeaderAccepts, NEW s \in Server, NEW p \in Server, s # p, NEW type, NEW packet,
         type # "closed", Connected(s, p, Len(conns) + 1, type, packet)
  PROVE  \E i \in Ids :
           /\ i = Len(conns) + 1 /\ i \notin DOMAIN conns
           /\ \A q \in Server : ~Open(q, i) /\ wire[q][i] = <<>>
           /\ \A q, r : ~Made(q, r, i)
           /\ \A q, r \in Server, j \in Ids : Made(q, r, j)' <=> Made(q, r, j) \/ (q = s /\ r = p /\ j = i)
           /\ \A q \in Server, j \in Ids :
                /\ wire'[q][j] = IF q = s /\ j = i THEN <<packet>> ELSE wire[q][j]
                /\ clientType'[q][j] = IF q = s /\ j = i THEN type
                                       ELSE IF q = p /\ j = i THEN "backlog" ELSE clientType[q][j]
                /\ Open(q, j)' <=> Open(q, j) \/ (j = i /\ q \in {s, p})
           /\ \A q \in Server, j \in DOMAIN conns : Other(q, j)' = Other(q, j) /\ Name(q, j)' = Name(q, j)
           /\ Name(s, i)' = p /\ Other(s, i)' = p
<1>0. /\ conns \in Seq([from : Server, to : Server]) /\ Len(conns) \in Nat
      /\ DOMAIN conns = 1..Len(conns)
      /\ clientType \in [Server -> [Ids -> {"closed", "backlog", "user", "leader", "follower"}]]
      /\ wire \in [Server -> [Ids -> Seq(Packets)]]
  BY ConnsFacts DEF IInv, TypeOK, Packets
<1>1. PICK i \in Ids : i = Len(conns) + 1 /\ i \notin DOMAIN conns
  BY <1>0, MembershipConstants DEF Connected, Ids
<1>2. /\ DOMAIN conns' = DOMAIN conns \cup {i}
      /\ conns'[i] = [from |-> s, to |-> p]
      /\ \A j \in DOMAIN conns : conns'[j] = conns[j]
  BY <1>0, <1>1 DEF Connected
<1>3. \A q \in Server, j \in Ids :
        /\ wire'[q][j] = IF q = s /\ j = i THEN <<packet>> ELSE wire[q][j]
        /\ clientType'[q][j] = IF q = s /\ j = i THEN type
                               ELSE IF q = p /\ j = i THEN "backlog" ELSE clientType[q][j]
  BY <1>0, <1>1 DEF Connected
<1>4. \A q \in Server : ~Open(q, i) /\ wire[q][i] = <<>>
  BY <1>1 DEF IInv, Unmade, Open
<1>5. \A q \in Server, j \in Ids : Open(q, j)' <=> Open(q, j) \/ (j = i /\ q \in {s, p})
  BY <1>3 DEF Open
<1>6. \A q, r : ~Made(q, r, i)
  BY <1>1 DEF Made
<1>7. \A q, r \in Server, j \in Ids : Made(q, r, j)' <=> Made(q, r, j) \/ (q = s /\ r = p /\ j = i)
  BY <1>1, <1>2 DEF Made
<1>8. \A q \in Server, j \in DOMAIN conns : Other(q, j)' = Other(q, j) /\ Name(q, j)' = Name(q, j)
  BY <1>1, <1>2 DEF Other, Name
<1>9. Name(s, i)' = p /\ Other(s, i)' = p
  BY <1>2 DEF Name, Other
<1> QED
  BY <1>1, <1>3, <1>4, <1>5, <1>6, <1>7, <1>8, <1>9

LEMMA MeshSlaveof == ASSUME IInv, Mesh, NEW s \in Server, Slaveof(s) PROVE Mesh'
<1>1. /\ LeaderAccepts /\ Joins /\ Plains /\ Down /\ Waiting /\ OneJoin /\ Once /\ Files /\ Found /\ Order
      /\ Leader \in Server /\ Leader \in up
  BY MadeFacts DEF Mesh, IInv, LeaderStays
<1>2. /\ s \in up /\ s \in toJoin /\ todo[s] = Nobody /\ s # Leader
      /\ toJoin' = toJoin \ {s} /\ UNCHANGED <<up, restarted, todo, followerClients>>
  BY DEF Slaveof, IInv, LeaderStays
<1>3. PICK i \in Ids :
           /\ i = Len(conns) + 1 /\ i \notin DOMAIN conns
           /\ \A q \in Server : ~Open(q, i) /\ wire[q][i] = <<>>
           /\ \A q, r : ~Made(q, r, i)
           /\ \A q, r \in Server, j \in Ids : Made(q, r, j)' <=> Made(q, r, j) \/ (q = s /\ r = Leader /\ j = i)
           /\ \A q \in Server, j \in Ids :
                /\ wire'[q][j] = IF q = s /\ j = i THEN <<BeMyLeader>> ELSE wire[q][j]
                /\ clientType'[q][j] = IF q = s /\ j = i THEN "leader"
                                       ELSE IF q = Leader /\ j = i THEN "backlog" ELSE clientType[q][j]
                /\ Open(q, j)' <=> Open(q, j) \/ (j = i /\ q \in {s, Leader})
           /\ \A q \in Server, j \in DOMAIN conns : Other(q, j)' = Other(q, j) /\ Name(q, j)' = Name(q, j)
           /\ Name(s, i)' = Leader /\ Other(s, i)' = Leader
  BY <1>1, <1>2, MadeNew DEF Slaveof
<1>4. /\ DOMAIN leaderClients = Server /\ DOMAIN followerClients = Server
      /\ \A q \in Server : leaderClients'[q] = IF q = s THEN Emplaced(leaderClients[q], Leader, i) ELSE leaderClients[q]
  BY <1>3 DEF IInv, Tables, Slaveof
<1>5. \A p \in Server, j \in Ids : Made(s, p, j) => ~Open(s, j) /\ s \in restarted
  BY <1>1, <1>2 DEF Waiting
<1>6. LeaderAccepts'
  BY <1>1, <1>2, <1>3 DEF LeaderAccepts
<1>7. ASSUME NEW q \in Server, NEW j \in Ids, Made(q, Leader, j)' PROVE Joining(q, j)'
  <2>1. CASE j = i
    <3>1. q = s
      BY <1>1, <1>3, <1>7, <2>1
    <3>2. Alone(s, i)'
      BY <1>2, <1>3, <1>5 DEF Alone
    <3>3. wire'[s][i] = <<BeMyLeader>> /\ wire'[Leader][i] = <<>> /\ clientType'[Leader][i] = "backlog" /\ Open(s, i)'
      BY <1>1, <1>2, <1>3
    <3>4. <<BeMyLeader>> \in Done \cup Asking
      BY Shapes
    <3> QED
      BY <2>1, <3>1, <3>2, <3>3, <3>4 DEF Joining
  <2>2. CASE j # i
    <3>1. Joining(q, j) /\ Made(q, Leader, j)
      BY <1>1, <1>3, <1>7, <2>2 DEF Joins
    <3>2. Open(q, j) => q # s
      BY <1>1, <1>5, <3>1
    <3>3. Open(q, j) /\ Alone(q, j) => Alone(q, j)'
      BY <1>2, <1>3, <3>2 DEF Alone
    <3> QED
      BY <1>1, <1>2, <1>3, <2>2, <3>1, <3>3 DEF Joining
  <2> QED
    BY <2>1, <2>2
<1>8. Plains'
  BY <1>1, <1>3 DEF Plains
<1>9. Down' /\ Waiting'
  <2>1. Down'
    BY <1>1, <1>2, <1>3 DEF Down
  <2>2. Waiting'
    <3>1. toJoin \subseteq Server
      BY DEF IInv, TypeOK
    <3> QED
      BY <1>1, <1>2, <1>3, <3>1 DEF Waiting
  <2> QED
    BY <2>1, <2>2
<1>10. OneJoin'
  <2> SUFFICES ASSUME NEW q \in Server, NEW j \in Ids, NEW k \in Ids,
                      Made(q, Leader, j)', Made(q, Leader, k)',
                      q \notin restarted' \/ (Open(q, j)' /\ Open(q, k)')
               PROVE  j = k
    BY <1>1 DEF OneJoin
  <2>1. CASE q = s
    BY <1>1, <1>2, <1>3, <1>5, <2>1
  <2>2. CASE q # s
    <3>1. Made(q, Leader, j) /\ Made(q, Leader, k)
      BY <1>1, <1>3, <2>2
    <3>2. j # i /\ k # i
      BY <1>3, <3>1
    <3>3. q \notin restarted \/ (Open(q, j) /\ Open(q, k))
      BY <1>2, <1>3, <3>2
    <3> QED
      BY <1>1, <3>1, <3>3 DEF OneJoin
  <2> QED
    BY <2>1, <2>2
<1>11. Once'
  <2> SUFFICES ASSUME NEW q \in Server, NEW p \in Peer
               PROVE  /\ todo[q][p] <= 1
                      /\ \A j \in Ids : Made(q, Leader, j)' /\ wire'[Leader][j] # <<>> => wire'[Leader][j][1].others[p] <= 1
                      /\ \A j, k \in Ids : Made(q, p, j)' /\ Made(q, p, k)' /\ Open(q, j)' /\ Open(q, k)' => j = k
                      /\ todo[q][p] > 0 => \A j \in Ids : Made(q, p, j)' => ~Open(q, j)'
    BY <1>2 DEF Once, Peer
  <2>1. p \in Server /\ p # Leader
    BY DEF Peer
  <2>2. \A j \in Ids : Made(q, p, j)' <=> Made(q, p, j)
    BY <1>3, <2>1
  <2>3. \A j \in Ids : Made(q, p, j) => (Open(q, j)' <=> Open(q, j))
    BY <1>3
  <2>4. \A j \in Ids : Made(q, Leader, j)' /\ wire'[Leader][j] # <<>> => Made(q, Leader, j) /\ wire'[Leader][j] = wire[Leader][j]
    BY <1>1, <1>2, <1>3
  <2> QED
    BY <1>1, <2>2, <2>3, <2>4 DEF Once
<1>12. Files'
  <2> SUFFICES ASSUME NEW q \in Server, NEW n \in Names, NEW j \in Ids
               PROVE  /\ n \in DOMAIN leaderClients'[q] /\ leaderClients'[q][n] = j
                           => Name(q, j)' = n /\ clientType'[q][j] = "leader"
                      /\ n \in DOMAIN followerClients[q] /\ followerClients[q][n] = j
                           => Name(q, j)' = n /\ clientType'[q][j] = "follower"
    BY <1>2 DEF Files
  <2>1. clientType[q][j] # "closed" => Name(q, j)' = Name(q, j) /\ clientType'[q][j] = clientType[q][j]
    BY <1>3 DEF IInv, Unmade
  <2>2. n \in DOMAIN leaderClients'[q] =>
          \/ n \in DOMAIN leaderClients[q] /\ leaderClients'[q][n] = leaderClients[q][n]
          \/ q = s /\ n = Leader /\ leaderClients'[q][n] = i
    BY <1>4 DEF Emplaced
  <2> QED
    BY <1>1, <1>3, <2>1, <2>2 DEF Files
<1>13. Found'
  <2> SUFFICES ASSUME NEW q \in Server, NEW j \in Ids, clientType'[q][j] \in {"leader", "follower"}, Other(q, j)' \notin restarted
               PROVE  Name(q, j)' \in DOMAIN leaderClients'[q] \cup DOMAIN followerClients[q]
    BY <1>2 DEF Found
  <2>1. DOMAIN leaderClients[q] \subseteq DOMAIN leaderClients'[q] /\ (q = s => Leader \in DOMAIN leaderClients'[q])
    BY <1>4 DEF Emplaced
  <2>2. CASE j = i
    <3>1. q = s
      BY <1>1, <1>2, <1>3, <2>2 DEF Open
    <3> QED
      BY <1>3, <2>1, <2>2, <3>1
  <2>3. CASE j # i
    <3>1. clientType'[q][j] = clientType[q][j] /\ j \in DOMAIN conns
      BY <1>3, <2>3 DEF IInv, Unmade
    <3> QED
      BY <1>1, <1>3, <2>1, <3>1 DEF Found
  <2> QED
    BY <2>2, <2>3
<1>14. Order'
  <2>1. ASSUME NEW p \in Server, NEW q \in Server, q # Leader PROVE Named(q, p)' <=> Named(q, p)
    <3>1. \A j \in Ids : Made(p, q, j)' <=> Made(p, q, j)
      BY <1>3, <2>1
    <3>2. \A j \in Ids : Made(p, Leader, j)' /\ wire'[Leader][j] # <<>> <=> Made(p, Leader, j) /\ wire[Leader][j] # <<>>
      BY <1>1, <1>2, <1>3
    <3>3. \A j \in Ids : wire'[Leader][j] = wire[Leader][j]
      BY <1>1, <1>2, <1>3
    <3> QED
      BY <1>2, <3>1, <3>2, <3>3 DEF Named
  <2> SUFFICES ASSUME NEW p \in Server, NEW q \in Peer, Named(q, p)'
               PROVE  Answered(q)' /\ (p \notin restarted => ~Named(p, q)')
    BY <1>2 DEF Order, Peer
  <2>2. q \in Server /\ q # Leader
    BY DEF Peer
  <2>3. Named(q, p) /\ Answered(q) /\ (p \notin restarted => ~Named(p, q))
    BY <1>1, <2>1, <2>2 DEF Order
  <2>4. q # s
    BY <1>2, <2>3 DEF Answered
  <2>5. Answered(q)'
    BY <1>1, <1>2, <1>3, <2>2, <2>3, <2>4 DEF Answered
  <2>6. p # Leader
    BY <1>1, <2>3, NobodyType, <2>2 DEF LeaderAccepts, Named
  <2> QED
    BY <2>1, <2>2, <2>3, <2>5, <2>6
<1> QED
  BY <1>1, <1>6, <1>7, <1>8, <1>9, <1>10, <1>11, <1>12, <1>13, <1>14 DEF Mesh, Joins

LEMMA MeshConnect ==
  ASSUME IInv, Mesh, NEW s \in Server, NEW p \in Server, ConnectOther(s, p), p \in up PROVE Mesh'
<1>1. /\ LeaderAccepts /\ Joins /\ Plains /\ Down /\ Waiting /\ OneJoin /\ Once /\ Files /\ Found /\ Order
      /\ Leader \in Server /\ Leader \in up
  BY MadeFacts DEF Mesh, IInv, LeaderStays
<1>2. /\ s \in up /\ todo[s][p] > 0 /\ todo[s] # Nobody /\ s # p /\ s # Leader /\ p # Leader /\ s \notin toJoin
      /\ UNCHANGED <<up, restarted, toJoin>>
  <2>1. s \in up /\ todo[s][p] > 0 /\ UNCHANGED <<up, restarted, toJoin>>
    BY DEF ConnectOther, ToConnect, runs
  <2>2. todo[s] # Nobody /\ s # p
    BY <2>1, NobodyType DEF IInv, Selfless
  <2> QED
    BY <1>1, <2>1, <2>2 DEF LeaderAccepts, Waiting
<1>3. PICK i \in Ids :
           /\ i = Len(conns) + 1 /\ i \notin DOMAIN conns
           /\ \A q \in Server : ~Open(q, i) /\ wire[q][i] = <<>>
           /\ \A q, r : ~Made(q, r, i)
           /\ \A q, r \in Server, j \in Ids : Made(q, r, j)' <=> Made(q, r, j) \/ (q = s /\ r = p /\ j = i)
           /\ \A q \in Server, j \in Ids :
                /\ wire'[q][j] = IF q = s /\ j = i THEN <<BeMyOther>> ELSE wire[q][j]
                /\ clientType'[q][j] = IF q = s /\ j = i THEN "follower"
                                       ELSE IF q = p /\ j = i THEN "backlog" ELSE clientType[q][j]
                /\ Open(q, j)' <=> Open(q, j) \/ (j = i /\ q \in {s, p})
           /\ \A q \in Server, j \in DOMAIN conns : Other(q, j)' = Other(q, j) /\ Name(q, j)' = Name(q, j)
           /\ Name(s, i)' = p /\ Other(s, i)' = p
  BY <1>1, <1>2, MadeNew DEF ConnectOther
<1>4. /\ DOMAIN leaderClients = Server /\ DOMAIN followerClients = Server
      /\ \A q \in Server :
           /\ leaderClients'[q] = IF q = s THEN Without(leaderClients[q], p) ELSE leaderClients[q]
           /\ followerClients'[q] = IF q = s THEN Emplaced(followerClients[q], p, i) ELSE followerClients[q]
  BY <1>3 DEF IInv, Tables, ConnectOther
<1>5. /\ todo \in [Server -> [Server -> Nat]]
      /\ \A q, r \in Server : todo'[q][r] = IF q = s /\ r = p THEN todo[q][r] - 1 ELSE todo[q][r]
      /\ \A q \in Server : q # s => todo'[q] = todo[q]
  <2>1. todo' = [todo EXCEPT ![s][p] = @ - 1] /\ todo \in [Server -> [Server -> Nat]]
    BY DEF IInv, TypeOK, ConnectOther
  <2> QED
    BY <2>1
<1>6. LeaderAccepts'
  <2>1. \A r \in Server, j \in Ids : ~Made(Leader, r, j)'
    BY <1>1, <1>2, <1>3 DEF LeaderAccepts
  <2>2. todo'[Leader] = todo[Leader] /\ \A q \in Server : todo'[q][Leader] = todo[q][Leader]
    BY <1>1, <1>2, <1>5
  <2> QED
    BY <1>1, <2>1, <2>2 DEF LeaderAccepts
<1>7. ASSUME NEW q \in Server, NEW j \in Ids, Made(q, Leader, j)' PROVE Joining(q, j)'
  <2>1. Joining(q, j) /\ Made(q, Leader, j) /\ j # i
    BY <1>1, <1>2, <1>3, <1>7 DEF Joins
  <2>2. Alone(q, j) => Alone(q, j)'
    <3>1. Alone(q, j) => q # s
      BY <1>2 DEF Alone
    <3> QED
      BY <1>3, <1>5, <3>1 DEF Alone
  <2> QED
    BY <1>1, <1>3, <2>1, <2>2 DEF Joining
<1>8. Plains'
  BY <1>1, <1>3, PlainBasics DEF Plains
<1>9. Down' /\ Waiting'
  <2>1. Down'
    <3>1. ASSUME NEW q \in Server \ up PROVE todo'[q] = todo[q] /\ \A j \in Ids : Open(q, j)' <=> Open(q, j)
      BY <1>2, <1>3, <1>5
    <3> QED
      BY <1>1, <1>2, <3>1 DEF Down
  <2>2. Waiting'
    <3>1. toJoin \subseteq Server
      BY DEF IInv, TypeOK
    <3>2. ASSUME NEW q \in toJoin, NEW r \in Server, NEW j \in Ids, Made(q, r, j)' PROVE ~Open(q, j)' /\ q \in restarted
      <4>1. Made(q, r, j) /\ j # i
        BY <1>2, <1>3, <3>1, <3>2
      <4> QED
        BY <1>1, <1>3, <3>1, <4>1 DEF Waiting
    <3> QED
      BY <1>1, <1>2, <1>5, <3>1, <3>2 DEF Waiting
  <2> QED
    BY <2>1, <2>2
<1>10. OneJoin'
  <2>1. \A q \in Server, j \in Ids : Made(q, Leader, j)' => Made(q, Leader, j) /\ (Open(q, j)' <=> Open(q, j))
    BY <1>1, <1>2, <1>3
  <2> QED
    BY <1>1, <1>2, <2>1 DEF OneJoin
<1>11. Once'
  <2> SUFFICES ASSUME NEW q \in Server, NEW r \in Peer
               PROVE  /\ todo'[q][r] <= 1
                      /\ \A j \in Ids : Made(q, Leader, j)' /\ wire'[Leader][j] # <<>> => wire'[Leader][j][1].others[r] <= 1
                      /\ \A j, k \in Ids : Made(q, r, j)' /\ Made(q, r, k)' /\ Open(q, j)' /\ Open(q, k)' => j = k
                      /\ todo'[q][r] > 0 => \A j \in Ids : Made(q, r, j)' => ~Open(q, j)'
    BY <1>2 DEF Once, Peer
  <2>1. r \in Server /\ r # Leader
    BY DEF Peer
  <2>2. \A j \in Ids : Made(q, Leader, j)' /\ wire'[Leader][j] # <<>> => Made(q, Leader, j) /\ wire'[Leader][j] = wire[Leader][j]
    BY <1>1, <1>2, <1>3
  <2>3. CASE q = s /\ r = p
    <3>1. todo[s][p] = 1 /\ todo'[q][r] = 0 /\ \A j \in Ids : Made(s, p, j) => ~Open(s, j)
      <4>1. todo[q][r] \in Nat /\ todo[q][r] <= 1
        BY <1>1, <1>5, <2>1 DEF Once
      <4>2. \A j \in Ids : Made(q, r, j) => ~Open(q, j)
        BY <1>1, <1>2, <2>3 DEF Once
      <4> QED
        BY <1>2, <1>5, <2>3, <4>1, <4>2
    <3>2. \A j \in Ids : Made(q, r, j)' /\ Open(q, j)' => j = i
      BY <1>3, <2>3, <3>1
    <3> QED
      BY <1>1, <2>2, <3>1, <3>2 DEF Once
  <2>4. CASE ~(q = s /\ r = p)
    <3>1. \A j \in Ids : Made(q, r, j)' => Made(q, r, j) /\ (Open(q, j)' <=> Open(q, j))
      BY <1>3, <2>1, <2>4
    <3>2. todo'[q][r] = todo[q][r]
      BY <1>5, <2>1, <2>4
    <3> QED
      BY <1>1, <2>2, <3>1, <3>2 DEF Once
  <2> QED
    BY <2>3, <2>4
<1>12. Files'
  <2> SUFFICES ASSUME NEW q \in Server, NEW n \in Names, NEW j \in Ids
               PROVE  /\ n \in DOMAIN leaderClients'[q] /\ leaderClients'[q][n] = j
                           => Name(q, j)' = n /\ clientType'[q][j] = "leader"
                      /\ n \in DOMAIN followerClients'[q] /\ followerClients'[q][n] = j
                           => Name(q, j)' = n /\ clientType'[q][j] = "follower"
    BY DEF Files
  <2>1. clientType[q][j] # "closed" => Name(q, j)' = Name(q, j) /\ clientType'[q][j] = clientType[q][j]
    BY <1>3 DEF IInv, Unmade
  <2>2. n \in DOMAIN leaderClients'[q] => n \in DOMAIN leaderClients[q] /\ leaderClients'[q][n] = leaderClients[q][n]
    BY <1>4 DEF Without
  <2>3. n \in DOMAIN followerClients'[q] =>
          \/ n \in DOMAIN followerClients[q] /\ followerClients'[q][n] = followerClients[q][n]
          \/ q = s /\ n = p /\ followerClients'[q][n] = i
    BY <1>4 DEF Emplaced
  <2> QED
    BY <1>1, <1>3, <2>1, <2>2, <2>3 DEF Files
<1>13. Found'
  <2> SUFFICES ASSUME NEW q \in Server, NEW j \in Ids, clientType'[q][j] \in {"leader", "follower"}, Other(q, j)' \notin restarted
               PROVE  Name(q, j)' \in DOMAIN leaderClients'[q] \cup DOMAIN followerClients'[q]
    BY <1>2 DEF Found
  <2>1. /\ DOMAIN leaderClients[q] \ {p} \subseteq DOMAIN leaderClients'[q]
        /\ q # s => DOMAIN leaderClients[q] \subseteq DOMAIN leaderClients'[q]
        /\ DOMAIN followerClients[q] \subseteq DOMAIN followerClients'[q]
        /\ q = s => p \in DOMAIN followerClients'[q]
    BY <1>4 DEF Emplaced, Without
  <2>2. CASE j = i
    <3>1. q = s
      BY <1>1, <1>2, <1>3, <2>2 DEF Open
    <3> QED
      BY <1>3, <2>1, <2>2, <3>1
  <2>3. CASE j # i
    <3>1. clientType'[q][j] = clientType[q][j] /\ j \in DOMAIN conns
      BY <1>3, <2>3 DEF IInv, Unmade
    <3> QED
      BY <1>1, <1>3, <2>1, <3>1 DEF Found
  <2> QED
    BY <2>2, <2>3
<1>14. Order'
  <2>1. ASSUME NEW r \in Server, NEW q \in Server, Named(q, r)' PROVE Named(q, r)
    <3>1. \A j \in Ids : Made(r, q, j)' => Made(r, q, j) \/ (r = s /\ q = p)
      BY <1>3
    <3>2. \A j \in Ids : Made(r, Leader, j)' => Made(r, Leader, j) /\ wire'[Leader][j] = wire[Leader][j]
      BY <1>1, <1>2, <1>3
    <3>3. todo'[r][q] > 0 => todo[r][q] > 0
      BY <1>5
    <3> QED
      BY <1>2, <2>1, <3>1, <3>2, <3>3 DEF Named
  <2> SUFFICES ASSUME NEW r \in Server, NEW q \in Peer, Named(q, r)'
               PROVE  Answered(q)' /\ (r \notin restarted => ~Named(r, q)')
    BY <1>2 DEF Order, Peer
  <2>2. q \in Server /\ q # Leader
    BY DEF Peer
  <2>3. Named(q, r) /\ Answered(q) /\ (r \notin restarted => ~Named(r, q))
    BY <1>1, <2>1, <2>2 DEF Order
  <2>5. Answered(q)'
    BY <1>1, <1>2, <1>3, <2>2, <2>3 DEF Answered
  <2> QED
    BY <2>1, <2>2, <2>3, <2>5
<1> QED
  BY <1>1, <1>6, <1>7, <1>8, <1>9, <1>10, <1>11, <1>12, <1>13, <1>14 DEF Mesh, Joins

LEMMA MeshPassOver ==
  ASSUME IInv, Mesh, NEW s \in Server, NEW p \in Server, ConnectOther(s, p), p \notin up PROVE Mesh'
<1>1. /\ LeaderAccepts /\ Joins /\ Plains /\ Down /\ Waiting /\ OneJoin /\ Once /\ Files /\ Found /\ Order
      /\ Leader \in Server
  BY MadeFacts DEF Mesh
<1>2. /\ s \in up /\ todo[s][p] > 0 /\ UNCHANGED <<up, restarted, toJoin>>
      /\ UNCHANGED <<tables, conns, clientType, wire>>
  BY DEF ConnectOther, ToConnect, runs, own
<1>3. todo[s] # Nobody /\ s # Leader /\ s \notin toJoin
  <2>1. todo[s] # Nobody
    BY <1>2, NobodyType
  <2> QED
    BY <1>1, <2>1 DEF LeaderAccepts, Waiting
<1>5. /\ todo \in [Server -> [Server -> Nat]]
      /\ \A q, r \in Server : todo'[q][r] = IF q = s /\ r = p THEN todo[q][r] - 1 ELSE todo[q][r]
      /\ \A q \in Server : q # s => todo'[q] = todo[q]
  <2>1. todo' = [todo EXCEPT ![s][p] = @ - 1] /\ todo \in [Server -> [Server -> Nat]]
    BY DEF IInv, TypeOK, ConnectOther
  <2> QED
    BY <2>1
<1>6. \A q, r, j : (Made(q, r, j)' <=> Made(q, r, j)) /\ (Open(q, j)' <=> Open(q, j))
  BY <1>2 DEF Made, Open
<1>7. LeaderAccepts'
  BY <1>1, <1>2, <1>3, <1>5, <1>6 DEF LeaderAccepts
<1>8. Joins'
  <2>1. ASSUME NEW q \in Server, NEW j \in Ids, Alone(q, j) PROVE Alone(q, j)'
    BY <1>3, <1>5, <1>6, <2>1 DEF Alone
  <2> QED
    BY <1>1, <1>2, <1>6, <2>1 DEF Joins, Joining
<1>9. Plains' /\ OneJoin'
  BY <1>1, <1>2, <1>6 DEF Plains, OneJoin
<1>10. Down' /\ Waiting'
  <2>1. Down'
    BY <1>1, <1>2, <1>5, <1>6 DEF Down
  <2>2. Waiting'
    <3>1. toJoin \subseteq Server
      BY DEF IInv, TypeOK
    <3> QED
      BY <1>1, <1>2, <1>3, <1>5, <1>6, <3>1 DEF Waiting
  <2> QED
    BY <2>1, <2>2
<1>11. \A q, r \in Server : todo'[q][r] <= todo[q][r] /\ todo[q][r] \in Nat /\ todo'[q][r] \in Int
  BY <1>2, <1>5
<1>12. Once'
  <2>1. \A r : r \in Peer => r \in Server
    BY DEF Peer
  <2>2. \A q \in Server, r \in Peer : todo[q][r] <= 1
    BY <1>1 DEF Once
  <2>3. \A q \in Server, r \in Peer : (todo'[q][r] > 0 => todo[q][r] > 0) /\ todo'[q][r] <= 1
    BY <1>11, <2>1, <2>2
  <2> QED
    BY <1>1, <1>2, <1>6, <2>3 DEF Once, Peer
<1>13. Files' /\ Found'
  BY <1>1, <1>2 DEF Files, Found, Name, Other, tables
<1>14. Order'
  <2>1. ASSUME NEW r \in Server, NEW q \in Server, Named(q, r)' PROVE Named(q, r)
    <3>1. todo'[r][q] > 0 => todo[r][q] > 0
      BY <1>5
    <3> QED
      BY <1>2, <1>6, <2>1, <3>1 DEF Named
  <2>2. \A q : Answered(q)' <=> Answered(q)
    BY <1>2, <1>6 DEF Answered
  <2> QED
    BY <1>1, <1>2, <2>1, <2>2 DEF Order, Peer
<1> QED
  BY <1>7, <1>8, <1>9, <1>10, <1>12, <1>13, <1>14 DEF Mesh

LEMMA AtMostOne ==
  ASSUME NEW S, \A x, y \in S : x = y
  PROVE  Cardinality(S) \in Nat /\ Cardinality(S) <= 1 /\ (Cardinality(S) > 0 => S # {})
<1>1. CASE S = {}
  BY <1>1, FS_EmptySet
<1>2. CASE S # {}
  <2>1. PICK x \in S : S = {x}
    BY <1>2
  <2> QED
    BY <1>2, <2>1, FS_Singleton
<1> QED
  BY <1>1, <1>2

LEMMA MadeSame ==
  ASSUME UNCHANGED conns
  PROVE  \A q, r, j : (Made(q, r, j)' <=> Made(q, r, j)) /\ Other(q, j)' = Other(q, j) /\ Name(q, j)' = Name(q, j)
BY DEF Made, Other, Name

LEMMA MeshAccept == ASSUME IInv, Mesh, NEW s \in Server, NEW i \in Ids, Accept(s, i) PROVE Mesh'
<1>1. /\ LeaderAccepts /\ Joins /\ Plains /\ Down /\ Waiting /\ OneJoin /\ Once /\ Files /\ Found /\ Order
      /\ Leader \in Server
  BY MadeFacts DEF Mesh
<1>2. /\ UNCHANGED <<runs, own, conns, wire, todo>> /\ clientType[s][i] = "backlog"
      /\ \A q \in Server, j \in Ids : clientType'[q][j] = IF q = s /\ j = i THEN "user" ELSE clientType[q][j]
  BY DEF Accept, IInv, TypeOK
<1>3. /\ \A q, r, j : (Made(q, r, j)' <=> Made(q, r, j)) /\ Other(q, j)' = Other(q, j) /\ Name(q, j)' = Name(q, j)
      /\ \A q \in Server, j \in Ids : Open(q, j)' <=> Open(q, j)
  BY <1>2, MadeSame DEF Open
<1>4. UNCHANGED <<up, toJoin, restarted, leaderClients, followerClients>>
  BY <1>2 DEF runs, own, tables
<1>5. LeaderAccepts' /\ Plains' /\ Down' /\ OneJoin'
  BY <1>1, <1>2, <1>3, <1>4 DEF LeaderAccepts, Plains, Down, OneJoin
<1>6. Joins'
  <2>1. ASSUME NEW q \in Server, NEW j \in Ids, Alone(q, j) PROVE Alone(q, j)'
    BY <1>2, <1>3, <2>1 DEF Alone
  <2> QED
    BY <1>1, <1>2, <1>3, <2>1 DEF Joins, Joining
<1>7. Waiting'
  BY <1>1, <1>2, <1>3, <1>4 DEF Waiting, IInv, TypeOK
<1>8. Once'
  BY <1>1, <1>2, <1>3, <1>4 DEF Once, Peer
<1>9. Files' /\ Found'
  BY <1>1, <1>2, <1>3, <1>4 DEF Files, Found
<1>10. Order'
  BY <1>1, <1>2, <1>3, <1>4 DEF Order, Named, Answered, Peer
<1> QED
  BY <1>5, <1>6, <1>7, <1>8, <1>9, <1>10 DEF Mesh

LEMMA FollowerFiled ==
  ASSUME IInv, Files, Found, NEW s \in Server, NEW i \in Ids, i \in DOMAIN conns,
         BecomesFollower(s, i), UNCHANGED <<conns, restarted>>
  PROVE  Files' /\ Found'
<1>1. \A q, j : Name(q, j)' = Name(q, j) /\ Other(q, j)' = Other(q, j)
  BY MadeSame
<1>2. /\ \A q \in Server, j \in Ids :
           clientType'[q][j] = IF q = s /\ j = i THEN "follower" ELSE clientType[q][j]
      /\ \A q \in Server :
           /\ leaderClients'[q] = IF q = s THEN Without(leaderClients[q], Name(q, i)) ELSE leaderClients[q]
           /\ followerClients'[q] = IF q = s THEN Emplaced(followerClients[q], Name(q, i), i)
                                    ELSE followerClients[q]
  BY DEF IInv, TypeOK, Tables, BecomesFollower
<1>3. Files'
  <2> SUFFICES ASSUME NEW q \in Server, NEW n \in Names, NEW j \in Ids
               PROVE  /\ n \in DOMAIN leaderClients'[q] /\ leaderClients'[q][n] = j
                           => Name(q, j) = n /\ clientType'[q][j] = "leader"
                      /\ n \in DOMAIN followerClients'[q] /\ followerClients'[q][n] = j
                           => Name(q, j) = n /\ clientType'[q][j] = "follower"
    BY <1>1 DEF Files
  <2>1. n \in DOMAIN leaderClients'[q] => /\ n \in DOMAIN leaderClients[q] /\ leaderClients'[q][n] = leaderClients[q][n]
                                          /\ q = s => n # Name(s, i)
    BY <1>2 DEF Without
  <2>2. n \in DOMAIN followerClients'[q] =>
          \/ n \in DOMAIN followerClients[q] /\ followerClients'[q][n] = followerClients[q][n]
          \/ q = s /\ n = Name(s, i) /\ followerClients'[q][n] = i
    <3>1. followerClients'[q] = IF q = s THEN Emplaced(followerClients[q], Name(q, i), i) ELSE followerClients[q]
      BY <1>2
    <3> QED
      BY <3>1 DEF Emplaced
  <2> QED
    BY <1>2, <2>1, <2>2 DEF Files
<1>4. Found'
  <2> SUFFICES ASSUME NEW q \in Server, NEW j \in Ids, clientType'[q][j] \in {"leader", "follower"}, Other(q, j) \notin restarted
               PROVE  Name(q, j) \in DOMAIN leaderClients'[q] \cup DOMAIN followerClients'[q]
    BY <1>1 DEF Found
  <2>1. /\ DOMAIN leaderClients[q] \ {Name(s, i)} \subseteq DOMAIN leaderClients'[q]
        /\ q # s => DOMAIN leaderClients[q] \subseteq DOMAIN leaderClients'[q]
        /\ DOMAIN followerClients[q] \subseteq DOMAIN followerClients'[q]
        /\ q = s => Name(s, i) \in DOMAIN followerClients'[q]
    BY <1>2 DEF Emplaced, Without
  <2> QED
    BY <1>2, <2>1 DEF Found
<1> QED
  BY <1>3, <1>4

(* The answer names, once each, servers that asked before.                  *)
LEMMA AnswerFacts ==
  ASSUME IInv, LeaderAccepts, OneJoin, NEW i \in Ids, NEW a \in Server, Made(a, Leader, i),
         Leader \in Server, Other(Leader, i) = a,
         BecomesFollower(Leader, i), UNCHANGED conns, Files', Tables',
         Table(followerClients'[Leader])
  PROVE  \E others \in [Server -> Nat] :
           /\ others = Listed(Leader, i) /\ others[Leader] = 0
           /\ \A p \in Peer : others[p] <= 1
           /\ \A p \in Server : others[p] > 0 =>
                p # a /\ \E j \in Ids : j # i /\ Made(p, Leader, j) /\ clientType[Leader][j] = "follower"
<1> DEFINE filed == {followerClients'[Leader][n] : n \in DOMAIN followerClients'[Leader]}
           from(p) == {j \in filed \ {i} : Other(Leader, j) = p}
<1>1. ASSUME NEW p \in Server, NEW j \in from(p)
      PROVE  j \in Ids /\ j # i /\ Made(p, Leader, j) /\ clientType[Leader][j] = "follower" /\ p # Leader
  <2>1. PICK n \in DOMAIN followerClients'[Leader] : followerClients'[Leader][n] = j
    OBVIOUS
  <2>2. j \in Ids /\ n \in Names /\ j # i /\ Other(Leader, j) = p
    BY <2>1 DEF Table
  <2>3. clientType'[Leader][j] = "follower"
    BY <2>1, <2>2 DEF Files
  <2>4. clientType[Leader][j] = "follower"
    BY <2>2, <2>3 DEF BecomesFollower, IInv, TypeOK
  <2>5. j \in DOMAIN conns /\ Open(Leader, j)
    BY <2>2, <2>4 DEF IInv, Unmade, Open
  <2>6. PICK q, r \in Server : Made(q, r, j)
    BY <2>5, MadeFacts
  <2>7. q # Leader /\ r = Leader /\ Other(Leader, j) = q
    BY <2>2, <2>5, <2>6, MadeFacts
  <2> QED
    BY <2>2, <2>4, <2>6, <2>7
<1>2. ASSUME NEW p \in Server PROVE Cardinality(from(p)) \in Nat /\ (Cardinality(from(p)) > 0 => from(p) # {})
  <2>1. from(p) \subseteq Ids
    BY <1>1
  <2>2. IsFiniteSet(from(p))
    BY <2>1, IdsFinite, FS_Subset
  <2> HIDE DEF from
  <2>3. Cardinality(from(p)) \in Nat /\ (from(p) = {} => Cardinality(from(p)) = 0)
    BY <2>2, FS_CardinalityType, FS_EmptySet
  <2> QED
    BY <2>3
<1>3. ASSUME NEW p \in Peer PROVE Cardinality(from(p)) <= 1
  <2>1. p \in Server /\ p \notin restarted
    BY DEF Peer
  <2>2. \A j, k \in from(p) : j = k
    BY <1>1, <2>1 DEF OneJoin
  <2> HIDE DEF from
  <2> QED
    BY <2>2, AtMostOne
<1>4. from(Leader) = {}
  BY <1>1
<1> DEFINE others == Listed(Leader, i)
<1>5. others = [p \in Server |-> IF p = a THEN 0 ELSE Cardinality(from(p))]
  BY DEF Listed
<1>6. others \in [Server -> Nat]
  BY <1>2, <1>5
<1>7. \A p \in Server : others[p] = IF p = a THEN 0 ELSE Cardinality(from(p))
  BY <1>5
<1>11. others = Listed(Leader, i)
  OBVIOUS
<1> HIDE DEF others, from
<1>8. others[Leader] = 0
  BY <1>4, <1>7, FS_EmptySet
<1>9. ASSUME NEW p \in Peer PROVE others[p] <= 1
  BY <1>3, <1>7 DEF Peer
<1>10. ASSUME NEW p \in Server, others[p] > 0
       PROVE  p # a /\ \E j \in Ids : j # i /\ Made(p, Leader, j) /\ clientType[Leader][j] = "follower"
  <2>1. p # a /\ from(p) # {}
    BY <1>2, <1>7, <1>10
  <2>2. PICK j \in from(p) : TRUE
    BY <2>1
  <2> QED
    BY <1>1, <2>1, <2>2
<1> QED
  BY <1>6, <1>8, <1>9, <1>10, <1>11

LEMMA ReadPoints ==
  ASSUME IInv, NEW s, NEW i \in Ids, Other(s, i) \in Server
  PROVE  /\ \E S : Read(s, i) \in [Server -> [Ids -> S]]
         /\ \A q \in Server, j \in Ids :
              Read(s, i)[q][j] = IF q = Other(s, i) /\ j = i THEN Tail(wire[q][j]) ELSE wire[q][j]
<1>1. wire \in [Server -> [Ids -> Seq(Packets)]]
  BY DEF IInv, TypeOK, Packets
<1>2. Read(s, i) \in [Server -> [Ids -> Seq(Packets) \cup {Tail(wire[Other(s, i)][i])}]]
  BY <1>1 DEF Read
<1>3. \A q \in Server, j \in Ids :
        Read(s, i)[q][j] = IF q = Other(s, i) /\ j = i THEN Tail(wire[q][j]) ELSE wire[q][j]
  BY <1>1 DEF Read
<1> QED
  BY <1>2, <1>3

(* The leader answers a newcomer: it names those that asked before, so that *)
(* nobody it names will be named the newcomer.                              *)
LEMMA MeshBeMyLeader ==
  ASSUME IInv, Mesh, NEW s \in Server, NEW i \in Ids, BeMyLeaderCommand(s, i) PROVE Mesh'
<1>1. /\ LeaderAccepts /\ Joins /\ Plains /\ Down /\ Waiting /\ OneJoin /\ Once /\ Files /\ Found /\ Order
      /\ Leader \in Server
  BY MadeFacts DEF Mesh
<1>2. PICK a \in Server :
        /\ Made(a, Leader, i) /\ s = Leader /\ Other(s, i) = a
        /\ wire[a][i] \in Asking /\ Tail(wire[a][i]) \in Done
        /\ Open(a, i) => Tail(wire[a][i]) = <<>> /\ wire[Leader][i] = <<>> /\ Alone(a, i)
  <2>1. Reads(s, i, "beMy leader")
    BY DEF BeMyLeaderCommand
  <2>2. PICK a, p \in Server : Made(a, p, i) /\ ReadKind(s, i, "beMy leader", a, p)
    BY <2>1, MeshReads
  <2> QED
    BY <2>2 DEF ReadKind
<1>3. /\ UNCHANGED <<up, toJoin, restarted, conns, todo>>
      /\ BecomesFollower(Leader, i)
      /\ i \in DOMAIN conns /\ a # Leader
  BY <1>1, <1>2, MadeFacts DEF BeMyLeaderCommand, runs, Made
<1>4. /\ \A q, r, j : (Made(q, r, j)' <=> Made(q, r, j)) /\ Other(q, j)' = Other(q, j) /\ Name(q, j)' = Name(q, j)
      /\ \A q \in Server, j \in Ids :
           /\ clientType'[q][j] = IF q = Leader /\ j = i THEN "follower" ELSE clientType[q][j]
           /\ Open(q, j)' <=> Open(q, j)
  <2>1. \A q \in Server, j \in Ids :
           clientType'[q][j] = IF q = Leader /\ j = i THEN "follower" ELSE clientType[q][j]
    BY <1>3 DEF IInv, TypeOK, BecomesFollower
  <2>2. clientType[Leader][i] # "closed"
    BY <1>2 DEF BeMyLeaderCommand, Reads
  <2> QED
    BY <1>1, <1>3, <2>1, <2>2, MadeSame DEF Open
<1>5. Files' /\ Found'
  BY <1>1, <1>3, FollowerFiled
<1>6. PICK others \in [Server -> Nat] :
        /\ others = Listed(Leader, i) /\ others[Leader] = 0
        /\ \A p \in Peer : others[p] <= 1
        /\ \A p \in Server : others[p] > 0 =>
             p # a /\ \E j \in Ids : j # i /\ Made(p, Leader, j) /\ clientType[Leader][j] = "follower"
  <2>1. IInv'
    BY InvBeMyLeader
  <2>2. Tables' /\ Table(followerClients'[Leader])
    BY <1>1, <2>1 DEF IInv, TypeOK
  <2> QED
    BY <1>1, <1>2, <1>3, <1>5, <2>2, AnswerFacts
<1> DEFINE m == Packet("otherFollower", others)
<1>7. /\ \A q \in Server, j \in Ids : ~(q \in {a, Leader} /\ j = i) => wire'[q][j] = wire[q][j]
      /\ wire'[a][i] = Tail(wire[a][i])
      /\ wire'[Leader][i] = IF Open(a, i) THEN Append(wire[Leader][i], m) ELSE wire[Leader][i]
  <2> DEFINE r == Read(Leader, i)
  <2>1. /\ \A q \in Server, j \in Ids : r[q][j] = IF q = a /\ j = i THEN Tail(wire[q][j]) ELSE wire[q][j]
        /\ \E S : r \in [Server -> [Ids -> S]]
    <3>1. Other(Leader, i) = a
      BY <1>2
    <3>2. \E S : Read(Leader, i) \in [Server -> [Ids -> S]]
      BY <3>1, ReadPoints
    <3>3. \A q \in Server, j \in Ids :
            Read(Leader, i)[q][j] = IF q = Other(Leader, i) /\ j = i THEN Tail(wire[q][j]) ELSE wire[q][j]
      BY <3>1, ReadPoints
    <3> QED
      BY <3>1, <3>2, <3>3
  <2>2. wire' = [r EXCEPT ![Leader][i] = IF Open(a, i) THEN Append(@, m) ELSE @]
    <3>1. wire' = [r EXCEPT ![Leader][i] = IF clientType[a][i] = "closed" THEN @ ELSE Append(@, m)]
      BY <1>2, <1>6 DEF BeMyLeaderCommand
    <3> QED
      BY <3>1 DEF Open
  <2> HIDE DEF r, m
  <2>3. \A q \in Server, j \in Ids : wire'[q][j] = IF q = Leader /\ j = i /\ Open(a, i) THEN Append(r[q][j], m) ELSE r[q][j]
    <3>1. PICK S : r \in [Server -> [Ids -> S]]
      BY <2>1
    <3> QED
      BY <2>2, <3>1
  <2> QED
    BY <1>1, <1>3, <2>1, <2>3
<1>8. Open(a, i) => wire'[Leader][i] = <<m>> /\ IsList(<<m>>) /\ <<m>>[1].others = others
  <2>1. m.type = "otherFollower" /\ m.others = others
    BY DEF Packet
  <2> HIDE DEF m
  <2>2. Append(<<>>, m) = <<m>> /\ <<m>>[1] = m /\ Len(<<m>>) = 1
    OBVIOUS
  <2> QED
    BY <1>2, <1>6, <1>7, <2>1, <2>2 DEF IsList
<1> HIDE DEF m
<1>9. ~Open(a, i) => wire'[Leader][i] = <<>>
  BY <1>1, <1>2, <1>7 DEF Joins, Joining
<1>10. LeaderAccepts' /\ Down' /\ OneJoin'
  BY <1>1, <1>3, <1>4 DEF LeaderAccepts, Down, OneJoin
<1>11. Waiting'
  BY <1>1, <1>3, <1>4 DEF Waiting, IInv, TypeOK
<1>12. Plains'
  <2> SUFFICES ASSUME NEW q \in Server, NEW p \in Server, NEW r \in Server, NEW j \in Ids,
                      Made(q, p, j), p # Leader
               PROVE  Plain(wire'[r][j])
    BY <1>4 DEF Plains
  <2>1. j # i
    BY <1>1, <1>2, MadeFacts
  <2> QED
    BY <1>1, <1>7, <2>1 DEF Plains
<1>13. ASSUME NEW q \in Server, NEW j \in Ids, Alone(q, j) PROVE Alone(q, j)'
  BY <1>3, <1>4, <1>13 DEF Alone
<1>14. ASSUME NEW q \in Server, NEW j \in Ids, Made(q, Leader, j) PROVE Joining(q, j)'
  <2>1. CASE j = i
    <3>1. q = a
      BY <1>1, <1>2, <1>14, <2>1, MadeFacts
    <3>2. wire'[a][i] \in Done /\ (Open(a, i) => wire'[a][i] = <<>>)
      BY <1>2, <1>7
    <3>3. Open(a, i) => IsList(wire'[Leader][i]) /\ Alone(a, i)'
      BY <1>2, <1>8, <1>13
    <3> QED
      BY <1>4, <1>9, <2>1, <3>1, <3>2, <3>3 DEF Joining
  <2>2. CASE j # i
    <3>1. wire'[q][j] = wire[q][j] /\ wire'[Leader][j] = wire[Leader][j] /\ clientType'[Leader][j] = clientType[Leader][j]
      BY <1>1, <1>4, <1>7, <2>2
    <3> QED
      BY <1>1, <1>4, <1>13, <1>14, <3>1 DEF Joins, Joining
  <2> QED
    BY <2>1, <2>2
<1>15. Joins'
  BY <1>4, <1>14 DEF Joins
<1>16. ASSUME NEW q \in Server, NEW j \in Ids, Made(q, Leader, j), wire'[Leader][j] # <<>>
       PROVE  \/ j = i /\ q = a /\ wire'[Leader][j][1].others = others
              \/ wire'[Leader][j] = wire[Leader][j]
  <2>1. CASE j = i
    <3>1. q = a
      BY <1>1, <1>2, <1>16, <2>1, MadeFacts
    <3> QED
      BY <1>8, <1>9, <1>16, <2>1, <3>1
  <2>2. CASE j # i
    BY <1>1, <1>7, <2>2
  <2> QED
    BY <2>1, <2>2
<1>17. Once'
  <2> SUFFICES ASSUME NEW q \in Server, NEW p \in Peer
               PROVE  /\ todo[q][p] <= 1
                      /\ \A j \in Ids : Made(q, Leader, j) /\ wire'[Leader][j] # <<>> => wire'[Leader][j][1].others[p] <= 1
                      /\ \A j, k \in Ids : Made(q, p, j) /\ Made(q, p, k) /\ Open(q, j)' /\ Open(q, k)' => j = k
                      /\ todo[q][p] > 0 => \A j \in Ids : Made(q, p, j) => ~Open(q, j)'
    BY <1>3, <1>4 DEF Once, Peer
  <2>1. \A j \in Ids : Made(q, Leader, j) /\ wire'[Leader][j] # <<>> => wire'[Leader][j][1].others[p] <= 1
    BY <1>1, <1>6, <1>16 DEF Once
  <2> QED
    BY <1>1, <1>4, <2>1 DEF Once
<1>18. ~Answered(a)
  BY <1>2, Shapes DEF Answered
<1>19. ASSUME NEW q \in Server, Answered(q) PROVE Answered(q)'
  <2>1. q # a
    BY <1>18, <1>19
  <2>2. \A j \in Ids : Made(q, Leader, j) => wire'[q][j] = wire[q][j]
    BY <1>1, <1>2, <1>7, <2>1, MadeFacts
  <2> QED
    BY <1>3, <1>4, <1>19, <2>2 DEF Answered
<1>20. ASSUME NEW q \in Server, NEW p \in Server, Named(q, p)'
       PROVE  Named(q, p) \/ (p = a /\ others[q] > 0)
  BY <1>3, <1>4, <1>16, <1>20 DEF Named
<1>21. ASSUME NEW q \in Peer, others[q] > 0
       PROVE  q # a /\ Answered(q)
  <2>1. q \in Server /\ q \notin restarted
    BY DEF Peer
  <2>2. PICK j \in Ids : Made(q, Leader, j) /\ clientType[Leader][j] = "follower"
    BY <1>6, <1>21, <2>1
  <2>3. wire[q][j] \in Done
    BY <1>1, <2>1, <2>2 DEF Joins, Joining
  <2>4. \A k \in Ids : Made(q, Leader, k) => k = j
    BY <1>1, <2>1, <2>2 DEF OneJoin
  <2>5. q \notin toJoin
    BY <1>1, <2>1, <2>2 DEF Waiting
  <2> QED
    BY <1>6, <1>21, <2>1, <2>3, <2>4, <2>5 DEF Answered
<1>22. Order'
  <2> SUFFICES ASSUME NEW p \in Server, NEW q \in Peer, Named(q, p)'
               PROVE  Answered(q)' /\ (p \notin restarted => ~Named(p, q)')
    BY <1>3 DEF Order, Peer
  <2>1. q \in Server /\ q # Leader /\ q \notin restarted
    BY DEF Peer
  <2>2. Named(q, p) \/ (p = a /\ others[q] > 0)
    BY <1>20, <2>1
  <2>3. Answered(q) /\ q # a
    BY <1>1, <1>18, <1>21, <2>2 DEF Order
  <2>4. ASSUME p \notin restarted, Named(p, q)' PROVE FALSE
    <3>1. Named(p, q)
      BY <1>20, <2>1, <2>3, <2>4
    <3>2. p # Leader
      BY <1>1, <1>3, <2>1, <2>2, NobodyType DEF LeaderAccepts, Named
    <3>3. p \in Peer
      BY <2>4, <3>2 DEF Peer
    <3>4. Answered(p)
      BY <1>1, <2>1, <3>1, <3>3 DEF Order
    <3>5. Named(q, p)
      BY <1>18, <2>2, <3>4
    <3> QED
      BY <1>1, <2>4, <3>1, <3>5 DEF Order
  <2> QED
    BY <1>19, <2>1, <2>3, <2>4
<1> QED
  BY <1>5, <1>10, <1>11, <1>12, <1>15, <1>17, <1>22 DEF Mesh

(* Only the two ends of a connection between newcomers notice what is read *)
(* from it.                                                                 *)
LEMMA MeshPlainStep ==
  ASSUME IInv, Mesh, NEW i \in Ids, NEW a \in Server, NEW p \in Server, Made(a, p, i), p # Leader,
         UNCHANGED <<up, toJoin, restarted, conns, todo>>,
         \A q \in Server, j \in Ids :
           j # i => wire'[q][j] = wire[q][j] /\ clientType'[q][j] = clientType[q][j],
         \A q \in Server : Plain(wire'[q][i]) /\ (Open(q, i)' => Open(q, i))
  PROVE  /\ LeaderAccepts' /\ Joins' /\ Plains' /\ Down' /\ Waiting' /\ OneJoin' /\ Once' /\ Order'
<1>1. /\ LeaderAccepts /\ Joins /\ Plains /\ Down /\ Waiting /\ OneJoin /\ Once /\ Order
      /\ Leader \in Server
  BY MadeFacts DEF Mesh
<1>2. /\ \A q, r, j : (Made(q, r, j)' <=> Made(q, r, j))
      /\ \A q \in Server, j \in Ids : Made(q, Leader, j) => j # i
      /\ \A q \in Server, j \in Ids : (j # i => (Open(q, j)' <=> Open(q, j))) /\ (Open(q, j)' => Open(q, j))
  <2>1. \A q \in Server, j \in Ids : Made(q, Leader, j) => j # i
    BY <1>1, MadeFacts
  <2>2. \A q \in Server, j \in Ids : j # i => (Open(q, j)' <=> Open(q, j))
    BY DEF Open
  <2> QED
    BY <2>1, <2>2, MadeSame
<1>3. LeaderAccepts' /\ Down' /\ OneJoin'
  BY <1>1, <1>2 DEF LeaderAccepts, Down, OneJoin
<1>4. Joins'
  <2>1. ASSUME NEW q \in Server, NEW j \in Ids, Alone(q, j) PROVE Alone(q, j)'
    BY <1>2, <2>1 DEF Alone
  <2> QED
    BY <1>1, <1>2, <2>1 DEF Joins, Joining
<1>5. Plains'
  BY <1>1, <1>2 DEF Plains
<1>6. Waiting'
  BY <1>1, <1>2 DEF Waiting, IInv, TypeOK
<1>7. Once'
  <2> SUFFICES ASSUME NEW q \in Server, NEW r \in Peer
               PROVE  /\ todo[q][r] <= 1
                      /\ \A j \in Ids : Made(q, Leader, j) /\ wire'[Leader][j] # <<>> => wire'[Leader][j][1].others[r] <= 1
                      /\ \A j, k \in Ids : Made(q, r, j) /\ Made(q, r, k) /\ Open(q, j)' /\ Open(q, k)' => j = k
                      /\ todo[q][r] > 0 => \A j \in Ids : Made(q, r, j) => ~Open(q, j)'
    BY <1>2 DEF Once, Peer
  <2> QED
    BY <1>1, <1>2 DEF Once
<1>8. Order'
  <2>1. \A q, r \in Server : Named(q, r)' <=> Named(q, r)
    BY <1>1, <1>2 DEF Named
  <2>2. \A q \in Server : Answered(q)' <=> Answered(q)
    BY <1>2 DEF Answered
  <2> QED
    BY <1>1, <2>1, <2>2 DEF Order, Peer
<1> QED
  BY <1>3, <1>4, <1>5, <1>6, <1>7, <1>8

(* What a server reads from another newcomer. *)
LEMMA PlainRead ==
  ASSUME IInv, Plains, NEW s \in Server, NEW i \in Ids, NEW type, Reads(s, i, type),
         NEW a \in Server, NEW p \in Server, Made(a, p, i), p # Leader, wire' = Read(s, i)
  PROVE  \A q \in Server : /\ \A j \in Ids : j # i => wire'[q][j] = wire[q][j]
                           /\ Plain(wire'[q][i])
<1>1. Other(s, i) \in Server
  BY ReadFacts DEF IInv
<1>2. \A q \in Server, j \in Ids :
        wire'[q][j] = IF q = Other(s, i) /\ j = i THEN Tail(wire[q][j]) ELSE wire[q][j]
  BY <1>1, ReadPoints
<1>3. \A q \in Server : Plain(wire[q][i]) /\ wire[q][i] \in Seq(Packets)
  BY DEF Plains, IInv, TypeOK, Packets
<1>4. Plain(Tail(wire[Other(s, i)][i]))
  BY <1>1, <1>3, PlainTail DEF Reads
<1> QED
  BY <1>2, <1>3, <1>4

LEMMA MeshBeMyOther ==
  ASSUME IInv, Mesh, NEW s \in Server, NEW i \in Ids, BeMyOtherCommand(s, i) PROVE Mesh'
<1>1. Reads(s, i, "beMy otherfollower") /\ wire' = Read(s, i) /\ BecomesFollower(s, i)
      /\ UNCHANGED <<up, toJoin, restarted, conns, todo>>
  BY DEF BeMyOtherCommand, runs
<1>2. PICK a, p \in Server : Made(a, p, i) /\ p # Leader
  <2>1. PICK a, p \in Server : Made(a, p, i) /\ ReadKind(s, i, "beMy otherfollower", a, p)
    BY <1>1, MeshReads
  <2> QED
    BY <2>1 DEF ReadKind
<1>3. \A q \in Server : Plain(wire'[q][i]) /\ \A j \in Ids : j # i => wire'[q][j] = wire[q][j]
  BY <1>1, <1>2, PlainRead DEF Mesh
<1>4. \A q \in Server, j \in Ids :
           /\ clientType'[q][j] = IF q = s /\ j = i THEN "follower" ELSE clientType[q][j]
           /\ Open(q, j)' => Open(q, j)
  <2>1. \A q \in Server, j \in Ids : clientType'[q][j] = IF q = s /\ j = i THEN "follower" ELSE clientType[q][j]
    BY <1>1 DEF IInv, TypeOK, BecomesFollower
  <2> QED
    BY <1>1, <2>1 DEF Open, Reads
<1>5. LeaderAccepts' /\ Joins' /\ Plains' /\ Down' /\ Waiting' /\ OneJoin' /\ Once' /\ Order'
  BY <1>1, <1>2, <1>3, <1>4, MeshPlainStep
<1>6. Files' /\ Found'
  BY <1>1, <1>2, FollowerFiled DEF Mesh, Made
<1> QED
  BY <1>5, <1>6 DEF Mesh

(* A newcomer reads the answer: what it is named, it is named no more.      *)
LEMMA MeshOtherFollower ==
  ASSUME IInv, Mesh, NEW s \in Server, NEW i \in Ids, OtherFollowerCommand(s, i) PROVE Mesh'
<1>1. /\ LeaderAccepts /\ Joins /\ Plains /\ Down /\ Waiting /\ OneJoin /\ Once /\ Files /\ Found /\ Order
      /\ Leader \in Server
  BY MadeFacts DEF Mesh
<1>2. Reads(s, i, "otherFollower") /\ wire' = Read(s, i) /\ s \in up
      /\ UNCHANGED <<up, toJoin, restarted, conns, clientType, leaderClients, followerClients>>
      /\ todo' = [todo EXCEPT ![s] = Head(wire[Other(s, i)][i]).others]
  BY DEF OtherFollowerCommand, runs, own, tables, Reads
<1>3. /\ Made(s, Leader, i) /\ Other(s, i) = Leader
      /\ IsList(wire[Leader][i]) /\ Tail(wire[Leader][i]) = <<>>
      /\ Head(wire[Leader][i]) = wire[Leader][i][1]
      /\ Alone(s, i) /\ Open(s, i) /\ wire[s][i] = <<>>
  <2>1. PICK a, p \in Server : Made(a, p, i) /\ ReadKind(s, i, "otherFollower", a, p)
    BY <1>2, MeshReads
  <2> QED
    BY <2>1 DEF ReadKind
<1>4. PICK others \in [Server -> Nat] :
        others = wire[Leader][i][1].others /\ others[Leader] = 0 /\ \A p \in Peer : others[p] <= 1
  <2>1. Head(wire[Leader][i]) \in Packets
    BY <1>2, <1>3, ReadFacts DEF IInv
  <2>2. wire[Leader][i] # <<>>
    BY <1>2, <1>3 DEF Reads
  <2> QED
    BY <1>1, <1>3, <2>1, <2>2 DEF Packets, IsList, Once
<1>5. /\ todo[s] = Nobody /\ s # Leader
      /\ \A q \in Server : todo'[q] = IF q = s THEN others ELSE todo[q]
      /\ \A q \in Server, j \in Ids : wire'[q][j] = IF q = Leader /\ j = i THEN <<>> ELSE wire[q][j]
  <2>1. \A q \in Server, j \in Ids : wire'[q][j] = IF q = Leader /\ j = i THEN Tail(wire[q][j]) ELSE wire[q][j]
    BY <1>1, <1>2, <1>3, ReadPoints
  <2>2. \A q \in Server : todo'[q] = IF q = s THEN others ELSE todo[q]
    BY <1>2, <1>3, <1>4 DEF IInv, TypeOK
  <2>3. todo[s] = Nobody /\ s # Leader
    BY <1>1, <1>3, MadeFacts DEF Alone
  <2> QED
    BY <1>3, <2>1, <2>2, <2>3
<1>6. \A q, r, j : (Made(q, r, j)' <=> Made(q, r, j)) /\ (Open(q, j)' <=> Open(q, j))
                   /\ Other(q, j)' = Other(q, j) /\ Name(q, j)' = Name(q, j)
  BY <1>2, MadeSame DEF Open
<1>7. s \notin toJoin
  BY <1>1, <1>3 DEF Waiting
<1>8. LeaderAccepts'
  <2>1. \A q \in Server : todo'[q][Leader] = 0
    BY <1>1, <1>4, <1>5 DEF LeaderAccepts
  <2> QED
    BY <1>1, <1>5, <1>6, <2>1 DEF LeaderAccepts
<1>9. Joins'
  <2> SUFFICES ASSUME NEW q \in Server, NEW j \in Ids, Made(q, Leader, j) PROVE Joining(q, j)'
    BY <1>6 DEF Joins
  <2>1. CASE q = s
    <3>1. j # i => ~Open(q, j)
      BY <1>1, <1>3, <2>1 DEF Alone
    <3> QED
      BY <1>1, <1>2, <1>3, <1>5, <1>6, <2>1, <3>1 DEF Joins, Joining
  <2>2. CASE q # s
    <3>1. j # i
      BY <1>1, <1>3, <2>2, MadeFacts
    <3>2. Alone(q, j) => Alone(q, j)'
      BY <1>5, <1>6, <2>2 DEF Alone
    <3> QED
      BY <1>1, <1>2, <1>5, <1>6, <3>1, <3>2 DEF Joins, Joining
  <2> QED
    BY <2>1, <2>2
<1>10. Plains'
  <2>1. Plain(<<>>)
    BY PlainBasics
  <2> QED
    BY <1>1, <1>5, <1>6, <2>1 DEF Plains
<1>11. Down'
  BY <1>1, <1>2, <1>5, <1>6 DEF Down
<1>12. Waiting'
  BY <1>1, <1>2, <1>5, <1>6, <1>7 DEF Waiting, IInv, TypeOK
<1>13. OneJoin' /\ Files' /\ Found'
  BY <1>1, <1>2, <1>6 DEF OneJoin, Files, Found
<1>14. Once'
  <2> SUFFICES ASSUME NEW q \in Server, NEW r \in Peer
               PROVE  /\ todo'[q][r] <= 1
                      /\ \A j \in Ids : Made(q, Leader, j) /\ wire'[Leader][j] # <<>> => wire'[Leader][j][1].others[r] <= 1
                      /\ \A j, k \in Ids : Made(q, r, j) /\ Made(q, r, k) /\ Open(q, j) /\ Open(q, k) => j = k
                      /\ todo'[q][r] > 0 => \A j \in Ids : Made(q, r, j) => ~Open(q, j)
    BY <1>2, <1>6 DEF Once, Peer
  <2>1. r \in Server /\ r # Leader
    BY DEF Peer
  <2>2. todo'[q][r] <= 1
    BY <1>1, <1>4, <1>5 DEF Once
  <2>3. \A j \in Ids : wire'[Leader][j] # <<>> => wire'[Leader][j] = wire[Leader][j]
    BY <1>1, <1>5
  <2>4. \A j \in Ids : q = s /\ Made(q, r, j) => ~Open(q, j)
    <3>1. \A j \in Ids : Made(s, r, j) => j # i
      BY <1>1, <1>3, <2>1, MadeFacts
    <3> QED
      BY <1>3, <2>1, <3>1 DEF Alone
  <2>5. q # s => todo'[q] = todo[q]
    BY <1>5
  <2> QED
    BY <1>1, <2>2, <2>3, <2>4, <2>5 DEF Once
<1>15. Order'
  <2>1. ASSUME NEW q \in Server, NEW r \in Server, Named(q, r)' PROVE Named(q, r)
    <3>1. \A j \in Ids : wire'[Leader][j] # <<>> => wire'[Leader][j] = wire[Leader][j]
      BY <1>1, <1>5
    <3>2. wire[Leader][i] # <<>>
      BY <1>2, <1>3 DEF Reads
    <3>3. todo'[r][q] > 0 => Named(q, r)
      BY <1>3, <1>4, <1>5, <3>2 DEF Named
    <3> QED
      BY <1>6, <2>1, <3>1, <3>3 DEF Named
  <2>2. \A q \in Server : Answered(q)' <=> Answered(q)
    <3>1. \A q \in Server, j \in Ids : Made(q, Leader, j) => wire'[q][j] = wire[q][j]
      BY <1>1, <1>5, MadeFacts
    <3> QED
      BY <1>2, <1>6, <3>1 DEF Answered
  <2> QED
    BY <1>1, <1>2, <2>1, <2>2 DEF Order, Peer
<1> QED
  BY <1>8, <1>9, <1>10, <1>11, <1>12, <1>13, <1>14, <1>15 DEF Mesh

(* Two open connections of a server have one name only if they are one,     *)
(* unless they lead to a server that was started again.                     *)
LEMMA NamesApart ==
  ASSUME IInv, Mesh, NEW s \in Server, NEW i \in Ids, NEW j \in Ids,
         Open(s, i), Open(s, j), Name(s, i) = Name(s, j), Other(s, j) \notin restarted
  PROVE  i = j
<1>1. LeaderAccepts /\ OneJoin /\ Once
  BY DEF Mesh
<1>2. i \in DOMAIN conns /\ j \in DOMAIN conns
  BY DEF IInv, Unmade, Open
<1>3. PICK a, p \in Server : Made(a, p, i)
  BY <1>1, <1>2, MadeFacts
<1>4. PICK b, q \in Server : Made(b, q, j)
  BY <1>1, <1>2, MadeFacts
<1>5. CASE a = s /\ b = s
  <2>1. p = q /\ Other(s, j) = q
    BY <1>3, <1>4, <1>5 DEF Made, Name, Other
  <2>2. CASE q = Leader
    BY <1>1, <1>3, <1>4, <1>5, <2>1, <2>2 DEF OneJoin
  <2>3. CASE q # Leader
    <3>1. q \in Peer
      BY <2>1, <2>3 DEF Peer
    <3> QED
      BY <1>1, <1>3, <1>4, <1>5, <2>1, <3>1 DEF Once
  <2> QED
    BY <2>2, <2>3
<1>6. CASE a # s \/ b # s
  <2>1. Name(s, i) = IF a = s THEN p ELSE i
    BY <1>3 DEF Made, Name
  <2>2. Name(s, j) = IF b = s THEN q ELSE j
    BY <1>4 DEF Made, Name
  <2>3. \A r \in Server, k \in Ids : r # k
    BY MembershipConstants DEF Ids
  <2> QED
    BY <1>6, <2>1, <2>2, <2>3
<1> QED
  BY <1>5, <1>6

LEMMA ClosedFiled ==
  ASSUME IInv, Mesh, NEW s \in Server, NEW i \in Ids, CloseClient(s, i)
  PROVE  Files' /\ Found'
<1>1. /\ Files /\ Found /\ Open(s, i) /\ UNCHANGED <<conns, restarted>>
      /\ \A q, j : Name(q, j)' = Name(q, j) /\ Other(q, j)' = Other(q, j)
  BY MadeSame DEF Mesh, CloseClient, Reads, Open, runs
<1>2. /\ \A q \in Server, j \in Ids :
           clientType'[q][j] = IF q = s /\ j = i THEN "closed" ELSE clientType[q][j]
      /\ \A q \in Server :
           /\ leaderClients'[q] = IF q = s THEN Without(leaderClients[q], Name(q, i)) ELSE leaderClients[q]
           /\ followerClients'[q] = IF q = s THEN Without(followerClients[q], Name(q, i)) ELSE followerClients[q]
  BY DEF IInv, TypeOK, Tables, CloseClient
<1>3. Files'
  <2> SUFFICES ASSUME NEW q \in Server, NEW n \in Names, NEW j \in Ids
               PROVE  /\ n \in DOMAIN leaderClients'[q] /\ leaderClients'[q][n] = j
                           => Name(q, j) = n /\ clientType'[q][j] = "leader"
                      /\ n \in DOMAIN followerClients'[q] /\ followerClients'[q][n] = j
                           => Name(q, j) = n /\ clientType'[q][j] = "follower"
    BY <1>1 DEF Files
  <2>1. n \in DOMAIN leaderClients'[q] => /\ n \in DOMAIN leaderClients[q] /\ leaderClients'[q][n] = leaderClients[q][n]
                                          /\ q = s => n # Name(s, i)
    BY <1>2 DEF Without
  <2>2. n \in DOMAIN followerClients'[q] => /\ n \in DOMAIN followerClients[q] /\ followerClients'[q][n] = followerClients[q][n]
                                            /\ q = s => n # Name(s, i)
    BY <1>2 DEF Without
  <2> QED
    BY <1>1, <1>2, <2>1, <2>2 DEF Files
<1>4. Found'
  <2> SUFFICES ASSUME NEW q \in Server, NEW j \in Ids, clientType'[q][j] \in {"leader", "follower"}, Other(q, j) \notin restarted
               PROVE  Name(q, j) \in DOMAIN leaderClients'[q] \cup DOMAIN followerClients'[q]
    BY <1>1 DEF Found
  <2>1. /\ DOMAIN leaderClients[q] \ {Name(s, i)} \subseteq DOMAIN leaderClients'[q]
        /\ DOMAIN followerClients[q] \ {Name(s, i)} \subseteq DOMAIN followerClients'[q]
        /\ q # s => leaderClients'[q] = leaderClients[q] /\ followerClients'[q] = followerClients[q]
    BY <1>2 DEF Without
  <2>2. clientType[q][j] \in {"leader", "follower"} /\ ~(q = s /\ j = i)
    BY <1>2
  <2>3. Name(q, j) \in DOMAIN leaderClients[q] \cup DOMAIN followerClients[q]
    BY <1>1, <2>2 DEF Found
  <2>4. q = s => Name(s, j) # Name(s, i)
    BY <1>1, <2>2, NamesApart DEF Open
  <2> QED
    BY <2>1, <2>3, <2>4
<1> QED
  BY <1>3, <1>4

LEMMA MeshCloseClient ==
  ASSUME IInv, Mesh, NEW s \in Server, NEW i \in Ids, CloseClient(s, i) PROVE Mesh'
<1>1. Reads(s, i, "FIN") /\ wire' = Read(s, i) /\ UNCHANGED <<up, toJoin, restarted, conns, todo>>
  BY DEF CloseClient, runs
<1>2. \A q \in Server, j \in Ids :
           /\ clientType'[q][j] = IF q = s /\ j = i THEN "closed" ELSE clientType[q][j]
           /\ Open(q, j)' <=> Open(q, j) /\ ~(q = s /\ j = i)
  <2>1. \A q \in Server, j \in Ids : clientType'[q][j] = IF q = s /\ j = i THEN "closed" ELSE clientType[q][j]
    BY DEF IInv, TypeOK, CloseClient
  <2> QED
    BY <2>1 DEF Open
<1>3. PICK a, p \in Server :
        /\ Made(a, p, i)
        /\ \/ /\ p = Leader /\ s = Leader /\ Other(s, i) = a
              /\ wire[a][i] = <<FIN>> /\ Tail(wire[a][i]) = <<>> /\ ~Open(a, i)
           \/ p # Leader
  <2>1. PICK a, p \in Server : Made(a, p, i) /\ ReadKind(s, i, "FIN", a, p)
    BY <1>1, MeshReads
  <2> QED
    BY <2>1 DEF ReadKind
<1>4. Files' /\ Found'
  BY ClosedFiled
<1>5. CASE p # Leader
  <2>1. \A q \in Server : Plain(wire'[q][i]) /\ \A j \in Ids : j # i => wire'[q][j] = wire[q][j]
    BY <1>1, <1>3, <1>5, PlainRead DEF Mesh
  <2>2. LeaderAccepts' /\ Joins' /\ Plains' /\ Down' /\ Waiting' /\ OneJoin' /\ Once' /\ Order'
    BY <1>1, <1>2, <1>3, <1>5, <2>1, MeshPlainStep
  <2> QED
    BY <1>4, <2>2 DEF Mesh
<1>6. CASE p = Leader
  <2>1. /\ LeaderAccepts /\ Joins /\ Plains /\ Down /\ Waiting /\ OneJoin /\ Once /\ Order
        /\ Leader \in Server /\ a # Leader
    BY <1>3, MadeFacts DEF Mesh
  <2>2. \A q \in Server, j \in Ids : wire'[q][j] = IF q = a /\ j = i THEN <<>> ELSE wire[q][j]
    <3>1. \A q \in Server, j \in Ids : wire'[q][j] = IF q = a /\ j = i THEN Tail(wire[q][j]) ELSE wire[q][j]
      BY <1>1, <1>3, <1>6, ReadPoints
    <3> QED
      BY <1>3, <1>6, <3>1
  <2>3. \A q, r, j : Made(q, r, j)' <=> Made(q, r, j)
    BY <1>1, MadeSame
  <2>4. LeaderAccepts' /\ Down' /\ OneJoin'
    BY <1>1, <1>2, <2>1, <2>3 DEF LeaderAccepts, Down, OneJoin
  <2>5. Waiting'
    BY <1>1, <1>2, <2>1, <2>3 DEF Waiting, IInv, TypeOK
  <2>6. Plains'
    BY <2>1, <2>2, <2>3, PlainBasics DEF Plains
  <2>7. Joins'
    <3>1. ASSUME NEW q \in Server, NEW j \in Ids, Alone(q, j) PROVE Alone(q, j)'
      BY <1>1, <1>2, <2>3, <3>1 DEF Alone
    <3> SUFFICES ASSUME NEW q \in Server, NEW j \in Ids, Made(q, Leader, j) PROVE Joining(q, j)'
      BY <2>3 DEF Joins
    <3>2. Joining(q, j) /\ q # Leader
      BY <2>1, MadeFacts DEF Joins
    <3>3. CASE q = a /\ j = i
      <4>1. wire'[q][j] = <<>> /\ wire'[Leader][j] = wire[Leader][j] /\ ~Open(q, j) /\ ~Open(q, j)'
        BY <1>2, <1>3, <1>6, <2>1, <2>2, <3>3
      <4>2. <<>> \in Done
        BY Shapes
      <4> QED
        BY <3>2, <4>1, <4>2 DEF Joining
    <3>4. CASE ~(q = a /\ j = i)
      <4>1. j # i
        BY <1>3, <1>6, <2>1, <3>4, MadeFacts
      <4>2. wire'[q][j] = wire[q][j] /\ wire'[Leader][j] = wire[Leader][j] /\ (Open(q, j)' <=> Open(q, j))
            /\ clientType'[Leader][j] = clientType[Leader][j]
        BY <1>2, <2>1, <2>2, <4>1
      <4> QED
        BY <3>1, <3>2, <4>2 DEF Joining
    <3> QED
      BY <3>3, <3>4
  <2>8. \A j \in Ids : wire'[Leader][j] = wire[Leader][j]
    BY <2>1, <2>2
  <2>9. Once'
    <3> SUFFICES ASSUME NEW q \in Server, NEW r \in Peer
                 PROVE  /\ todo[q][r] <= 1
                        /\ \A j \in Ids : Made(q, Leader, j) /\ wire'[Leader][j] # <<>> => wire'[Leader][j][1].others[r] <= 1
                        /\ \A j, k \in Ids : Made(q, r, j) /\ Made(q, r, k) /\ Open(q, j)' /\ Open(q, k)' => j = k
                        /\ todo[q][r] > 0 => \A j \in Ids : Made(q, r, j) => ~Open(q, j)'
      BY <1>1, <2>3 DEF Once, Peer
    <3> QED
      BY <1>2, <2>1, <2>8 DEF Once
  <2>10. Order'
    <3>1. \A q, r \in Server : Named(q, r)' <=> Named(q, r)
      BY <1>1, <2>3, <2>8 DEF Named
    <3>2. ASSUME NEW q \in Server, Answered(q) PROVE Answered(q)'
      <4>1. <<>> \in Done
        BY Shapes
      <4>2. \A j \in Ids : Made(q, Leader, j) => wire'[q][j] \in Done
        BY <2>2, <3>2, <4>1 DEF Answered
      <4> QED
        BY <1>1, <2>3, <3>2, <4>2 DEF Answered
    <3> QED
      BY <1>1, <2>1, <3>1, <3>2 DEF Order, Peer
  <2> QED
    BY <1>4, <2>4, <2>5, <2>6, <2>7, <2>9, <2>10 DEF Mesh
<1> QED
  BY <1>5, <1>6

LEMMA MeshCrash == ASSUME IInv, Mesh, NEW s \in Server, Crash(s) PROVE Mesh'
<1>1. /\ LeaderAccepts /\ Joins /\ Plains /\ Down /\ Waiting /\ OneJoin /\ Once /\ Files /\ Found /\ Order
      /\ Leader \in Server /\ s # Leader
  BY MadeFacts DEF Mesh, Crash
<1>2. /\ UNCHANGED <<toJoin, restarted, conns>> /\ up' = up \ {s}
      /\ \A q \in Server : todo'[q] = IF q = s THEN Nobody ELSE todo[q]
      /\ \A q \in Server, j \in Ids :
           /\ clientType'[q][j] = IF q = s THEN "closed" ELSE clientType[q][j]
           /\ Open(q, j)' <=> Open(q, j) /\ q # s
      /\ \A q, r, j : (Made(q, r, j)' <=> Made(q, r, j)) /\ Other(q, j)' = Other(q, j) /\ Name(q, j)' = Name(q, j)
  <2>1. UNCHANGED <<toJoin, restarted, conns>> /\ up' = up \ {s}
    BY DEF Crash
  <2>2. /\ \A q \in Server : todo'[q] = IF q = s THEN Nobody ELSE todo[q]
        /\ \A q \in Server, j \in Ids : clientType'[q][j] = IF q = s THEN "closed" ELSE clientType[q][j]
    BY DEF Crash, IInv, TypeOK
  <2> QED
    BY <2>1, <2>2, MadeSame DEF Open
<1>3. \A q \in Server, j \in Ids :
        /\ ~Open(s, j) => wire'[q][j] = wire[q][j]
        /\ Open(s, j) /\ q # s => wire'[q][j] = <<>>
        /\ Open(s, j) => wire'[s][j] \in {<<>>, <<FIN>>, Append(wire[s][j], FIN)}
  BY DEF Crash, Open
<1>4. \A q \in Server : todo'[q] = todo[q] \/ todo'[q] = Nobody
  BY <1>2
<1>5. LeaderAccepts'
  BY <1>1, <1>2, <1>4, NobodyType DEF LeaderAccepts
<1>6. ASSUME NEW q \in Server, NEW j \in Ids, Made(q, Leader, j)
      PROVE  /\ q # s => wire'[q][j] = wire[q][j] /\ wire'[Leader][j] = wire[Leader][j]
             /\ q = s /\ Open(s, j) =>
                  wire'[Leader][j] = <<>> /\ wire'[s][j] \in Done \cup Asking
                  /\ (wire[s][j] \in Done => wire'[s][j] \in Done)
  <2>1. q # s => ~Open(s, j)
    BY <1>1, <1>6, MadeFacts
  <2>2. q = s /\ Open(s, j) => wire[s][j] \in {<<>>, <<BeMyLeader>>}
    BY <1>1, <1>6 DEF Joins, Joining
  <2>3. q = s /\ Open(s, j) => /\ wire'[s][j] \in Done \cup Asking
                               /\ wire[s][j] \in Done => wire'[s][j] \in Done
    <3>1. /\ <<>> \in Done /\ <<FIN>> \in Done /\ <<BeMyLeader>> \notin Done
          /\ Append(<<>>, FIN) \in Done /\ Append(<<BeMyLeader>>, FIN) \in Asking
      BY Shapes
    <3>2. Open(s, j) => wire'[s][j] \in {<<>>, <<FIN>>, Append(wire[s][j], FIN)}
      BY <1>3
    <3> QED
      BY <2>2, <3>1, <3>2
  <2> QED
    BY <1>1, <1>3, <2>1, <2>3
<1>7. Joins'
  <2>1. ASSUME NEW q \in Server, NEW j \in Ids, Alone(q, j) PROVE Alone(q, j)'
    BY <1>2, <2>1 DEF Alone
  <2> SUFFICES ASSUME NEW q \in Server, NEW j \in Ids, Made(q, Leader, j) PROVE Joining(q, j)'
    BY <1>2 DEF Joins
  <2>2. Joining(q, j)
    BY <1>1 DEF Joins
  <2>3. clientType'[Leader][j] = clientType[Leader][j]
    BY <1>1, <1>2
  <2>4. CASE q # s
    BY <1>2, <1>6, <2>1, <2>2, <2>3, <2>4 DEF Joining
  <2>5. CASE q = s /\ Open(s, j)
    BY <1>2, <1>6, <2>2, <2>3, <2>5 DEF Joining
  <2>6. CASE q = s /\ ~Open(s, j)
    BY <1>1, <1>2, <1>3, <2>2, <2>3, <2>6 DEF Joining
  <2> QED
    BY <2>4, <2>5, <2>6
<1>8. Plains'
  <2> SUFFICES ASSUME NEW q \in Server, NEW p \in Server, NEW r \in Server, NEW j \in Ids,
                      Made(q, p, j), p # Leader
               PROVE  Plain(wire'[r][j])
    BY <1>2 DEF Plains
  <2>1. Plain(wire[r][j]) /\ wire[r][j] \in Seq(Packets)
    BY <1>1 DEF Plains, IInv, TypeOK, Packets
  <2>2. wire'[r][j] \in {wire[r][j], <<>>, <<FIN>>, Append(wire[r][j], FIN)}
    BY <1>3
  <2> QED
    BY <2>1, <2>2, PlainBasics
<1>9. Down'
  <2>1. up \subseteq Server
    BY DEF IInv, TypeOK
  <2> QED
    BY <1>1, <1>2, <2>1 DEF Down
<1>10. Waiting'
  BY <1>1, <1>2 DEF Waiting, IInv, TypeOK
<1>11. OneJoin'
  BY <1>1, <1>2 DEF OneJoin
<1>12. \A j \in Ids : wire'[Leader][j] # <<>> => wire'[Leader][j] = wire[Leader][j]
  BY <1>1, <1>3
<1>13. \A q, r \in Server : todo'[q][r] = todo[q][r] \/ todo'[q][r] = 0
  BY <1>4, NobodyType
<1>14. Once'
  <2> SUFFICES ASSUME NEW q \in Server, NEW r \in Peer
               PROVE  /\ todo'[q][r] <= 1
                      /\ \A j \in Ids : Made(q, Leader, j) /\ wire'[Leader][j] # <<>> => wire'[Leader][j][1].others[r] <= 1
                      /\ \A j, k \in Ids : Made(q, r, j) /\ Made(q, r, k) /\ Open(q, j)' /\ Open(q, k)' => j = k
                      /\ todo'[q][r] > 0 => \A j \in Ids : Made(q, r, j) => ~Open(q, j)'
    BY <1>2 DEF Once, Peer
  <2>1. r \in Server
    BY DEF Peer
  <2>2. todo'[q][r] <= 1 /\ (todo'[q][r] > 0 => todo[q][r] > 0)
    BY <1>1, <1>13, <2>1 DEF Once
  <2> QED
    BY <1>1, <1>2, <1>12, <2>2 DEF Once
<1>15. Files' /\ Found'
  <2>1. \A q \in Server :
           /\ leaderClients'[q] = IF q = s THEN [n \in {} |-> 0] ELSE leaderClients[q]
           /\ followerClients'[q] = IF q = s THEN [n \in {} |-> 0] ELSE followerClients[q]
    BY DEF IInv, Tables, Crash
  <2>2. Files'
    BY <1>1, <1>2, <2>1 DEF Files
  <2>3. Found'
    BY <1>1, <1>2, <2>1 DEF Found
  <2> QED
    BY <2>2, <2>3
<1>16. Order'
  <2>1. ASSUME NEW r \in Server, NEW q \in Server, Named(q, r)' PROVE Named(q, r)
    <3>1. todo'[r][q] > 0 => todo[r][q] > 0
      BY <1>13
    <3> QED
      BY <1>2, <1>12, <2>1, <3>1 DEF Named
  <2>2. ASSUME NEW q \in Server, Answered(q) PROVE Answered(q)'
    <3>1. \A j \in Ids : Made(q, Leader, j) => wire'[q][j] \in Done
      BY <1>3, <1>6, <2>2 DEF Answered
    <3> QED
      BY <1>2, <2>2, <3>1 DEF Answered
  <2> QED
    BY <1>1, <1>2, <2>1, <2>2 DEF Order, Peer
<1> QED
  BY <1>5, <1>7, <1>8, <1>9, <1>10, <1>11, <1>14, <1>15, <1>16 DEF Mesh

LEMMA MeshRestart == ASSUME IInv, Mesh, NEW s \in Server, Restart(s) PROVE Mesh'
<1>1. /\ LeaderAccepts /\ Joins /\ Plains /\ Down /\ Waiting /\ OneJoin /\ Once /\ Files /\ Found /\ Order
  BY DEF Mesh
<1>2. /\ UNCHANGED <<leaderClients, followerClients, conns, clientType, wire, todo>>
      /\ s \notin up /\ up' = up \cup {s} /\ toJoin' = toJoin \cup {s} /\ restarted' = restarted \cup {s}
  BY DEF Restart, own, tables
<1>3. /\ \A q, r, j : (Made(q, r, j)' <=> Made(q, r, j)) /\ (Open(q, j)' <=> Open(q, j))
      /\ \A q, j : Other(q, j)' = Other(q, j) /\ Name(q, j)' = Name(q, j)
  BY <1>2, MadeSame DEF Open
<1>4. \A q, j : (Alone(q, j)' <=> Alone(q, j)) /\ (Joining(q, j)' <=> Joining(q, j))
  BY <1>2, <1>3 DEF Alone, Joining
<1>5. \A q \in Peer' : q \in Peer /\ q # s
  BY <1>2 DEF Peer
<1>6. LeaderAccepts' /\ Joins' /\ Plains' /\ Down'
  BY <1>1, <1>2, <1>3, <1>4 DEF LeaderAccepts, Joins, Plains, Down
<1>7. Waiting'
  <2>1. todo[s] = Nobody /\ \A j \in Ids : ~Open(s, j)
    BY <1>1, <1>2 DEF Down
  <2> QED
    BY <1>1, <1>2, <1>3, <2>1 DEF Waiting
<1>8. OneJoin' /\ Files' /\ Found'
  BY <1>1, <1>2, <1>3 DEF OneJoin, Files, Found
<1>9. Once'
  <2> SUFFICES ASSUME NEW q \in Server, NEW r \in Peer
               PROVE  /\ todo[q][r] <= 1
                      /\ \A j \in Ids : Made(q, Leader, j) /\ wire[Leader][j] # <<>> => wire[Leader][j][1].others[r] <= 1
                      /\ \A j, k \in Ids : Made(q, r, j) /\ Made(q, r, k) /\ Open(q, j) /\ Open(q, k) => j = k
                      /\ todo[q][r] > 0 => \A j \in Ids : Made(q, r, j) => ~Open(q, j)
    BY <1>2, <1>3, <1>5 DEF Once
  <2> QED
    BY <1>1 DEF Once
<1>10. Order'
  <2>1. \A q, r : Named(q, r)' <=> Named(q, r)
    BY <1>2, <1>3 DEF Named
  <2>2. \A q : q # s => (Answered(q)' <=> Answered(q))
    BY <1>2, <1>3 DEF Answered
  <2> QED
    BY <1>1, <1>2, <1>5, <2>1, <2>2 DEF Order
<1> QED
  BY <1>6, <1>7, <1>8, <1>9, <1>10 DEF Mesh

LEMMA MeshNext == ASSUME IInv, Mesh, [Next]_vars PROVE Mesh'
<1>1. CASE UNCHANGED vars
  <2>1. /\ UNCHANGED <<up, toJoin, restarted, leaderClients, followerClients, conns, clientType, wire, todo>>
    BY <1>1 DEF vars, runs, own, tables
  <2>2. /\ \A q, r, j : (Made(q, r, j)' <=> Made(q, r, j)) /\ (Open(q, j)' <=> Open(q, j))
        /\ \A q, j : Other(q, j)' = Other(q, j) /\ Name(q, j)' = Name(q, j)
    BY <2>1, MadeSame DEF Open
  <2>3. \A q, j : (Alone(q, j)' <=> Alone(q, j)) /\ (Joining(q, j)' <=> Joining(q, j))
    BY <2>1, <2>2 DEF Alone, Joining
  <2>4. LeaderAccepts' /\ Joins' /\ Plains' /\ Down' /\ Waiting'
    BY <2>1, <2>2, <2>3 DEF Mesh, LeaderAccepts, Joins, Plains, Down, Waiting
  <2>5. OneJoin' /\ Once' /\ Files' /\ Found'
    BY <2>1, <2>2 DEF Mesh, OneJoin, Once, Peer, Files, Found
  <2>6. Order'
    <3>1. \A q, r : (Named(q, r)' <=> Named(q, r)) /\ (Answered(q)' <=> Answered(q))
      BY <2>1, <2>2 DEF Named, Answered
    <3> QED
      BY <2>1, <3>1 DEF Mesh, Order, Peer
  <2> QED
    BY <2>4, <2>5, <2>6 DEF Mesh
<1>2. ASSUME NEW s \in Server, Slaveof(s) \/ Crash(s) \/ Restart(s) PROVE Mesh'
  BY <1>2, MeshSlaveof, MeshCrash, MeshRestart
<1>3. ASSUME NEW s \in Server, NEW i \in Ids, Handle(s, i) PROVE Mesh'
  BY <1>3, MeshAccept, MeshBeMyLeader, MeshBeMyOther, MeshOtherFollower, MeshCloseClient DEF Handle
<1>4. ASSUME NEW s \in Server, NEW p \in Server, ConnectOther(s, p) PROVE Mesh'
  BY <1>4, MeshConnect, MeshPassOver
<1> QED
  BY <1>1, <1>2, <1>3, <1>4 DEF Next

LEMMA MeshInvariant == Spec => [](IInv /\ Mesh)
<1>1. Init => IInv /\ Mesh
  BY InvInit, MeshInit
<1>2. IInv /\ Mesh /\ [Next]_vars => IInv' /\ Mesh'
  BY InvNext, MeshNext
<1> QED
  BY <1>1, <1>2, PTL DEF Spec

-----------------------------------------------------------------------------
(* Servers that join at the same time, neither of them started again, never *)
(* connect to each other twice.                                             *)
THEOREM ConnectedAtMostOnce == Spec => []OneConnection
<1>1. ASSUME IInv, Mesh PROVE OneConnection
  <2> SUFFICES ASSUME NEW s \in Server \ restarted, NEW p \in Server \ restarted, s # p
               PROVE  Cardinality(Between(s, p)) <= 1
    BY DEF OneConnection
  <2>1. LeaderAccepts /\ OneJoin /\ Once /\ Order
    BY <1>1 DEF Mesh
  <2>2. ASSUME NEW a \in {s, p}, NEW b \in {s, p}, NEW i \in Ids, NEW j \in Ids,
               Made(a, b, i), Made(a, b, j), Open(a, i), Open(a, j)
        PROVE  i = j
    <3>1. b = Leader \/ b \in Peer
      BY DEF Peer
    <3> QED
      BY <2>1, <2>2, <3>1 DEF OneJoin, Once
  <2>3. ASSUME NEW a \in {s, p}, NEW b \in {s, p}, NEW i \in Ids, NEW j \in Ids,
               Made(a, b, i), Made(b, a, j)
        PROVE  FALSE
    <3>1. a # Leader /\ b # Leader
      BY <1>1, <2>1, <2>3, MadeFacts
    <3>2. Named(b, a) /\ Named(a, b) /\ a \in Server \ restarted /\ b \in Peer
      BY <2>3, <3>1 DEF Named, Peer
    <3> QED
      BY <2>1, <3>2 DEF Order
  <2>4. ASSUME NEW i \in Between(s, p)
        PROVE  i \in Ids /\ Open(s, i) /\ Open(p, i) /\ (Made(s, p, i) \/ Made(p, s, i))
    <3>1. i \in DOMAIN conns /\ {conns[i].from, conns[i].to} = {s, p} /\ Open(s, i) /\ Open(p, i)
      BY DEF Between, Open
    <3>2. i \in Ids
      BY <1>1, <2>1, <3>1, MadeFacts
    <3>3. (conns[i].from = s /\ conns[i].to = p) \/ (conns[i].from = p /\ conns[i].to = s)
      BY <3>1
    <3> QED
      BY <3>1, <3>2, <3>3 DEF Made
  <2>5. \A i, j \in Between(s, p) : i = j
    BY <2>2, <2>3, <2>4
  <2> QED
    BY <2>5, AtMostOne
<1> QED
  BY <1>1, MeshInvariant, PTL

(* No entry of the tables leads to a closed connection or one of another    *)
(* kind or name, and a connection to a server that was not started again is *)
(* in them, although closing erases by name.                                *)
THEOREM TablesExact == Spec => []TablesLead
<1>1. ASSUME IInv, Mesh PROVE TablesLead
  <2>1. Files /\ Found
    BY <1>1 DEF Mesh
  <2>2. \A s \in Server : Table(leaderClients[s]) /\ Table(followerClients[s])
    BY <1>1 DEF IInv, TypeOK
  <2>3. \A s \in Server :
          /\ \A n \in DOMAIN leaderClients[s] : n \in Names /\ leaderClients[s][n] \in Ids
          /\ \A n \in DOMAIN followerClients[s] : n \in Names /\ followerClients[s][n] \in Ids
    BY <2>2 DEF Table
  <2>4. up \subseteq Server
    BY <1>1 DEF IInv, TypeOK
  <2> QED
    BY <2>1, <2>3, <2>4 DEF TablesLead, Files, Found, ServerConns
<1> QED
  BY <1>1, MeshInvariant, PTL

=============================================================================
