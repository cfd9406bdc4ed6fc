---------------------------- MODULE KvElection ----------------------------
(***************************************************************************)
(* Leader election of the Lab3 key-value store                             *)
(* (Lab3/final2/DistributedKvStore-Server): roles, terms, tickets, the     *)
(* APPLY / VOTE / beMy messages between the servers of a full mesh, the    *)
(* SIGALRM timer that drives it and the closing of connections.            *)
(*                                                                         *)
(* A server is one thread.  Its epoll loop reads a batch of packets from   *)
(* one connection, runs a command handler per packet and arms at most one  *)
(* reply, that of the last packet.  serverCron is a signal handler that    *)
(* nothing masks: it may land between any two instructions of the loop.    *)
(* The handlers of APPLY and VOTE therefore take a step for each access to *)
(* term and tickets that a campaign of serverCron can come between, and    *)
(* torn remembers the campaigns that did.                                  *)
(*                                                                         *)
(* Clock readings are abstracted: a timeout may have expired at any tick.  *)
(* Heartbeats (SYN/ACK) are in KvReplication; here they only matter        *)
(* through the timeouts they prevent.                                      *)
(***************************************************************************)
EXTENDS Integers, FiniteSets, Sequences

CONSTANTS
  Server,         \* the processes of the mesh
  FirstLeaders,   \* the leaders a run may start from: the server every other
                  \* one was made slaveof, or a server outside Server that has
                  \* stopped, its connections closed, before the run starts
  MaxBatch,       \* packets that one read() returns at most
  MaxTerm,        \* bound: no campaign beyond this term
  MaxInFlight,    \* bound: packets on one direction of a connection
  MaxCrashes      \* bound: servers that stop

ASSUME ElectionConstants ==
  /\ IsFiniteSet(Server)
  /\ MaxBatch \in Nat \ {0}
  /\ MaxTerm \in Nat
  /\ MaxInFlight \in Nat
  /\ MaxCrashes \in Nat

VARIABLES
  serverType,     \* role of each server
  term,           \* RedisServer::term
  tickets,        \* RedisServer::tickets
  flag_election,  \* 0 waiting, 1 won, -1 failed
  numsServer,     \* RedisServer::numsServer
  clientType,     \* clientType[s][p]: what s takes its connection to p for
  wire,           \* wire[s][p]: packets written by s that p has not read
  reply,          \* reply[s][p]: bufferWrite, when EPOLLOUT is armed for p
  handler,        \* the batch the loop of s is working through
  granted,        \* history: the YES decisions
  campaigned,     \* history: the votes for oneself
  torn            \* history: those cast while a handler of the same server
                  \* was between a test that passed and its effect

roleVars == <<serverType, flag_election, numsServer>>
voteVars == <<term, tickets>>
netVars  == <<clientType, wire, reply>>
history  == <<granted, campaigned, torn>>
vars == <<roleVars, voteVars, netVars, handler, history>>

---------------------------------------------------------------------------
(* Messages.  The fields a type does not carry are 0 and FALSE.            *)

Message == [type : {"APPLY", "VOTE", "beMy", "FIN"}, term : Nat, yes : BOOLEAN]

Apply(t)   == [type |-> "APPLY", term |-> t, yes |-> FALSE]
Vote(t, y) == [type |-> "VOTE", term |-> t, yes |-> y]
BeMy       == [type |-> "beMy", term |-> 0, yes |-> FALSE]
FIN        == [type |-> "FIN", term |-> 0, yes |-> FALSE]

Alive(s) == serverType[s] # "down"

Connected(s) == {p \in Server : clientType[s][p] # "closed"}

\* A write by s to each server of ps; what reaches a closed socket is lost.
Sent(s, ps, m) ==
  [wire EXCEPT ![s] = [p \in Server |->
     IF p \in ps /\ clientType[p][s] # "closed"
     THEN Append(wire[s][p], m) ELSE wire[s][p]]]

Room(s, ps) == \A p \in ps : Len(wire[s][p]) < MaxInFlight

\* Packets of a client to be handled.  at is what comes next for the first one,
\* seen what its handler read of tickets.
Work(p, packets) == [client |-> p, todo |-> packets, at |-> "test", seen |-> 0]

Idle(s) == Work(s, <<>>)

Running(s) == handler[s].todo # <<>>

\* The mesh once every server has joined.
Mesh(first) ==
  /\ serverType = [s \in Server |-> IF s = first THEN "leader" ELSE "follower"]
  /\ term = [s \in Server |-> 0]
  /\ tickets = [s \in Server |-> 0]
  /\ flag_election = [s \in Server |-> -1]
  /\ numsServer = [s \in Server |-> Cardinality(Server)]
  /\ clientType = [s \in Server |-> [p \in Server |->
        IF p = s THEN "closed" ELSE IF p = first THEN "leader" ELSE "follower"]]
  /\ wire = [s \in Server |-> [p \in Server |-> <<>>]]
  /\ reply = [s \in Server |-> [p \in Server |-> <<>>]]
  /\ handler = [s \in Server |-> Idle(s)]
  /\ granted = {}
  /\ campaigned = {}
  /\ torn = {}

Init == \E first \in FirstLeaders : Mesh(first)

---------------------------------------------------------------------------
(* The epoll loop                                                          *)

\* read() returned packets: runCommand starts to split them.
ReadPackets(s, p) ==
  /\ Alive(s) /\ ~Running(s)
  /\ p \in Connected(s) /\ reply[s][p] = <<>>
  /\ \E n \in 1..MaxBatch :
       /\ n <= Len(wire[p][s])
       /\ \A i \in 1..n : wire[p][s][i].type # "FIN"
       /\ handler' = [handler EXCEPT ![s] = Work(p, SubSeq(wire[p][s], 1, n))]
       /\ wire' = [wire EXCEPT ![p][s] = SubSeq(wire[p][s], n + 1, Len(wire[p][s]))]
  /\ UNCHANGED <<roleVars, voteVars, clientType, reply, history>>

\* A connection to a server that closes is one server less.
OneLess(s) == numsServer[s] - 1

\* closeClient: drops what was unread, tells the peer, forgets the server.
CloseClient(s, p) ==
  /\ clientType' = [clientType EXCEPT ![s][p] = "closed"]
  /\ reply' = [reply EXCEPT ![s][p] = <<>>]
  /\ numsServer' = [numsServer EXCEPT ![s] = OneLess(s)]
  /\ wire' = [Sent(s, {p}, FIN) EXCEPT ![p][s] = <<>>]

\* read() returned 0: the peer is gone.
ReadEnd(s, p) ==
  /\ Alive(s) /\ ~Running(s)
  /\ p \in Connected(s) /\ reply[s][p] = <<>>
  /\ wire[p][s] # <<>> /\ Head(wire[p][s]).type = "FIN"
  /\ CloseClient(s, p)
  /\ UNCHANGED <<serverType, flag_election, voteVars, handler, history>>

\* clientWrite: EPOLLOUT fired.
ClientWrite(s, p) ==
  /\ Alive(s) /\ ~Running(s)
  /\ p \in Connected(s) /\ reply[s][p] # <<>>
  /\ wire' = Sent(s, {p}, Head(reply[s][p]))
  /\ reply' = [reply EXCEPT ![s][p] = <<>>]
  /\ UNCHANGED <<roleVars, voteVars, clientType, handler, history>>

\* The next packet of the batch, or the end of runCommand: only the answer to
\* the last packet is armed, so the answers to the earlier ones are lost.
FinishPacket(s, answer) ==
  LET h    == handler[s]
      rest == Tail(h.todo)
  IN  /\ handler' = [handler EXCEPT ![s] =
           IF rest = <<>> THEN Idle(s) ELSE Work(h.client, rest)]
      /\ reply' = IF rest = <<>> /\ h.client \in Connected(s)
                  THEN [reply EXCEPT ![s][h.client] = answer] ELSE reply

---------------------------------------------------------------------------
(* The command handlers                                                    *)

NewerOrEqual(s, t) == t >= term[s]

\* A vote is asked for a term the server has not reached.
Newer(s, t) == t > term[s]

AnyYes(s, m) == m.yes

\* A YES counts in the term it was given for.
Counts(s, m) == m.yes /\ m.term = term[s]

\* The handler of a packet of this type has come this far.
Handles(s, type, at) ==
  /\ Alive(s) /\ Running(s) /\ handler[s].at = at
  /\ Head(handler[s].todo).type = type

\* What the test of applyResponseCommand and voteResponseCommand leads to.
Verdict(s, m) ==
  IF m.type = "APPLY"
  THEN IF Newer(s, m.term) THEN "adopt" ELSE "no"
  ELSE IF Counts(s, m) THEN "count" ELSE "no"

\* The condition the two handlers read before they act.
Test(s) ==
  /\ Handles(s, "APPLY", "test") \/ Handles(s, "VOTE", "test")
  /\ LET h == handler[s]
     IN  handler' = [handler EXCEPT ![s] =
           [client |-> h.client, todo |-> h.todo,
            at |-> Verdict(s, Head(h.todo)), seen |-> tickets[s]]]
  /\ UNCHANGED <<roleVars, voteVars, netVars, history>>

\* applyResponseCommand: the newer term is assigned, whatever term is by now.
AdoptTerm(s) ==
  /\ Handles(s, "APPLY", "adopt")
  /\ LET h == handler[s]
     IN  /\ term' = [term EXCEPT ![s] = Head(h.todo).term]
         /\ handler' = [handler EXCEPT ![s] =
              [client |-> h.client, todo |-> h.todo, at |-> "yes", seen |-> h.seen]]
  /\ UNCHANGED <<roleVars, tickets, netVars, history>>

\* applyResponseCommand: the answer names the term of the moment.
ApplyResponse(s) ==
  /\ Handles(s, "APPLY", "yes") \/ Handles(s, "APPLY", "no")
  /\ LET yes == handler[s].at = "yes"
     IN  /\ granted' = IF yes
              THEN granted \cup {[voter |-> s, term |-> term[s], candidate |-> handler[s].client]}
              ELSE granted
         /\ FinishPacket(s, <<Vote(term[s], yes)>>)
  /\ UNCHANGED <<roleVars, voteVars, clientType, wire, campaigned, torn>>

\* voteResponseCommand: "onetime", so nothing is sent back.  tickets++ loads,
\* adds and stores: where a campaign reset tickets since the test, the load may
\* have come before it or after it.
VoteResponse(s) ==
  /\ Handles(s, "VOTE", "count") \/ Handles(s, "VOTE", "no")
  /\ IF handler[s].at = "count"
     THEN \E n \in {handler[s].seen, tickets[s]} : tickets' = [tickets EXCEPT ![s] = n + 1]
     ELSE tickets' = tickets
  /\ FinishPacket(s, <<>>)
  /\ UNCHANGED <<roleVars, term, clientType, wire, history>>

\* beMyCommand with "follower": the sender won.  The connection that was the
\* first of leaderClients becomes a follower, the sender's the leader.
\* tickets and flag_election stay as the last campaign left them.
BeMyFollower(s) ==
  /\ Handles(s, "beMy", "test")
  /\ serverType' = [serverType EXCEPT ![s] = "follower"]
  /\ LET old == {p \in Server : clientType[s][p] = "leader"}
         c   == handler[s].client
     IN  \E o \in IF old = {} THEN {c} ELSE old :
           clientType' = IF c \in Connected(s)
             THEN [clientType EXCEPT ![s][o] = "follower", ![s][c] = "leader"]
             ELSE [clientType EXCEPT ![s][o] = IF o \in Connected(s) THEN "follower" ELSE @]
  /\ FinishPacket(s, <<>>)
  /\ UNCHANGED <<flag_election, numsServer, voteVars, wire, history>>

---------------------------------------------------------------------------
(* serverCron, every two seconds by SIGALRM                                *)

\* The signal is handled wherever the loop is.
Tick(s) == Alive(s)

\* A handler has read what it acts upon and not acted.
Midway(s) == handler[s].at \in {"adopt", "yes", "count"}

\* The leader was silent for time2Candidate: candidate, and its connection closed.
CronFollower(s) ==
  /\ Tick(s) /\ serverType[s] = "follower"
  /\ serverType' = [serverType EXCEPT ![s] = "candidate"]
  /\ LET leaders == {p \in Server : clientType[s][p] = "leader"}
     IN  IF leaders = {}
         THEN UNCHANGED <<clientType, reply, numsServer, wire>>
         ELSE \E p \in leaders : Room(s, {p}) /\ CloseClient(s, p)
  /\ UNCHANGED <<flag_election, voteVars, handler, history>>

FlagAsTickets(s) == flag_election[s]

\* A campaign starts from one's own vote.
FreshTickets(s) == 1

NoMajority(s, n) == n >= numsServer[s] \div 2

Wins(s, n) == n > numsServer[s] \div 2

\* election() and electionResult(): a new campaign only after a failed one;
\* then lost if election_TimeOut passed since it became candidate, won with a
\* majority of numsServer, else still waiting.
CronCandidate(s) ==
  /\ Tick(s) /\ serverType[s] = "candidate"
  /\ LET starts == flag_election[s] = -1
         n      == IF starts THEN FreshTickets(s) ELSE tickets[s]
         t      == IF starts THEN term[s] + 1 ELSE term[s]
     IN  \E timedOut \in BOOLEAN :
           LET flag == IF timedOut THEN -1 ELSE IF Wins(s, n) THEN 1 ELSE 0
               apply == IF starts THEN <<Apply(t)>> ELSE <<>>
               followers == {p \in Server : clientType[s][p] = "follower"}
           IN  /\ starts => term[s] < MaxTerm
               /\ Room(s, Connected(s))
               /\ tickets' = [tickets EXCEPT ![s] = n]
               /\ term' = [term EXCEPT ![s] = t]
               /\ flag_election' = [flag_election EXCEPT ![s] = flag]
               /\ serverType' = [serverType EXCEPT ![s] =
                    IF flag = 1 THEN "leader" ELSE "candidate"]
               /\ wire' = [wire EXCEPT ![s] = [p \in Server |->
                    IF p \notin Connected(s) \/ clientType[p][s] = "closed"
                    THEN wire[s][p]
                    ELSE wire[s][p] \o apply
                         \o (IF flag = 1 /\ p \in followers THEN <<BeMy>> ELSE <<>>)]]
               /\ campaigned' = IF starts THEN campaigned \cup {<<s, t>>} ELSE campaigned
               /\ torn' = IF starts /\ Midway(s) THEN torn \cup {<<s, t>>} ELSE torn
  /\ UNCHANGED <<numsServer, clientType, reply, handler, granted>>

\* The process stops: its sockets close, whatever it had not read is lost.
Crash(s) ==
  /\ Alive(s)
  /\ Cardinality({p \in Server : ~Alive(p)}) < MaxCrashes
  /\ serverType' = [serverType EXCEPT ![s] = "down"]
  /\ clientType' = [clientType EXCEPT ![s] = [p \in Server |-> "closed"]]
  /\ reply' = [reply EXCEPT ![s] = [p \in Server |-> <<>>]]
  /\ handler' = [handler EXCEPT ![s] = Idle(s)]
  /\ wire' = [p \in Server |-> [q \in Server |->
       IF q = s THEN <<>> ELSE Sent(s, Connected(s), FIN)[p][q]]]
  /\ UNCHANGED <<flag_election, numsServer, voteVars, history>>

Next ==
  \/ \E s, p \in Server : ReadPackets(s, p) \/ ReadEnd(s, p) \/ ClientWrite(s, p)
  \/ \E s \in Server :
       \/ Test(s) \/ AdoptTerm(s) \/ ApplyResponse(s) \/ VoteResponse(s) \/ BeMyFollower(s)
       \/ CronFollower(s) \/ CronCandidate(s) \/ Crash(s)

Spec == Init /\ [][Next]_vars

---------------------------------------------------------------------------
(* Properties                                                              *)

Handler == [client : Server, todo : Seq(Message),
            at : {"test", "adopt", "yes", "no", "count"}, seen : Nat]

\* Every variable keeps its type.
TypeOK ==
  /\ serverType \in [Server -> {"leader", "candidate", "follower", "down"}]
  /\ term \in [Server -> Nat]
  /\ tickets \in [Server -> Nat]
  /\ flag_election \in [Server -> {-1, 0, 1}]
  /\ numsServer \in [Server -> Int]
  /\ clientType \in [Server -> [Server -> {"leader", "follower", "closed"}]]
  /\ wire \in [Server -> [Server -> Seq(Message)]]
  /\ reply \in [Server -> [Server -> Seq(Message)]]
  /\ handler \in [Server -> Handler]
  /\ granted \subseteq [voter : Server, term : Nat, candidate : Server]
  /\ campaigned \subseteq (Server \X Nat)
  /\ torn \subseteq campaigned

\* A server says YES to at most one candidate of a term, however reads, the
\* timer and the closing of connections interleave: applyResponseCommand
\* raises its term before it answers, and what the timer puts between the test
\* and the answer only makes the answer name a later term.
OneYesPerTerm ==
  \A g, h \in granted :
    g.voter = h.voter /\ g.term = h.term => g.candidate = h.candidate

\* The vote of election() and those of applyResponseCommand are one per term,
\* except where election() ran in the middle of the handler: a server votes for
\* itself and for another in one term only if its own campaign is torn.
OneVoteUnlessTorn ==
  \A g \in granted :
    <<g.voter, g.term>> \in campaigned => <<g.voter, g.term>> \in torn

LastCampaign(s) ==
  LET ts == {c[2] : c \in {d \in campaigned : d[1] = s}}
  IN  CHOOSE t \in ts : \A u \in ts : u <= t

HasCampaigned(s) == \E c \in campaigned : c[1] = s

\* The last campaign of s, and not started in the middle of a handler.
WholeCampaign(s) == HasCampaigned(s) /\ <<s, LastCampaign(s)>> \notin torn

\* Who said YES to s in the term of its last campaign, or in a later one that
\* the voter's own campaign reached before the answer was written.
Backers(s) ==
  {v \in Server : \E g \in granted :
     g.voter = v /\ g.candidate = s /\ g.term >= LastCampaign(s)}

\* Tickets are a server's own vote and the YES of distinct servers, unless its
\* campaign started in the middle of a handler, where voteResponseCommand counts
\* a YES of the campaign before: no lost, late or repeated VOTE adds one.
TicketsBacked ==
  \A s \in Server : WholeCampaign(s) => tickets[s] <= 1 + Cardinality(Backers(s))

\* Leaders that both still hold their connection to each other, and whose term
\* is that of their own last campaign, share the term only if one of the two
\* campaigns is torn: in a mesh of up to three the majorities of a campaign
\* intersect although numsServer shrinks.  With four a voter that stops leaves
\* each of two candidates enough.
CampaignLeadersUnique ==
  \A s, p \in Server :
    /\ p \in Connected(s) /\ s \in Connected(p)
    /\ serverType[s] = "leader" /\ WholeCampaign(s) /\ term[s] = LastCampaign(s)
    /\ serverType[p] = "leader" /\ WholeCampaign(p) /\ term[p] = LastCampaign(p)
    => term[s] # term[p]

\* A term falls only from the one of a torn campaign: the late assignment of
\* applyResponseCommand puts an older term over it, and nothing else does.
TermFallsTorn ==
  [][\A s \in Server : term'[s] < term[s] => <<s, term[s]>> \in torn]_vars

\* The four without the exception, as a vote, a ticket and a term are meant.
\* The timer inside a handler breaks each of them.
OneVotePerTerm ==
  \A g \in granted : <<g.voter, g.term>> \notin campaigned

TicketsGiven ==
  \A s \in Server : HasCampaigned(s) => tickets[s] <= 1 + Cardinality(Backers(s))

LeadersShareNoCampaign ==
  \A s, p \in Server :
    /\ p \in Connected(s) /\ s \in Connected(p)
    /\ serverType[s] = "leader" /\ HasCampaigned(s) /\ term[s] = LastCampaign(s)
    /\ serverType[p] = "leader" /\ HasCampaigned(p) /\ term[p] = LastCampaign(p)
    => term[s] # term[p]

TermNeverDecreases == [][\A s \in Server : term'[s] >= term[s]]_vars

\* One leader at a time: two leaders never hold the same term.
OneLeaderPerTerm ==
  \A s, p \in Server :
    serverType[s] = "leader" /\ serverType[p] = "leader" /\ term[s] = term[p] => s = p
===========================================================================
