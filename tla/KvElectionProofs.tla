------------------------- MODULE KvElectionProofs -------------------------
(***************************************************************************)
(* Proofs about KvElection, for every mesh, every bound and every batch    *)
(* size, with the timer anywhere: type correctness, one YES per voter and  *)
(* term, numsServer that counts the connections, and, with the exception   *)
(* of torn campaigns, one vote per server and term, terms that never       *)
(* fall, tickets that are backed by distinct voters and leaders that share *)
(* no term while their majorities meet.                                    *)
(***************************************************************************)
EXTENDS KvElection, FiniteSetTheorems, TLAPS

LEMMA MessagesTyped ==
  /\ FIN \in Message /\ BeMy \in Message
  /\ \A t \in Nat : Apply(t) \in Message
  /\ \A t \in Nat, y \in BOOLEAN : Vote(t, y) \in Message
BY DEF Message, FIN, BeMy, Apply, Vote

\* A write keeps the wires typed.
LEMMA SentTyped ==
  ASSUME wire \in [Server -> [Server -> Seq(Message)]],
         NEW s \in Server, NEW ps, NEW m \in Message
  PROVE  Sent(s, ps, m) \in [Server -> [Server -> Seq(Message)]]
<1>1. \A p \in Server : Append(wire[s][p], m) \in Seq(Message)
  OBVIOUS
<1> QED
  BY <1>1 DEF Sent

LEMMA WorkTyped ==
  \A p \in Server, q \in Seq(Message) : Work(p, q) \in Handler
BY DEF Work, Handler

LEMMA IdleTyped == \A s \in Server : Idle(s) \in Handler
<1>1. <<>> \in Seq(Message)
  OBVIOUS
<1> QED
  BY <1>1, WorkTyped DEF Idle

LEMMA TailTyped ==
  ASSUME NEW q \in Seq(Message), q # <<>>
  PROVE  Head(q) \in Message /\ Tail(q) \in Seq(Message) /\ Len(q) \in Nat /\ Len(q) > 0
OBVIOUS

\* Both ends of a queue cut in two are queues.
LEMMA CutTyped ==
  ASSUME NEW q \in Seq(Message), NEW n \in Nat, n <= Len(q)
  PROVE  SubSeq(q, 1, n) \in Seq(Message) /\ SubSeq(q, n + 1, Len(q)) \in Seq(Message)
OBVIOUS

LEMMA JoinTyped ==
  ASSUME NEW q \in Seq(Message), NEW r \in Seq(Message), NEW u \in Seq(Message)
  PROVE  q \o r \o u \in Seq(Message)
<1>1. q \o r \in Seq(Message)
  OBVIOUS
<1> QED
  BY <1>1

\* What FinishPacket leaves is typed when the answer is.
LEMMA FinishTyped ==
  ASSUME TypeOK, NEW s \in Server, Running(s),
         NEW answer \in Seq(Message), FinishPacket(s, answer)
  PROVE  /\ handler' \in [Server -> Handler]
         /\ reply' \in [Server -> [Server -> Seq(Message)]]
<1> DEFINE h == handler[s]
           rest == Tail(h.todo)
           next == IF rest = <<>> THEN Idle(s) ELSE Work(h.client, rest)
<1>1. h \in Handler /\ h.client \in Server /\ h.todo \in Seq(Message) /\ h.todo # <<>>
  BY DEF TypeOK, Handler, Running
<1>2. rest \in Seq(Message)
  BY <1>1, TailTyped
<1>3. next \in Handler
  BY <1>1, <1>2, IdleTyped, WorkTyped
<1>4. handler' = [handler EXCEPT ![s] = next]
  BY DEF FinishPacket
<1>5. handler' \in [Server -> Handler]
  BY <1>3, <1>4 DEF TypeOK
<1>6. reply' \in [Server -> [Server -> Seq(Message)]]
  BY <1>1 DEF FinishPacket, TypeOK
<1> QED
  BY <1>5, <1>6

---------------------------------------------------------------------------
(* Type correctness, one lemma for each group of actions.                  *)

LEMMA TypeInit == Init => TypeOK
<1> SUFFICES ASSUME Init PROVE TypeOK
  OBVIOUS
<1>0. PICK first \in FirstLeaders : Mesh(first)
  BY DEF Init
<1>1. <<>> \in Seq(Message)
  OBVIOUS
<1>2. numsServer \in [Server -> Int]
  BY <1>0, ElectionConstants, FS_CardinalityType DEF Mesh
<1>3. handler \in [Server -> Handler]
  BY <1>0, IdleTyped DEF Mesh
<1> QED
  BY <1>0, <1>1, <1>2, <1>3 DEF Mesh, TypeOK

LEMMA CloseTyped ==
  ASSUME TypeOK, NEW s \in Server, NEW p \in Server, CloseClient(s, p)
  PROVE  /\ clientType' \in [Server -> [Server -> {"leader", "follower", "closed"}]]
         /\ reply' \in [Server -> [Server -> Seq(Message)]]
         /\ numsServer' \in [Server -> Int]
         /\ wire' \in [Server -> [Server -> Seq(Message)]]
<1>1. Sent(s, {p}, FIN) \in [Server -> [Server -> Seq(Message)]]
  BY SentTyped, MessagesTyped DEF TypeOK
<1>2. <<>> \in Seq(Message)
  OBVIOUS
<1>3. wire' \in [Server -> [Server -> Seq(Message)]]
  BY <1>1, <1>2 DEF CloseClient
<1>4. clientType' \in [Server -> [Server -> {"leader", "follower", "closed"}]]
  BY DEF CloseClient, TypeOK
<1>5. reply' \in [Server -> [Server -> Seq(Message)]]
  BY <1>2 DEF CloseClient, TypeOK
<1>6. numsServer' \in [Server -> Int]
  BY DEF CloseClient, TypeOK, OneLess
<1> QED
  BY <1>3, <1>4, <1>5, <1>6

LEMMA TypeLoop ==
  ASSUME TypeOK, NEW s \in Server, NEW p \in Server,
         ReadPackets(s, p) \/ ReadEnd(s, p) \/ ClientWrite(s, p)
  PROVE  TypeOK'
<1>1. CASE ReadPackets(s, p)
  <2> DEFINE q == wire[p][s]
  <2>1. q \in Seq(Message)
    BY DEF TypeOK
  <2>2. PICK n \in 1..MaxBatch :
          /\ n <= Len(q)
          /\ handler' = [handler EXCEPT ![s] = Work(p, SubSeq(q, 1, n))]
          /\ wire' = [wire EXCEPT ![p][s] = SubSeq(q, n + 1, Len(q))]
    BY <1>1 DEF ReadPackets
  <2>3. n \in Nat
    BY <2>2, ElectionConstants
  <2>4. SubSeq(q, 1, n) \in Seq(Message) /\ SubSeq(q, n + 1, Len(q)) \in Seq(Message)
    BY <2>1, <2>2, <2>3, CutTyped
  <2>5. handler' \in [Server -> Handler]
    BY <2>2, <2>4, WorkTyped DEF TypeOK
  <2>6. wire' \in [Server -> [Server -> Seq(Message)]]
    BY <2>2, <2>4 DEF TypeOK
  <2> QED
    BY <1>1, <2>5, <2>6 DEF TypeOK, ReadPackets, roleVars, voteVars, history
<1>2. CASE ReadEnd(s, p)
  BY <1>2, CloseTyped DEF TypeOK, ReadEnd, voteVars, history
<1>3. CASE ClientWrite(s, p)
  <2>1. Head(reply[s][p]) \in Message
    BY <1>3, TailTyped DEF TypeOK, ClientWrite
  <2>2. wire' \in [Server -> [Server -> Seq(Message)]]
    BY <1>3, <2>1, SentTyped DEF TypeOK, ClientWrite
  <2>3. reply' \in [Server -> [Server -> Seq(Message)]]
    <3>1. <<>> \in Seq(Message) /\ reply' = [reply EXCEPT ![s][p] = <<>>]
      BY <1>3 DEF ClientWrite
    <3>2. reply \in [Server -> [Server -> Seq(Message)]]
      BY DEF TypeOK
    <3> QED
      BY <3>1, <3>2
  <2> QED
    BY <1>3, <2>2, <2>3 DEF TypeOK, ClientWrite, roleVars, voteVars, history
<1> QED
  BY <1>1, <1>2, <1>3

LEMMA TypeHandlers ==
  ASSUME TypeOK, NEW s \in Server,
         Test(s) \/ AdoptTerm(s) \/ ApplyResponse(s) \/ VoteResponse(s) \/ BeMyFollower(s)
  PROVE  TypeOK'
<1> DEFINE h == handler[s]
<1>1. h \in Handler /\ h.todo \in Seq(Message) /\ h.client \in Server /\ h.seen \in Nat
  BY DEF TypeOK, Handler
<1>2. CASE Test(s)
  <2> DEFINE verdict == Verdict(s, Head(h.todo))
  <2>1. verdict \in {"adopt", "no", "count"}
    BY DEF Verdict
  <2>2. handler' = [handler EXCEPT ![s] =
          [client |-> h.client, todo |-> h.todo, at |-> verdict, seen |-> tickets[s]]]
    BY <1>2 DEF Test
  <2> HIDE DEF verdict
  <2>3. tickets[s] \in Nat
    BY DEF TypeOK
  <2>4. handler' \in [Server -> Handler]
    BY <1>1, <2>1, <2>2, <2>3 DEF TypeOK, Handler
  <2> QED
    BY <1>2, <2>4 DEF TypeOK, Test, roleVars, voteVars, netVars, history
<1>3. CASE AdoptTerm(s)
  <2> DEFINE t == Head(h.todo).term
  <2>1. t \in Nat
    BY <1>1, <1>3, TailTyped DEF AdoptTerm, Handles, Running, Message
  <2>2. term' = [term EXCEPT ![s] = t]
    BY <1>3 DEF AdoptTerm
  <2>3. handler' = [handler EXCEPT ![s] =
          [client |-> h.client, todo |-> h.todo, at |-> "yes", seen |-> h.seen]]
    BY <1>3 DEF AdoptTerm
  <2>4. term' \in [Server -> Nat]
    BY <2>1, <2>2 DEF TypeOK
  <2>5. handler' \in [Server -> Handler]
    BY <1>1, <2>3 DEF TypeOK, Handler
  <2> QED
    BY <1>3, <2>4, <2>5 DEF TypeOK, AdoptTerm, roleVars, netVars, history
<1>4. CASE ApplyResponse(s)
  <2> DEFINE yes == h.at = "yes"
             decision == [voter |-> s, term |-> term[s], candidate |-> h.client]
  <2>1. Running(s) /\ term[s] \in Nat /\ yes \in BOOLEAN
    BY <1>4 DEF ApplyResponse, Handles, TypeOK
  <2>2. <<Vote(term[s], yes)>> \in Seq(Message)
    <3>1. Vote(term[s], yes) \in Message
      BY <2>1, MessagesTyped
    <3> QED
      BY <3>1
  <2>3. FinishPacket(s, <<Vote(term[s], yes)>>)
    BY <1>4 DEF ApplyResponse
  <2>4. handler' \in [Server -> Handler] /\ reply' \in [Server -> [Server -> Seq(Message)]]
    BY <2>1, <2>2, <2>3, FinishTyped
  <2>5. granted' \subseteq [voter : Server, term : Nat, candidate : Server]
    <3>1. decision \in [voter : Server, term : Nat, candidate : Server]
      BY <1>1, <2>1
    <3>2. granted' = granted \cup {decision} \/ granted' = granted
      BY <1>4 DEF ApplyResponse
    <3> QED
      BY <3>1, <3>2 DEF TypeOK
  <2> QED
    BY <1>4, <2>4, <2>5 DEF TypeOK, ApplyResponse, roleVars, voteVars
<1>5. CASE VoteResponse(s)
  <2>1. Running(s) /\ FinishPacket(s, <<>>) /\ <<>> \in Seq(Message)
    BY <1>5 DEF VoteResponse, Handles
  <2>2. handler' \in [Server -> Handler] /\ reply' \in [Server -> [Server -> Seq(Message)]]
    BY <2>1, FinishTyped
  <2>3. tickets' \in [Server -> Nat]
    <3>1. \A n \in {h.seen, tickets[s]} : n + 1 \in Nat
      BY <1>1 DEF TypeOK
    <3>2. \/ tickets' = tickets
          \/ \E n \in {h.seen, tickets[s]} : tickets' = [tickets EXCEPT ![s] = n + 1]
      BY <1>5 DEF VoteResponse
    <3> QED
      BY <3>1, <3>2 DEF TypeOK
  <2> QED
    BY <1>5, <2>2, <2>3 DEF TypeOK, VoteResponse, roleVars, history
<1>6. CASE BeMyFollower(s)
  <2>1. Running(s) /\ FinishPacket(s, <<>>) /\ <<>> \in Seq(Message)
    BY <1>6 DEF BeMyFollower, Handles
  <2>2. handler' \in [Server -> Handler] /\ reply' \in [Server -> [Server -> Seq(Message)]]
    BY <2>1, FinishTyped
  <2>3. clientType' \in [Server -> [Server -> {"leader", "follower", "closed"}]]
    <3> DEFINE c == h.client
    <3>1. PICK o \in Server : clientType' = IF c \in Connected(s)
             THEN [clientType EXCEPT ![s][o] = "follower", ![s][c] = "leader"]
             ELSE [clientType EXCEPT ![s][o] = IF o \in Connected(s) THEN "follower" ELSE @]
      BY <1>1, <1>6 DEF BeMyFollower
    <3>2. CASE c \in Connected(s)
      BY <1>1, <3>1, <3>2 DEF TypeOK
    <3>3. CASE c \notin Connected(s)
      BY <3>1, <3>3 DEF TypeOK
    <3> QED
      BY <3>2, <3>3
  <2> QED
    BY <1>6, <2>2, <2>3 DEF TypeOK, BeMyFollower, voteVars, history
<1> QED
  BY <1>2, <1>3, <1>4, <1>5, <1>6

LEMMA TypeCronFollower ==
  ASSUME TypeOK, NEW s \in Server, CronFollower(s)
  PROVE  TypeOK'
<1> DEFINE leaders == {p \in Server : clientType[s][p] = "leader"}
<1>1. serverType' \in [Server -> {"leader", "candidate", "follower", "down"}]
  BY DEF TypeOK, CronFollower
<1>2. UNCHANGED <<flag_election, term, tickets, handler, granted, campaigned, torn>>
  BY DEF CronFollower, voteVars, history
<1>3. CASE leaders = {}
  BY <1>1, <1>2, <1>3 DEF TypeOK, CronFollower
<1>4. CASE leaders # {}
  <2>1. PICK p \in leaders : CloseClient(s, p)
    BY <1>4 DEF CronFollower
  <2> QED
    BY <1>1, <1>2, <2>1, CloseTyped DEF TypeOK
<1> QED
  BY <1>3, <1>4

LEMMA TypeCronCandidate ==
  ASSUME TypeOK, NEW s \in Server, CronCandidate(s)
  PROVE  TypeOK'
<1> DEFINE starts == flag_election[s] = -1
           n == IF starts THEN FreshTickets(s) ELSE tickets[s]
           t == IF starts THEN term[s] + 1 ELSE term[s]
           apply == IF starts THEN <<Apply(t)>> ELSE <<>>
           followers == {p \in Server : clientType[s][p] = "follower"}
<1>1. t \in Nat /\ n \in Nat
  BY DEF TypeOK, FreshTickets
<1>2. PICK flag \in {-1, 0, 1} :
        /\ tickets' = [tickets EXCEPT ![s] = n]
        /\ term' = [term EXCEPT ![s] = t]
        /\ flag_election' = [flag_election EXCEPT ![s] = flag]
        /\ serverType' = [serverType EXCEPT ![s] = IF flag = 1 THEN "leader" ELSE "candidate"]
        /\ wire' = [wire EXCEPT ![s] = [p \in Server |->
             IF p \notin Connected(s) \/ clientType[p][s] = "closed"
             THEN wire[s][p]
             ELSE wire[s][p] \o apply
                  \o (IF flag = 1 /\ p \in followers THEN <<BeMy>> ELSE <<>>)]]
        /\ campaigned' = IF starts THEN campaigned \cup {<<s, t>>} ELSE campaigned
  BY DEF CronCandidate
<1>3. apply \in Seq(Message)
  BY <1>1, MessagesTyped
<1>4. \A p \in Server : (IF flag = 1 /\ p \in followers THEN <<BeMy>> ELSE <<>>) \in Seq(Message)
  BY MessagesTyped
<1>5. \A p \in Server :
        wire[s][p] \o apply \o (IF flag = 1 /\ p \in followers THEN <<BeMy>> ELSE <<>>)
          \in Seq(Message)
  <2> TAKE p \in Server
  <2> DEFINE beMy == IF flag = 1 /\ p \in followers THEN <<BeMy>> ELSE <<>>
  <2>1. wire[s][p] \in Seq(Message) /\ beMy \in Seq(Message)
    BY <1>4 DEF TypeOK
  <2> QED
    BY <1>3, <2>1, JoinTyped
<1>6. wire' \in [Server -> [Server -> Seq(Message)]]
  <2> HIDE DEF apply, followers
  <2> QED
    BY <1>2, <1>5 DEF TypeOK
<1>7. tickets' \in [Server -> Nat] /\ term' \in [Server -> Nat]
  <2> HIDE DEF n, t
  <2> QED
    BY <1>1, <1>2 DEF TypeOK
<1>8. flag_election' \in [Server -> {-1, 0, 1}]
  BY <1>2 DEF TypeOK
<1>9. serverType' \in [Server -> {"leader", "candidate", "follower", "down"}]
  BY <1>2 DEF TypeOK
<1>10. campaigned' \subseteq (Server \X Nat)
  <2> HIDE DEF t
  <2> QED
    BY <1>1, <1>2 DEF TypeOK
<1>11. torn' \subseteq campaigned'
  <2>1. torn' = torn \/ (starts /\ torn' = torn \cup {<<s, t>>})
    BY DEF CronCandidate
  <2>2. torn \subseteq campaigned
    BY DEF TypeOK
  <2> HIDE DEF starts, t
  <2> QED
    BY <1>2, <2>1, <2>2
<1> QED
  BY <1>6, <1>7, <1>8, <1>9, <1>10, <1>11 DEF TypeOK, CronCandidate

LEMMA TypeCrash ==
  ASSUME TypeOK, NEW s \in Server, Crash(s)
  PROVE  TypeOK'
<1>1. <<>> \in Seq(Message)
  OBVIOUS
<1>2. Sent(s, Connected(s), FIN) \in [Server -> [Server -> Seq(Message)]]
  BY SentTyped, MessagesTyped DEF TypeOK
<1>3. wire' \in [Server -> [Server -> Seq(Message)]]
  <2> DEFINE sent == Sent(s, Connected(s), FIN)
  <2>1. wire' = [p \in Server |-> [q \in Server |-> IF q = s THEN <<>> ELSE sent[p][q]]]
    BY DEF Crash
  <2> HIDE DEF sent
  <2> QED
    BY <1>1, <1>2, <2>1 DEF sent
<1>4. handler' \in [Server -> Handler]
  BY IdleTyped DEF TypeOK, Crash
<1>5. reply' \in [Server -> [Server -> Seq(Message)]]
  BY <1>1 DEF TypeOK, Crash
<1>6. clientType' \in [Server -> [Server -> {"leader", "follower", "closed"}]]
  BY DEF TypeOK, Crash
<1>7. serverType' \in [Server -> {"leader", "candidate", "follower", "down"}]
  BY DEF TypeOK, Crash
<1> QED
  BY <1>3, <1>4, <1>5, <1>6, <1>7 DEF TypeOK, Crash, voteVars, history

LEMMA TypeNext == TypeOK /\ [Next]_vars => TypeOK'
<1> SUFFICES ASSUME TypeOK, [Next]_vars PROVE TypeOK'
  OBVIOUS
<1>1. CASE Next
  BY <1>1, TypeLoop, TypeHandlers, TypeCronFollower, TypeCronCandidate, TypeCrash DEF Next
<1>2. CASE UNCHANGED vars
  BY <1>2 DEF TypeOK, vars, roleVars, voteVars, netVars, history
<1> QED
  BY <1>1, <1>2

\* Every variable keeps its type, whatever the mesh, the batches and the bounds.
THEOREM TypeCorrect == Spec => []TypeOK
BY TypeInit, TypeNext, PTL DEF Spec

---------------------------------------------------------------------------
(* Votes.  OneYesPerTerm is not inductive: between the test of             *)
(* applyResponseCommand and its assignment a campaign may move the term    *)
(* up, and the assignment moves it back down.  What survives is that the   *)
(* term asked for is above every YES given, and above every campaign but   *)
(* those that came in between, which are torn.                             *)

\* s has found the packet it handles worth a YES and not yet said it.
YesPending(s) == Running(s) /\ handler[s].at \in {"adopt", "yes"}

Asked(s) == Head(handler[s].todo).term

GrantsReached == \A g \in granted : g.term <= term[g.voter]

CampaignsReached == \A c \in campaigned : c[2] <= term[c[1]] \/ c \in torn

AboveGrants(s)    == \A g \in granted : g.voter = s => g.term < Asked(s)
AboveCampaigns(s) == \A c \in campaigned : c[1] = s => c[2] < Asked(s) \/ c \in torn
TermTorn(s)       == <<s, term[s]>> \in torn

\* What the handler of s may rely on before and after it assigned the term.
PendingSound ==
  \A s \in Server : YesPending(s) =>
    /\ Asked(s) \in Nat
    /\ AboveGrants(s) /\ AboveCampaigns(s)
    /\ handler[s].at = "adopt" => term[s] < Asked(s) \/ TermTorn(s)
    /\ handler[s].at = "yes" => term[s] = Asked(s) \/ (term[s] > Asked(s) /\ TermTorn(s))

VoteInv ==
  /\ TypeOK /\ GrantsReached /\ CampaignsReached /\ PendingSound
  /\ OneYesPerTerm /\ OneVoteUnlessTorn

\* The steps that neither vote nor test.
Quiet ==
  /\ UNCHANGED <<term, granted, campaigned, torn>>
  /\ \A s \in Server : handler'[s] = handler[s] \/ handler'[s].at = "test"

LEMMA WorkUntested == \A p, q : Work(p, q).at = "test" /\ Idle(p).at = "test"
BY DEF Work, Idle

LEMMA FinishUntested ==
  ASSUME TypeOK, NEW s \in Server, NEW answer, FinishPacket(s, answer)
  PROVE  /\ \A p \in Server \ {s} : handler'[p] = handler[p]
         /\ handler'[s].at = "test"
<1> DEFINE next == Work(handler[s].client, Tail(handler[s].todo))
<1>1. \/ handler' = [handler EXCEPT ![s] = Idle(s)]
      \/ handler' = [handler EXCEPT ![s] = next]
  BY DEF FinishPacket
<1>2. Idle(s).at = "test" /\ next.at = "test"
  BY WorkUntested
<1> HIDE DEF next
<1> QED
  BY <1>1, <1>2 DEF TypeOK

LEMMA QuietSteps ==
  ASSUME TypeOK, NEW s \in Server, NEW p \in Server,
         \/ ReadPackets(s, p) \/ ReadEnd(s, p) \/ ClientWrite(s, p)
         \/ VoteResponse(s) \/ BeMyFollower(s) \/ CronFollower(s) \/ Crash(s)
  PROVE  Quiet
<1>1. CASE ReadPackets(s, p)
  <2>1. PICK q : handler' = [handler EXCEPT ![s] = Work(p, q)]
    BY <1>1 DEF ReadPackets
  <2> QED
    BY <1>1, <2>1, WorkUntested DEF ReadPackets, Quiet, TypeOK, voteVars, history
<1>2. CASE ReadEnd(s, p)
  BY <1>2 DEF ReadEnd, Quiet, voteVars, history
<1>3. CASE ClientWrite(s, p)
  BY <1>3 DEF ClientWrite, Quiet, voteVars, history
<1>4. CASE VoteResponse(s)
  BY <1>4, FinishUntested DEF VoteResponse, Quiet, history
<1>5. CASE BeMyFollower(s)
  BY <1>5, FinishUntested DEF BeMyFollower, Quiet, voteVars, history
<1>6. CASE CronFollower(s)
  BY <1>6 DEF CronFollower, Quiet, voteVars, history
<1>7. CASE Crash(s)
  BY <1>7, WorkUntested DEF Crash, Quiet, TypeOK, voteVars, history
<1> QED
  BY <1>1, <1>2, <1>3, <1>4, <1>5, <1>6, <1>7

\* Every step is quiet, a test, an assignment, an answer, or a campaign.
LEMMA Steps ==
  ASSUME TypeOK, [Next]_vars
  PROVE  \/ Quiet
         \/ \E s \in Server : Test(s) \/ AdoptTerm(s) \/ ApplyResponse(s) \/ CronCandidate(s)
<1>1. CASE Next
  BY <1>1, QuietSteps DEF Next
<1>2. CASE UNCHANGED vars
  BY <1>2 DEF Quiet, vars, history, voteVars
<1> QED
  BY <1>1, <1>2

\* What is asked is a term.
LEMMA AskedTyped ==
  ASSUME TypeOK, NEW s \in Server, Running(s)
  PROVE  Asked(s) \in Nat
<1>1. handler[s].todo \in Seq(Message) /\ handler[s].todo # <<>>
  BY DEF TypeOK, Handler, Running
<1> QED
  BY <1>1, TailTyped DEF Asked, Message

\* A test that leads to a YES saw a newer term; a test changes nothing else.
LEMMA TestSees ==
  ASSUME TypeOK, NEW s \in Server, Test(s)
  PROVE  /\ UNCHANGED <<term, tickets, granted, campaigned, torn>>
         /\ \A p \in Server \ {s} : handler'[p] = handler[p]
         /\ handler'[s].todo = handler[s].todo /\ Running(s)
         /\ handler'[s].client = handler[s].client
         /\ handler'[s].at # "yes"
         /\ handler'[s].at = "adopt" => term[s] < Asked(s)
         /\ handler'[s].at = "count" =>
              Counts(s, Head(handler[s].todo)) /\ Head(handler[s].todo).type = "VOTE"
         /\ handler'[s].seen = tickets[s]
<1> DEFINE m == Head(handler[s].todo)
<1>1. /\ UNCHANGED <<term, tickets, granted, campaigned, torn>>
      /\ \A p \in Server \ {s} : handler'[p] = handler[p]
  BY DEF Test, TypeOK, voteVars, history
<1>2. Running(s) /\ m.type \in {"APPLY", "VOTE"}
  BY DEF Test, Handles
<1>3. handler'[s] = [client |-> handler[s].client, todo |-> handler[s].todo,
                     at |-> Verdict(s, m), seen |-> tickets[s]]
  BY DEF Test, TypeOK
<1>4. /\ Verdict(s, m) # "yes"
      /\ Verdict(s, m) = "adopt" => m.term > term[s]
      /\ Verdict(s, m) = "count" => Counts(s, m) /\ m.type = "VOTE"
  BY <1>2 DEF Verdict, Newer
<1>5. Asked(s) \in Nat /\ term[s] \in Nat /\ Asked(s) = m.term
  BY <1>2, AskedTyped DEF TypeOK, Asked
<1> HIDE DEF m
<1>6. handler'[s].at = "adopt" => term[s] < Asked(s)
  BY <1>3, <1>4, <1>5
<1> QED
  BY <1>1, <1>2, <1>3, <1>4, <1>6 DEF m

\* The assignment takes the term that was asked for.
LEMMA AdoptAssigns ==
  ASSUME TypeOK, NEW s \in Server, AdoptTerm(s)
  PROVE  /\ UNCHANGED <<tickets, granted, campaigned, torn>>
         /\ YesPending(s) /\ handler[s].at = "adopt" /\ Asked(s) \in Nat
         /\ term' = [term EXCEPT ![s] = Asked(s)]
         /\ \A p \in Server \ {s} : handler'[p] = handler[p]
         /\ handler'[s].todo = handler[s].todo /\ handler'[s].client = handler[s].client
         /\ handler'[s].at = "yes"
<1>1. Running(s) /\ handler[s].at = "adopt"
  BY DEF AdoptTerm, Handles
<1>2. Asked(s) \in Nat
  BY <1>1, AskedTyped
<1> QED
  BY <1>1, <1>2 DEF AdoptTerm, TypeOK, history, Asked, YesPending

\* A YES names the term of the moment and is recorded; a NO does nothing.
LEMMA ApplyDecides ==
  ASSUME TypeOK, NEW s \in Server, ApplyResponse(s)
  PROVE  /\ UNCHANGED <<term, tickets, campaigned, torn>>
         /\ \/ handler[s].at = "no" /\ granted' = granted
            \/ /\ YesPending(s) /\ handler[s].at = "yes" /\ handler[s].client \in Server
               /\ granted' = granted \cup
                    {[voter |-> s, term |-> term[s], candidate |-> handler[s].client]}
         /\ \A p \in Server \ {s} : handler'[p] = handler[p]
         /\ handler'[s].at = "test"
<1>1. Running(s) /\ handler[s].at \in {"yes", "no"} /\ handler[s].client \in Server
  BY DEF ApplyResponse, Handles, TypeOK, Handler
<1>2. /\ \A p \in Server \ {s} : handler'[p] = handler[p]
      /\ handler'[s].at = "test"
  BY FinishUntested DEF ApplyResponse
<1>3. UNCHANGED <<term, tickets, campaigned, torn>>
  BY DEF ApplyResponse, voteVars
<1>4. granted' = IF handler[s].at = "yes"
                 THEN granted \cup {[voter |-> s, term |-> term[s], candidate |-> handler[s].client]}
                 ELSE granted
  BY DEF ApplyResponse
<1> QED
  BY <1>1, <1>2, <1>3, <1>4 DEF YesPending

\* A campaign raises the term by one and is recorded, as torn where it came in
\* the middle of a handler; or nothing of it moves.
LEMMA CampaignCounts ==
  ASSUME TypeOK, NEW s \in Server, CronCandidate(s)
  PROVE  /\ UNCHANGED <<handler, granted, reply>>
         /\ \/ UNCHANGED <<term, tickets, campaigned, torn>> /\ flag_election[s] # -1
            \/ /\ flag_election[s] = -1
               /\ term' = [term EXCEPT ![s] = term[s] + 1]
               /\ tickets' = [tickets EXCEPT ![s] = 1]
               /\ campaigned' = campaigned \cup {<<s, term[s] + 1>>}
               /\ torn' = IF Midway(s) THEN torn \cup {<<s, term[s] + 1>>} ELSE torn
<1>1. CASE flag_election[s] = -1
  BY <1>1 DEF CronCandidate, FreshTickets
<1>2. CASE flag_election[s] # -1
  BY <1>2 DEF CronCandidate, TypeOK
<1> QED
  BY <1>1, <1>2

LEMMA VoteInit == Init => VoteInv
<1> SUFFICES ASSUME Init PROVE VoteInv
  OBVIOUS
<1>1. granted = {} /\ campaigned = {} /\ \A s \in Server : handler[s].todo = <<>>
  BY DEF Init, Mesh, Idle, Work
<1> QED
  BY <1>1, TypeInit DEF VoteInv, GrantsReached, CampaignsReached, PendingSound, YesPending,
       Running, OneYesPerTerm, OneVoteUnlessTorn

\* The handler of a server that a step leaves alone keeps what it relies on.
LEMMA PendingStays ==
  ASSUME PendingSound, NEW p \in Server, handler'[p] = handler[p], term'[p] = term[p],
         \A g \in granted' : g \in granted \/ g.voter # p,
         \A c \in campaigned' : c \in campaigned \/ c[1] # p,
         torn \subseteq torn', YesPending(p)'
  PROVE  /\ Asked(p)' \in Nat /\ AboveGrants(p)' /\ AboveCampaigns(p)'
         /\ handler'[p].at = "adopt" => term'[p] < Asked(p)' \/ TermTorn(p)'
         /\ handler'[p].at = "yes" => term'[p] = Asked(p)' \/ (term'[p] > Asked(p)' /\ TermTorn(p)')
<1>1. YesPending(p) /\ Asked(p)' = Asked(p)
  BY DEF YesPending, Running, Asked
<1>2. /\ Asked(p) \in Nat /\ AboveGrants(p) /\ AboveCampaigns(p)
      /\ handler[p].at = "adopt" => term[p] < Asked(p) \/ TermTorn(p)
      /\ handler[p].at = "yes" => term[p] = Asked(p) \/ (term[p] > Asked(p) /\ TermTorn(p))
  BY <1>1 DEF PendingSound
<1>3. TermTorn(p) => TermTorn(p)'
  BY DEF TermTorn
<1>4. AboveGrants(p)'
  BY <1>1, <1>2 DEF AboveGrants
<1>5. AboveCampaigns(p)'
  BY <1>1, <1>2 DEF AboveCampaigns
<1> QED
  BY <1>1, <1>2, <1>3, <1>4, <1>5

\* What s acts upon stays sound through each kind of step.
LEMMA PendingNext ==
  ASSUME VoteInv, [Next]_vars
  PROVE  PendingSound'
<1>0. TypeOK /\ PendingSound /\ GrantsReached /\ CampaignsReached
  BY DEF VoteInv
<1>a. /\ term \in [Server -> Nat] /\ TypeOK'
      /\ \A g \in granted : g.voter \in Server /\ g.term \in Nat
      /\ \A c \in campaigned : c[1] \in Server /\ c[2] \in Nat
  BY <1>0, TypeNext DEF TypeOK
<1> SUFFICES ASSUME NEW p \in Server, YesPending(p)'
             PROVE  /\ Asked(p)' \in Nat /\ AboveGrants(p)' /\ AboveCampaigns(p)'
                    /\ handler'[p].at = "adopt" => term'[p] < Asked(p)' \/ TermTorn(p)'
                    /\ handler'[p].at = "yes" =>
                         term'[p] = Asked(p)' \/ (term'[p] > Asked(p)' /\ TermTorn(p)')
  BY DEF PendingSound
<1>1. CASE Quiet
  <2>1. handler'[p] = handler[p]
    BY <1>1 DEF Quiet, YesPending
  <2> QED
    BY <1>0, <1>1, <2>1, PendingStays DEF Quiet
<1>2. ASSUME NEW s \in Server, Test(s), p # s
      PROVE  handler'[p] = handler[p] /\ UNCHANGED <<term, granted, campaigned, torn>>
  BY <1>0, <1>2, TestSees
<1>3. ASSUME Test(p)
      PROVE  /\ Asked(p)' \in Nat /\ AboveGrants(p)' /\ AboveCampaigns(p)'
             /\ handler'[p].at = "adopt" /\ term'[p] < Asked(p)'
  <2>1. /\ UNCHANGED <<term, granted, campaigned, torn>> /\ Running(p)
        /\ handler'[p].todo = handler[p].todo
        /\ handler'[p].at = "adopt" /\ term[p] < Asked(p)
    BY <1>0, <1>3, TestSees DEF YesPending
  <2>2. Asked(p)' = Asked(p) /\ Asked(p) \in Nat /\ term[p] \in Nat
    BY <1>0, <1>a, <2>1, AskedTyped DEF Asked
  <2>3. \A g \in granted : g.voter = p => g.term < Asked(p)
    BY <1>0, <1>a, <2>1, <2>2 DEF GrantsReached
  <2>4. \A c \in campaigned : c[1] = p => c[2] < Asked(p) \/ c \in torn
    BY <1>0, <1>a, <2>1, <2>2 DEF CampaignsReached
  <2> QED
    BY <2>1, <2>2, <2>3, <2>4 DEF AboveGrants, AboveCampaigns
<1>4. ASSUME NEW s \in Server, AdoptTerm(s), p # s
      PROVE  handler'[p] = handler[p] /\ term'[p] = term[p] /\ UNCHANGED <<granted, campaigned, torn>>
  BY <1>0, <1>a, <1>4, AdoptAssigns
<1>5. ASSUME AdoptTerm(p)
      PROVE  /\ Asked(p)' \in Nat /\ AboveGrants(p)' /\ AboveCampaigns(p)'
             /\ handler'[p].at = "yes" /\ term'[p] = Asked(p)'
  <2>1. /\ UNCHANGED <<granted, campaigned, torn>> /\ YesPending(p) /\ Asked(p) \in Nat
        /\ term'[p] = Asked(p) /\ handler'[p].todo = handler[p].todo /\ handler'[p].at = "yes"
    BY <1>0, <1>a, <1>5, AdoptAssigns
  <2>2. Asked(p)' = Asked(p)
    BY <2>1 DEF Asked
  <2>3. AboveGrants(p) /\ AboveCampaigns(p)
    BY <1>0, <2>1 DEF PendingSound
  <2> QED
    BY <2>1, <2>2, <2>3 DEF AboveGrants, AboveCampaigns
<1>6. ASSUME NEW s \in Server, ApplyResponse(s)
      PROVE  /\ handler'[p] = handler[p] /\ UNCHANGED <<term, campaigned, torn>>
             /\ \A g \in granted' : g \in granted \/ g.voter # p
  <2>1. p # s /\ handler'[p] = handler[p] /\ UNCHANGED <<term, campaigned, torn>>
    BY <1>0, <1>6, ApplyDecides DEF YesPending
  <2>2. \A g \in granted' : g \in granted \/ g.voter = s
    BY <1>0, <1>6, ApplyDecides
  <2> QED
    BY <2>1, <2>2
<1>7. ASSUME NEW s \in Server, CronCandidate(s), p # s
      PROVE  /\ handler'[p] = handler[p] /\ term'[p] = term[p] /\ granted' = granted
             /\ torn \subseteq torn' /\ \A c \in campaigned' : c \in campaigned \/ c[1] # p
  <2>1. CASE UNCHANGED <<term, campaigned, torn>>
    BY <1>0, <1>7, <2>1, CampaignCounts
  <2>2. CASE ~UNCHANGED <<term, campaigned, torn>>
    <3>1. PICK n : /\ term' = [term EXCEPT ![s] = n] /\ campaigned' = campaigned \cup {<<s, n>>}
                   /\ torn \subseteq torn' /\ UNCHANGED <<handler, granted>>
      BY <1>0, <1>7, <2>2, CampaignCounts
    <3>2. <<s, n>>[1] = s
      OBVIOUS
    <3> QED
      BY <1>a, <1>7, <3>1, <3>2
  <2> QED
    BY <2>1, <2>2
<1>8. ASSUME CronCandidate(p)
      PROVE  /\ Asked(p)' \in Nat /\ AboveGrants(p)' /\ AboveCampaigns(p)'
             /\ handler'[p].at = "adopt" => term'[p] < Asked(p)' \/ TermTorn(p)'
             /\ handler'[p].at = "yes" =>
                  term'[p] = Asked(p)' \/ (term'[p] > Asked(p)' /\ TermTorn(p)')
  <2>1. UNCHANGED <<handler, granted>> /\ YesPending(p) /\ Asked(p)' = Asked(p) /\ Midway(p)
    <3>1. UNCHANGED <<handler, granted>>
      BY <1>0, <1>8, CampaignCounts
    <3> QED
      BY <3>1 DEF YesPending, Running, Asked, Midway
  <2>2. /\ Asked(p) \in Nat /\ AboveGrants(p) /\ AboveCampaigns(p)
        /\ handler[p].at = "yes" => term[p] = Asked(p) \/ (term[p] > Asked(p) /\ TermTorn(p))
    BY <1>0, <2>1 DEF PendingSound
  <2>3. CASE UNCHANGED <<term, campaigned, torn>>
    BY <1>0, <2>1, <2>3, PendingStays
  <2>4. CASE ~UNCHANGED <<term, campaigned, torn>>
    <3>1. PICK n \in Nat :
            /\ n = term[p] + 1 /\ term' = [term EXCEPT ![p] = n]
            /\ campaigned' = campaigned \cup {<<p, n>>} /\ torn' = torn \cup {<<p, n>>}
      BY <1>0, <1>a, <1>8, <2>1, <2>4, CampaignCounts
    <3>2. term'[p] = n /\ TermTorn(p)'
      BY <1>a, <3>1 DEF TermTorn
    <3>3. AboveGrants(p)' /\ AboveCampaigns(p)'
      BY <2>1, <2>2, <3>1 DEF AboveGrants, AboveCampaigns
    <3>4. handler[p].at = "yes" => n > Asked(p)
      BY <1>a, <2>2, <3>1
    <3> QED
      BY <2>1, <2>2, <3>2, <3>3, <3>4
  <2> QED
    BY <2>3, <2>4
<1>9. CASE \E s \in Server : Test(s)
  <2>1. CASE Test(p)
    BY <1>3, <2>1
  <2>2. CASE ~Test(p)
    BY <1>0, <1>2, <1>9, <2>2, PendingStays
  <2> QED
    BY <2>1, <2>2
<1>10. CASE \E s \in Server : AdoptTerm(s)
  <2>1. CASE AdoptTerm(p)
    BY <1>5, <2>1
  <2>2. CASE ~AdoptTerm(p)
    BY <1>0, <1>4, <1>10, <2>2, PendingStays
  <2> QED
    BY <2>1, <2>2
<1>11. CASE \E s \in Server : ApplyResponse(s)
  BY <1>0, <1>6, <1>11, PendingStays
<1>12. CASE \E s \in Server : CronCandidate(s)
  <2>1. CASE CronCandidate(p)
    BY <1>8, <2>1
  <2>2. CASE ~CronCandidate(p)
    BY <1>0, <1>7, <1>12, <2>2, PendingStays
  <2> QED
    BY <2>1, <2>2
<1> QED
  BY <1>0, <1>1, <1>9, <1>10, <1>11, <1>12, Steps

\* No step but a campaign of s, or its assignment, moves the term of s.
LEMMA TermsMove ==
  ASSUME VoteInv, [Next]_vars, NEW s \in Server
  PROVE  \/ term'[s] = term[s]
         \/ CronCandidate(s) /\ term'[s] = term[s] + 1
         \/ AdoptTerm(s) /\ YesPending(s) /\ handler[s].at = "adopt" /\ term'[s] = Asked(s)
<1>0. TypeOK /\ term \in [Server -> Nat]
  BY DEF VoteInv, TypeOK
<1>1. CASE Quiet
  BY <1>1 DEF Quiet
<1>2. ASSUME NEW u \in Server, Test(u) \/ ApplyResponse(u) PROVE term'[s] = term[s]
  BY <1>0, <1>2, TestSees, ApplyDecides
<1>3. ASSUME NEW u \in Server, AdoptTerm(u)
      PROVE  \/ term'[s] = term[s]
             \/ AdoptTerm(s) /\ YesPending(s) /\ handler[s].at = "adopt" /\ term'[s] = Asked(s)
  BY <1>0, <1>3, AdoptAssigns
<1>4. ASSUME NEW u \in Server, CronCandidate(u)
      PROVE  term'[s] = term[s] \/ (CronCandidate(s) /\ term'[s] = term[s] + 1)
  BY <1>0, <1>4, CampaignCounts
<1> QED
  BY <1>0, <1>1, <1>2, <1>3, <1>4, Steps

\* What a step adds to the history: a YES of the term its voter is in, a
\* campaign of the term it moves to, or nothing.
LEMMA HistoryGrows ==
  ASSUME VoteInv, [Next]_vars
  PROVE  /\ torn \subseteq torn' /\ campaigned \subseteq campaigned'
         /\ \/ UNCHANGED <<granted, campaigned>>
            \/ \E s \in Server, d \in [voter : Server, term : Nat, candidate : Server] :
                 /\ YesPending(s) /\ handler[s].at = "yes"
                 /\ d.voter = s /\ d.term = term[s]
                 /\ granted' = granted \cup {d} /\ UNCHANGED <<term, campaigned, torn>>
            \/ \E s \in Server :
                 /\ CronCandidate(s) /\ UNCHANGED granted
                 /\ campaigned' = campaigned \cup {<<s, term[s] + 1>>}
                 /\ term'[s] = term[s] + 1
<1>0. TypeOK /\ term \in [Server -> Nat]
  BY DEF VoteInv, TypeOK
<1>1. CASE Quiet \/ \E s \in Server : Test(s) \/ AdoptTerm(s)
  BY <1>0, <1>1, TestSees, AdoptAssigns DEF Quiet
<1>2. ASSUME NEW s \in Server, ApplyResponse(s)
      PROVE  /\ UNCHANGED <<term, campaigned, torn>>
             /\ \/ UNCHANGED granted
                \/ \E d \in [voter : Server, term : Nat, candidate : Server] :
                     /\ YesPending(s) /\ handler[s].at = "yes"
                     /\ d.voter = s /\ d.term = term[s] /\ granted' = granted \cup {d}
  <2> DEFINE d == [voter |-> s, term |-> term[s], candidate |-> handler[s].client]
  <2>1. /\ UNCHANGED <<term, campaigned, torn>>
        /\ \/ granted' = granted
           \/ /\ YesPending(s) /\ handler[s].at = "yes" /\ handler[s].client \in Server
              /\ granted' = granted \cup {d}
    BY <1>0, <1>2, ApplyDecides
  <2>2. handler[s].client \in Server /\ term[s] \in Nat =>
          /\ d \in [voter : Server, term : Nat, candidate : Server]
          /\ d.voter = s /\ d.term = term[s]
    OBVIOUS
  <2> HIDE DEF d
  <2> QED
    BY <1>0, <2>1, <2>2
<1>3. ASSUME NEW s \in Server, CronCandidate(s)
      PROVE  /\ UNCHANGED granted /\ torn \subseteq torn'
             /\ \/ UNCHANGED campaigned
                \/ campaigned' = campaigned \cup {<<s, term[s] + 1>>} /\ term'[s] = term[s] + 1
  BY <1>0, <1>3, CampaignCounts
<1> QED
  BY <1>0, <1>1, <1>2, <1>3, Steps

\* An assignment is above every YES and every whole campaign of the server.
LEMMA ReachedNext ==
  ASSUME VoteInv, [Next]_vars
  PROVE  GrantsReached' /\ CampaignsReached'
<1>0. TypeOK /\ PendingSound /\ GrantsReached /\ CampaignsReached
  BY DEF VoteInv
<1>1. /\ \A g \in granted : g.voter \in Server /\ g.term \in Nat
      /\ \A c \in campaigned : c[1] \in Server /\ c[2] \in Nat
      /\ \A s \in Server : term[s] \in Nat
  BY <1>0 DEF TypeOK
<1>2. ASSUME NEW g \in granted PROVE g.term <= term'[g.voter]
  <2>1. PICK s \in Server, n \in Nat : s = g.voter /\ n = g.term /\ n <= term[s]
    BY <1>0, <1>1 DEF GrantsReached
  <2>2. AdoptTerm(s) /\ YesPending(s) /\ term'[s] = Asked(s) => n < Asked(s) /\ Asked(s) \in Nat
    BY <1>0, <1>2, <2>1 DEF PendingSound, AboveGrants
  <2> QED
    BY <1>1, <2>1, <2>2, TermsMove
<1>3. ASSUME NEW c \in campaigned PROVE c[2] <= term'[c[1]] \/ c \in torn
  <2>1. PICK s \in Server, n \in Nat : s = c[1] /\ n = c[2] /\ (n <= term[s] \/ c \in torn)
    BY <1>0, <1>1 DEF CampaignsReached
  <2>2. AdoptTerm(s) /\ YesPending(s) /\ term'[s] = Asked(s) =>
          (n < Asked(s) \/ c \in torn) /\ Asked(s) \in Nat
    BY <1>0, <1>3, <2>1 DEF PendingSound, AboveCampaigns
  <2> QED
    BY <1>1, <2>1, <2>2, TermsMove
<1>4. GrantsReached'
  BY <1>1, <1>2, HistoryGrows DEF GrantsReached
<1>5. CampaignsReached'
  <2>1. ASSUME NEW c \in campaigned', c \notin campaigned PROVE c[2] <= term'[c[1]]
    <3>1. PICK s \in Server, n \in Nat : c = <<s, n>> /\ term'[s] = n
      BY <1>1, <2>1, HistoryGrows
    <3> QED
      BY <3>1
  <2>2. torn \subseteq torn'
    BY HistoryGrows
  <2> QED
    BY <1>3, <2>1, <2>2 DEF CampaignsReached
<1> QED
  BY <1>4, <1>5

\* A YES is of a term above those its voter said YES in and campaigned in
\* before, or of its torn campaign; a campaign is above every YES.
LEMMA OnceNext ==
  ASSUME VoteInv, [Next]_vars
  PROVE  OneYesPerTerm' /\ OneVoteUnlessTorn'
<1>0. /\ TypeOK /\ PendingSound /\ GrantsReached /\ OneYesPerTerm /\ OneVoteUnlessTorn
      /\ torn \subseteq torn'
  BY HistoryGrows DEF VoteInv
<1>1. /\ \A g \in granted : g.voter \in Server /\ g.term \in Nat
      /\ \A s \in Server : term[s] \in Nat
  BY <1>0 DEF TypeOK
<1>2. CASE UNCHANGED <<granted, campaigned>>
  BY <1>0, <1>2 DEF OneYesPerTerm, OneVoteUnlessTorn
<1>3. ASSUME NEW s \in Server, NEW d \in [voter : Server, term : Nat, candidate : Server],
             YesPending(s), handler[s].at = "yes", d.voter = s, d.term = term[s],
             granted' = granted \cup {d}, UNCHANGED <<campaigned, torn>>
      PROVE  OneYesPerTerm' /\ OneVoteUnlessTorn'
  <2>1. /\ Asked(s) \in Nat /\ AboveGrants(s) /\ AboveCampaigns(s)
        /\ term[s] = Asked(s) \/ (term[s] > Asked(s) /\ TermTorn(s))
    BY <1>0, <1>3 DEF PendingSound
  <2>2. \A g \in granted : g.voter = s => g.term < term[s]
    BY <1>1, <2>1 DEF AboveGrants
  <2>3. OneYesPerTerm'
    BY <1>0, <1>1, <1>3, <2>2 DEF OneYesPerTerm
  <2>4. <<s, term[s]>> \in campaigned => <<s, term[s]>> \in torn
    <3>1. <<s, term[s]>>[1] = s /\ <<s, term[s]>>[2] = term[s]
      OBVIOUS
    <3> QED
      BY <1>1, <2>1, <3>1 DEF AboveCampaigns, TermTorn
  <2>5. OneVoteUnlessTorn'
    BY <1>0, <1>3, <2>4 DEF OneVoteUnlessTorn
  <2> QED
    BY <2>3, <2>5
<1>4. ASSUME NEW s \in Server, UNCHANGED granted, campaigned' = campaigned \cup {<<s, term[s] + 1>>}
      PROVE  OneYesPerTerm' /\ OneVoteUnlessTorn'
  <2>1. OneYesPerTerm'
    BY <1>0, <1>4 DEF OneYesPerTerm
  <2>2. \A g \in granted : <<g.voter, g.term>> # <<s, term[s] + 1>>
    <3>1. \A g \in granted : g.voter = s => g.term # term[s] + 1
      BY <1>0, <1>1 DEF GrantsReached
    <3> QED
      BY <3>1
  <2>3. OneVoteUnlessTorn'
    BY <1>0, <1>4, <2>2 DEF OneVoteUnlessTorn
  <2> QED
    BY <2>1, <2>3
<1> QED
  BY <1>2, <1>3, <1>4, HistoryGrows

LEMMA VoteNext == VoteInv /\ [Next]_vars => VoteInv'
BY TypeNext, PendingNext, ReachedNext, OnceNext DEF VoteInv

\* The same voter never says YES twice in a term, whatever the timer does in
\* the middle of a handler.
THEOREM OneYes == Spec => []OneYesPerTerm
<1>1. VoteInv => OneYesPerTerm
  BY DEF VoteInv
<1> QED
  BY <1>1, VoteInit, VoteNext, PTL DEF Spec

\* A server that votes for itself votes for nobody else in that term, unless
\* the timer started its campaign in the middle of a handler.
THEOREM OneVote == Spec => []OneVoteUnlessTorn
<1>1. VoteInv => OneVoteUnlessTorn
  BY DEF VoteInv
<1> QED
  BY <1>1, VoteInit, VoteNext, PTL DEF Spec

\* Only the assignment of applyResponseCommand after a campaign that the timer
\* put in front of it lowers a term.
THEOREM TermsFallTorn == Spec => TermFallsTorn
<1>1. VoteInv /\ [Next]_vars =>
        [\A s \in Server : term'[s] < term[s] => <<s, term[s]>> \in torn]_vars
  <2> SUFFICES ASSUME VoteInv, [Next]_vars, NEW s \in Server, term'[s] < term[s]
               PROVE  <<s, term[s]>> \in torn
    OBVIOUS
  <2>1. term[s] \in Nat /\ PendingSound
    BY DEF VoteInv, TypeOK
  <2>2. YesPending(s) /\ handler[s].at = "adopt" /\ term'[s] = Asked(s)
    BY <2>1, TermsMove
  <2>3. Asked(s) \in Nat /\ (term[s] < Asked(s) \/ TermTorn(s))
    BY <2>1, <2>2 DEF PendingSound
  <2> QED
    BY <2>1, <2>2, <2>3 DEF TermTorn
<1> QED
  BY <1>1, VoteInit, VoteNext, PTL DEF Spec, TermFallsTorn

---------------------------------------------------------------------------
(* The votes on their way.  That tickets are backed by decisions needs to  *)
(* know where every YES is: decided and not counted, or counted and gone.  *)

\* What v sent to s and s has not handled: the batch at hand, what is written
\* and not read, what is armed and not written.
Batch(v, s) == IF handler[s].client = v THEN handler[s].todo ELSE <<>>

IsYes(m, t)   == m.type = "VOTE" /\ m.yes /\ m.term = t
IsApply(m, t) == m.type = "APPLY" /\ m.term = t

HasYes(q, t)   == \E k \in DOMAIN q : IsYes(q[k], t)
HasApply(q, t) == \E k \in DOMAIN q : IsApply(q[k], t)

YesOnWay(v, s, t) ==
  HasYes(Batch(v, s), t) \/ HasYes(wire[v][s], t) \/ HasYes(reply[v][s], t)

ApplyOnWay(s, p, t) ==
  HasApply(Batch(s, p), t) \/ HasApply(wire[s][p], t) \/ HasApply(reply[s][p], t)

\* A YES of a term is on its way once at most.
Single(q) ==
  \A j, k \in DOMAIN q, t \in Nat : IsYes(q[j], t) /\ IsYes(q[k], t) => j = k

Apart(q, r) == \A t \in Nat : ~ (HasYes(q, t) /\ HasYes(r, t))

OneCopy(v, s) ==
  /\ Single(Batch(v, s)) /\ Single(wire[v][s]) /\ Single(reply[v][s])
  /\ Apart(Batch(v, s), wire[v][s]) /\ Apart(Batch(v, s), reply[v][s])
  /\ Apart(wire[v][s], reply[v][s])

VotesOnce == \A v, s \in Server : OneCopy(v, s)

Decision(v, s, t) == [voter |-> v, term |-> t, candidate |-> s]

\* A YES on its way was decided.
VotesGiven ==
  \A v, s \in Server, t \in Nat : YesOnWay(v, s, t) => Decision(v, s, t) \in granted

\* Votes are asked for in campaigns only, and given in the term of one or in
\* that of the voter's torn campaign.
AppliesBacked ==
  \A s, p \in Server, t \in Nat : ApplyOnWay(s, p, t) => <<s, t>> \in campaigned

GrantsBacked ==
  \A g \in granted :
    <<g.candidate, g.term>> \in campaigned \/ <<g.voter, g.term>> \in torn

\* Before a voter says YES again, the candidate has campaigned again.
Separated ==
  \A g, h \in granted : g.voter = h.voter /\ g.term < h.term =>
    \E a \in Nat : <<h.candidate, a>> \in campaigned /\ g.term < a /\ a <= h.term

\* s is about to count the VOTE it handles.
Counting(s) == Running(s) /\ handler[s].at = "count"

CountsNow(s) == IsYes(Head(handler[s].todo), term[s]) /\ handler[s].seen = tickets[s]

PendingCounts ==
  \A s \in Server : Counting(s) =>
    /\ tickets[s] \in {handler[s].seen, 1}
    /\ CountsNow(s) \/ TermTorn(s)

IsLast(s, t) == <<s, t>> \in campaigned /\ \A c \in campaigned : c[1] = s => c[2] <= t

LastsExist == \A s \in Server : HasCampaigned(s) => \E t \in Nat : IsLast(s, t)

\* The last campaign, and not a torn one.
IsWhole(s, t) == IsLast(s, t) /\ <<s, t>> \notin torn

\* Who voted for s in term t or a later one, its vote no longer on its way.
Came(v, s, u) == Decision(v, s, u) \in granted /\ ~YesOnWay(v, s, u)

Arrived(s, t) == {v \in Server : \E u \in Nat : u >= t /\ Came(v, s, u)}

TicketsArrived ==
  \A s \in Server, t \in Nat : IsWhole(s, t) => tickets[s] <= 1 + Cardinality(Arrived(s, t))

LEMMA EmptyHas == \A t : ~HasYes(<<>>, t) /\ ~HasApply(<<>>, t)
BY DEF HasYes, HasApply

LEMMA EmptySingle == Single(<<>>)
BY DEF Single

\* One packet added at the end.
LEMMA AppendHas ==
  ASSUME NEW q \in Seq(Message), NEW m \in Message, NEW t \in Nat
  PROVE  /\ HasYes(Append(q, m), t) => HasYes(q, t) \/ IsYes(m, t)
         /\ HasApply(Append(q, m), t) => HasApply(q, t) \/ IsApply(m, t)
<1>1. \A k \in DOMAIN Append(q, m) :
        (k \in DOMAIN q /\ Append(q, m)[k] = q[k]) \/ Append(q, m)[k] = m
  OBVIOUS
<1> QED
  BY <1>1 DEF HasYes, HasApply

LEMMA AppendSingle ==
  ASSUME NEW q \in Seq(Message), NEW m \in Message, Single(q),
         \A t \in Nat : IsYes(m, t) => ~HasYes(q, t)
  PROVE  Single(Append(q, m))
<1>1. \A k \in DOMAIN Append(q, m) :
        \/ k \in DOMAIN q /\ Append(q, m)[k] = q[k]
        \/ k = Len(q) + 1 /\ Append(q, m)[k] = m
  OBVIOUS
<1> QED
  BY <1>1 DEF Single, HasYes

\* The first packet and the rest.
LEMMA TailHas ==
  ASSUME NEW q \in Seq(Message), q # <<>>, NEW t \in Nat
  PROVE  /\ HasYes(Tail(q), t) => HasYes(q, t)
         /\ HasApply(Tail(q), t) => HasApply(q, t)
         /\ IsYes(Head(q), t) => HasYes(q, t)
         /\ IsApply(Head(q), t) => HasApply(q, t)
         /\ Single(q) => Single(Tail(q))
         /\ Single(q) /\ IsYes(Head(q), t) => ~HasYes(Tail(q), t)
<1>1. \A k \in DOMAIN Tail(q) : k \in Nat /\ k > 0 /\ k + 1 \in DOMAIN q /\ Tail(q)[k] = q[k + 1]
  OBVIOUS
<1>2. 1 \in DOMAIN q /\ Head(q) = q[1]
  OBVIOUS
<1>3. Single(q) => Single(Tail(q))
  BY <1>1 DEF Single
<1>4. Single(q) /\ IsYes(Head(q), t) => ~HasYes(Tail(q), t)
  BY <1>1, <1>2 DEF Single, HasYes
<1> QED
  BY <1>1, <1>2, <1>3, <1>4 DEF HasYes, HasApply

\* A queue cut in two.
LEMMA CutHas ==
  ASSUME NEW q \in Seq(Message), NEW n \in Nat, n <= Len(q), NEW t \in Nat
  PROVE  /\ HasYes(SubSeq(q, 1, n), t) \/ HasYes(SubSeq(q, n + 1, Len(q)), t) => HasYes(q, t)
         /\ HasApply(SubSeq(q, 1, n), t) \/ HasApply(SubSeq(q, n + 1, Len(q)), t) => HasApply(q, t)
<1> DEFINE a == SubSeq(q, 1, n)
           b == SubSeq(q, n + 1, Len(q))
<1>1. \A k \in DOMAIN a : k \in DOMAIN q /\ a[k] = q[k]
  OBVIOUS
<1>2. \A k \in DOMAIN b : k + n \in DOMAIN q /\ b[k] = q[k + n]
  OBVIOUS
<1> HIDE DEF a, b
<1> QED
  BY <1>1, <1>2 DEF HasYes, HasApply, a, b

LEMMA CutSingle ==
  ASSUME NEW q \in Seq(Message), NEW n \in Nat, n <= Len(q), Single(q)
  PROVE  /\ Single(SubSeq(q, 1, n)) /\ Single(SubSeq(q, n + 1, Len(q)))
         /\ Apart(SubSeq(q, 1, n), SubSeq(q, n + 1, Len(q)))
<1> DEFINE a == SubSeq(q, 1, n)
           b == SubSeq(q, n + 1, Len(q))
<1>1. \A k \in DOMAIN a : k \in Nat /\ k <= n /\ k \in DOMAIN q /\ a[k] = q[k]
  OBVIOUS
<1>2. \A k \in DOMAIN b : k \in Nat /\ k > 0 /\ k + n \in DOMAIN q /\ b[k] = q[k + n]
  OBVIOUS
<1> HIDE DEF a, b
<1>3. Single(a)
  BY <1>1 DEF Single
<1>4. Single(b)
  BY <1>2 DEF Single
<1>5. Apart(a, b)
  BY <1>1, <1>2 DEF Single, Apart, HasYes
<1> QED
  BY <1>3, <1>4, <1>5 DEF a, b

\* Packets written behind a queue that are no YES.
LEMMA JoinHas ==
  ASSUME NEW q \in Seq(Message), NEW r \in Seq(Message), NEW u \in Seq(Message), NEW t \in Nat,
         \A k \in DOMAIN r : r[k].type # "VOTE",
         \A k \in DOMAIN u : u[k].type \notin {"VOTE", "APPLY"}
  PROVE  /\ HasYes(q \o r \o u, t) => HasYes(q, t)
         /\ HasApply(q \o r \o u, t) => HasApply(q, t) \/ HasApply(r, t)
         /\ Single(q) => Single(q \o r \o u)
<1> DEFINE w == q \o r \o u
<1>1. \A k \in DOMAIN w :
        \/ k \in DOMAIN q /\ w[k] = q[k]
        \/ k - Len(q) \in DOMAIN r /\ w[k] = r[k - Len(q)]
        \/ k - Len(q) - Len(r) \in DOMAIN u /\ w[k] = u[k - Len(q) - Len(r)]
  OBVIOUS
<1> HIDE DEF w
<1>2. \A k \in DOMAIN w, x \in Nat : IsYes(w[k], x) => k \in DOMAIN q /\ IsYes(q[k], x)
  BY <1>1 DEF IsYes
<1>3. \A k \in DOMAIN w : IsApply(w[k], t) => HasApply(q, t) \/ HasApply(r, t)
  BY <1>1 DEF IsApply, HasApply
<1>4. Single(q) => Single(w)
  BY <1>2 DEF Single
<1>5. HasYes(w, t) => HasYes(q, t)
  BY <1>2 DEF HasYes
<1>6. HasApply(w, t) => HasApply(q, t) \/ HasApply(r, t)
  BY <1>3 DEF HasApply
<1> QED
  BY <1>4, <1>5, <1>6 DEF w

---------------------------------------------------------------------------
(* What a step does to the packets on their way.                           *)

Thins(r, q) ==
  /\ Single(q) => Single(r)
  /\ \A t \in Nat : HasYes(r, t) => HasYes(q, t)

\* No YES is new on any way, nor twice on one it was once on.
Thinned ==
  \A v, s \in Server :
    /\ Thins(Batch(v, s)', Batch(v, s))
    /\ Thins(wire'[v][s], wire[v][s])
    /\ Thins(reply'[v][s], reply[v][s])

FewerVotes == \A v, s \in Server, t \in Nat : YesOnWay(v, s, t)' => YesOnWay(v, s, t)

FewerApplies == \A s, p \in Server, t \in Nat : ApplyOnWay(s, p, t)' => ApplyOnWay(s, p, t)

LEMMA ThinSame == \A q : Thins(q, q)
BY DEF Thins

LEMMA ThinEmpty == \A q : Thins(<<>>, q)
BY EmptyHas, EmptySingle DEF Thins

LEMMA ThinnedOnce ==
  ASSUME VotesOnce, Thinned
  PROVE  VotesOnce' /\ FewerVotes
<1>1. ASSUME NEW v \in Server, NEW s \in Server, NEW t \in Nat, YesOnWay(v, s, t)'
      PROVE  YesOnWay(v, s, t)
  BY <1>1 DEF YesOnWay, Thinned, Thins
<1>2. ASSUME NEW v \in Server, NEW s \in Server
      PROVE  OneCopy(v, s)'
  <2>1. OneCopy(v, s)
    BY DEF VotesOnce
  <2>2. /\ Thins(Batch(v, s)', Batch(v, s)) /\ Thins(wire'[v][s], wire[v][s])
        /\ Thins(reply'[v][s], reply[v][s])
    BY DEF Thinned
  <2> QED
    BY <2>1, <2>2 DEF OneCopy, Thins, Apart
<1> QED
  BY <1>1, <1>2 DEF VotesOnce, FewerVotes

\* A packet that is neither a vote nor an APPLY, behind a queue.
LEMMA AppendOther ==
  ASSUME NEW q \in Seq(Message), NEW m \in Message, m.type \notin {"VOTE", "APPLY"}
  PROVE  /\ Thins(Append(q, m), q)
         /\ \A t \in Nat : HasApply(Append(q, m), t) => HasApply(q, t)
<1>1. \A t \in Nat : ~IsYes(m, t) /\ ~IsApply(m, t)
  BY DEF IsYes, IsApply
<1> QED
  BY <1>1, AppendHas, AppendSingle DEF Thins

LEMMA SentThins ==
  ASSUME TypeOK, NEW s \in Server, NEW ps, NEW v \in Server, NEW p \in Server
  PROVE  /\ Thins(Sent(s, ps, FIN)[v][p], wire[v][p])
         /\ \A t \in Nat : HasApply(Sent(s, ps, FIN)[v][p], t) => HasApply(wire[v][p], t)
<1>1. wire[v][p] \in Seq(Message) /\ FIN \in Message /\ FIN.type = "FIN"
  BY MessagesTyped DEF TypeOK, FIN
<1>2. Sent(s, ps, FIN)[v][p] = wire[v][p] \/ Sent(s, ps, FIN)[v][p] = Append(wire[v][p], FIN)
  BY DEF Sent, TypeOK
<1>3. /\ Thins(Append(wire[v][p], FIN), wire[v][p])
      /\ \A t \in Nat : HasApply(Append(wire[v][p], FIN), t) => HasApply(wire[v][p], t)
  BY <1>1, AppendOther
<1> QED
  BY <1>2, <1>3, ThinSame

LEMMA CloseThins ==
  ASSUME TypeOK, NEW s \in Server, NEW p \in Server, CloseClient(s, p), handler' = handler
  PROVE  Thinned /\ FewerApplies
<1>1. ASSUME NEW v \in Server, NEW q \in Server
      PROVE  wire'[v][q] = <<>> \/ wire'[v][q] = Sent(s, {p}, FIN)[v][q]
  <2>1. Sent(s, {p}, FIN) \in [Server -> [Server -> Seq(Message)]]
    BY SentTyped, MessagesTyped DEF TypeOK
  <2> QED
    BY <2>1 DEF CloseClient
<1>2. ASSUME NEW v \in Server, NEW q \in Server
      PROVE  reply'[v][q] = <<>> \/ reply'[v][q] = reply[v][q]
  BY DEF CloseClient, TypeOK
<1>3. \A v, q \in Server : Batch(v, q)' = Batch(v, q)
  BY DEF Batch
<1>4. Thinned
  BY <1>1, <1>2, <1>3, SentThins, ThinSame, ThinEmpty DEF Thinned
<1>5. FewerApplies
  <2> SUFFICES ASSUME NEW v \in Server, NEW q \in Server, NEW t \in Nat, ApplyOnWay(v, q, t)'
               PROVE  ApplyOnWay(v, q, t)
    BY DEF FewerApplies
  <2> QED
    BY <1>1, <1>2, <1>3, SentThins, EmptyHas DEF ApplyOnWay
<1> QED
  BY <1>4, <1>5

\* The batch loses its first packet or all of it.
LEMMA FinishDrops ==
  ASSUME TypeOK, NEW s \in Server, Running(s), NEW answer \in Seq(Message),
         FinishPacket(s, answer), NEW v \in Server, NEW p \in Server
  PROVE  \/ Batch(v, p)' = Batch(v, p)
         \/ Batch(v, p)' = <<>>
         \/ /\ p = s /\ v = handler[s].client
            /\ Batch(v, s)' = Tail(handler[s].todo)
<1>1. handler[s] \in Handler /\ handler[s].client \in Server /\ handler \in [Server -> Handler]
  BY DEF TypeOK, Handler
<1>2. CASE p = s
  <2> DEFINE rest == Tail(handler[s].todo)
             next == Work(handler[s].client, rest)
  <2>1. Idle(s).todo = <<>> /\ next.todo = rest /\ next.client = handler[s].client
    BY DEF Idle, Work
  <2>2. handler'[s] = Idle(s) \/ handler'[s] = next
    BY DEF FinishPacket, TypeOK
  <2> HIDE DEF next, rest
  <2>3. Batch(v, s)' = <<>> \/ (v = handler[s].client /\ Batch(v, s)' = rest)
    BY <2>1, <2>2 DEF Batch
  <2> QED
    BY <1>2, <2>3 DEF rest
<1>3. CASE p # s
  <2>1. handler'[p] = handler[p]
    BY <1>3, FinishUntested
  <2> QED
    BY <2>1 DEF Batch
<1> QED
  BY <1>2, <1>3

LEMMA FinishThins ==
  ASSUME TypeOK, NEW s \in Server, Running(s), NEW answer \in Seq(Message),
         FinishPacket(s, answer), NEW v \in Server, NEW p \in Server
  PROVE  /\ Thins(Batch(v, p)', Batch(v, p))
         /\ \A t \in Nat : HasApply(Batch(v, p)', t) => HasApply(Batch(v, p), t)
<1>1. handler[s].todo \in Seq(Message) /\ handler[s].todo # <<>>
  BY DEF TypeOK, Handler, Running
<1>2. CASE Batch(v, p)' = Batch(v, p) \/ Batch(v, p)' = <<>>
  BY <1>2, ThinSame, ThinEmpty, EmptyHas
<1>3. CASE p = s /\ v = handler[s].client /\ Batch(v, s)' = Tail(handler[s].todo)
  <2>1. Batch(v, p) = handler[s].todo
    BY <1>3 DEF Batch
  <2> QED
    BY <1>1, <1>3, <2>1, TailHas DEF Thins
<1> QED
  BY <1>2, <1>3, FinishDrops

\* The answer is armed, or no reply changes.
LEMMA FinishArms ==
  ASSUME TypeOK, NEW s \in Server, NEW answer \in Seq(Message), FinishPacket(s, answer)
  PROVE  \A v, p \in Server :
           \/ reply'[v][p] = reply[v][p]
           \/ v = s /\ p = handler[s].client /\ reply'[v][p] = answer
BY DEF FinishPacket, TypeOK

\* The end of a packet whose answer is no YES and no APPLY.
LEMMA SilentEnd ==
  ASSUME TypeOK, NEW s \in Server, Running(s),
         NEW answer \in Seq(Message), FinishPacket(s, answer),
         \A q : Thins(answer, q), \A t : ~HasApply(answer, t), wire' = wire
  PROVE  Thinned /\ FewerApplies
<1>1. \A v, p \in Server : reply'[v][p] = answer \/ reply'[v][p] = reply[v][p]
  BY FinishArms
<1>2. Thinned
  BY <1>1, FinishThins, ThinSame DEF Thinned
<1>3. FewerApplies
  BY <1>1, FinishThins DEF FewerApplies, ApplyOnWay
<1> QED
  BY <1>2, <1>3

LEMMA NoAnswer ==
  ASSUME TypeOK, NEW s \in Server, Running(s), FinishPacket(s, <<>>), wire' = wire
  PROVE  Thinned /\ FewerApplies
<1>1. <<>> \in Seq(Message)
  OBVIOUS
<1> QED
  BY <1>1, SilentEnd, ThinEmpty, EmptyHas

\* Packets that are read move from the wire to the batch.
LEMMA ReadMoves ==
  ASSUME TypeOK, VotesOnce, NEW s \in Server, NEW p \in Server, ReadPackets(s, p)
  PROVE  VotesOnce' /\ FewerVotes /\ FewerApplies
<1>0. wire[p][s] \in Seq(Message) /\ reply' = reply
  BY DEF TypeOK, ReadPackets
<1>1. PICK n \in 1..MaxBatch :
        /\ n <= Len(wire[p][s])
        /\ handler' = [handler EXCEPT ![s] =
             Work(p, SubSeq(wire[p][s], 1, n))]
        /\ wire' = [wire EXCEPT ![p][s] = SubSeq(wire[p][s], n + 1, Len(wire[p][s]))]
  BY DEF ReadPackets
<1>2. n \in Nat
  BY <1>1, ElectionConstants
<1>3. \A v \in Server : Batch(v, s) = <<>>
  BY DEF ReadPackets, Running, Batch
<1>4. \A v, r \in Server : r # s => Batch(v, r)' = Batch(v, r)
  BY <1>1 DEF Batch, TypeOK
<1>5. /\ Batch(p, s)' = SubSeq(wire[p][s], 1, n)
      /\ \A v \in Server : v # p => Batch(v, s)' = <<>>
  BY <1>1 DEF Batch, TypeOK, Work
<1>6. /\ wire'[p][s] = SubSeq(wire[p][s], n + 1, Len(wire[p][s]))
      /\ \A v, r \in Server : v # p \/ r # s => wire'[v][r] = wire[v][r]
  BY <1>1 DEF TypeOK
<1>7. ASSUME NEW v \in Server, NEW r \in Server
      PROVE  /\ OneCopy(v, r)'
             /\ \A t \in Nat : YesOnWay(v, r, t)' => YesOnWay(v, r, t)
             /\ \A t \in Nat : ApplyOnWay(v, r, t)' => ApplyOnWay(v, r, t)
  <2>0. OneCopy(v, r)
    BY <1>7 DEF VotesOnce
  <2>1. CASE r # s \/ v # p
    <3>1. Batch(v, r)' = Batch(v, r) /\ wire'[v][r] = wire[v][r] /\ reply'[v][r] = reply[v][r]
      BY <1>0, <1>3, <1>4, <1>5, <1>6, <1>7, <2>1
    <3> QED
      BY <2>0, <3>1 DEF OneCopy, YesOnWay, ApplyOnWay
  <2>2. CASE r = s /\ v = p
    <3> DEFINE q == wire[p][s]
               a == SubSeq(q, 1, n)
               b == SubSeq(q, n + 1, Len(q))
    <3>1. Single(q) /\ Apart(q, reply[p][s])
      BY <2>0, <2>2 DEF OneCopy
    <3>2. Single(a) /\ Single(b) /\ Apart(a, b)
      BY <1>0, <1>1, <1>2, <3>1, CutSingle
    <3>3. \A t \in Nat : /\ HasYes(a, t) \/ HasYes(b, t) => HasYes(q, t)
                         /\ HasApply(a, t) \/ HasApply(b, t) => HasApply(q, t)
      BY <1>0, <1>1, <1>2, CutHas
    <3>4. Batch(v, r)' = a /\ wire'[v][r] = b /\ reply'[v][r] = reply[p][s]
      BY <1>0, <1>5, <1>6, <2>2
    <3>5. Single(reply[p][s])
      BY <2>0, <2>2 DEF OneCopy
    <3> HIDE DEF q, a, b
    <3>6. OneCopy(v, r)'
      BY <3>1, <3>2, <3>3, <3>4, <3>5 DEF OneCopy, Apart
    <3>7. \A t \in Nat : /\ YesOnWay(v, r, t)' => YesOnWay(v, r, t)
                         /\ ApplyOnWay(v, r, t)' => ApplyOnWay(v, r, t)
      BY <2>2, <3>3, <3>4 DEF YesOnWay, ApplyOnWay, q
    <3> QED
      BY <3>6, <3>7
  <2> QED
    BY <2>1, <2>2
<1> QED
  BY <1>7 DEF VotesOnce, FewerVotes, FewerApplies

\* An answer that is written moves to the wire, or is lost at a closed end.
LEMMA WriteMoves ==
  ASSUME TypeOK, VotesOnce, NEW s \in Server, NEW p \in Server, ClientWrite(s, p)
  PROVE  VotesOnce' /\ FewerVotes /\ FewerApplies
<1> DEFINE q == wire[s][p]
           a == reply[s][p]
           m == Head(reply[s][p])
<1>0. /\ q \in Seq(Message) /\ a \in Seq(Message) /\ a # <<>> /\ m \in Message
      /\ handler' = handler
  BY TailTyped DEF TypeOK, ClientWrite
<1>1. wire'[s][p] = q \/ wire'[s][p] = Append(q, m)
  BY DEF ClientWrite, Sent
<1>2. \A v, r \in Server : v # s \/ r # p => wire'[v][r] = wire[v][r]
  BY DEF ClientWrite, Sent, TypeOK
<1>3. reply'[s][p] = <<>> /\ \A v, r \in Server : v # s \/ r # p => reply'[v][r] = reply[v][r]
  BY DEF ClientWrite, TypeOK
<1>4. \A v, r \in Server : Batch(v, r)' = Batch(v, r)
  BY <1>0 DEF Batch
<1>5. ASSUME NEW v \in Server, NEW r \in Server
      PROVE  /\ OneCopy(v, r)'
             /\ \A t \in Nat : YesOnWay(v, r, t)' => YesOnWay(v, r, t)
             /\ \A t \in Nat : ApplyOnWay(v, r, t)' => ApplyOnWay(v, r, t)
  <2>0. OneCopy(v, r)
    BY <1>5 DEF VotesOnce
  <2>1. CASE v # s \/ r # p
    <3>1. Batch(v, r)' = Batch(v, r) /\ wire'[v][r] = wire[v][r] /\ reply'[v][r] = reply[v][r]
      BY <1>2, <1>3, <1>4, <1>5, <2>1
    <3> QED
      BY <2>0, <3>1 DEF OneCopy, YesOnWay, ApplyOnWay
  <2>2. CASE v = s /\ r = p
    <3>1. /\ Single(q) /\ Single(Batch(s, p)) /\ Apart(q, a) /\ Apart(Batch(s, p), q)
          /\ Apart(Batch(s, p), a)
      BY <2>0, <2>2 DEF OneCopy
    <3>2. \A t \in Nat : /\ IsYes(m, t) => HasYes(a, t)
                         /\ IsApply(m, t) => HasApply(a, t)
      BY <1>0, TailHas
    <3>3. Single(Append(q, m))
      BY <1>0, <3>1, <3>2, AppendSingle DEF Apart
    <3>4. \A t \in Nat : /\ HasYes(Append(q, m), t) => HasYes(q, t) \/ HasYes(a, t)
                         /\ HasApply(Append(q, m), t) => HasApply(q, t) \/ HasApply(a, t)
      BY <1>0, <3>2, AppendHas
    <3>5. PICK w : /\ w = wire'[s][p] /\ Single(w)
                   /\ \A t \in Nat : /\ HasYes(w, t) => HasYes(q, t) \/ HasYes(a, t)
                                     /\ HasApply(w, t) => HasApply(q, t) \/ HasApply(a, t)
      BY <1>1, <3>1, <3>3, <3>4
    <3>6. Batch(v, r)' = Batch(s, p) /\ wire'[v][r] = w /\ reply'[v][r] = <<>>
      BY <1>3, <1>4, <2>2, <3>5
    <3>7. Single(<<>>) /\ \A t \in Nat : ~HasYes(<<>>, t) /\ ~HasApply(<<>>, t)
      BY EmptyHas, EmptySingle
    <3> HIDE DEF q, a, m
    <3>8. OneCopy(v, r)'
      BY <3>1, <3>5, <3>6, <3>7 DEF OneCopy, Apart
    <3>9. \A t \in Nat : /\ YesOnWay(v, r, t)' => YesOnWay(v, r, t)
                         /\ ApplyOnWay(v, r, t)' => ApplyOnWay(v, r, t)
      BY <2>2, <3>5, <3>6, <3>7 DEF YesOnWay, ApplyOnWay, q, a
    <3> QED
      BY <3>8, <3>9
  <2> QED
    BY <2>1, <2>2
<1> QED
  BY <1>5 DEF VotesOnce, FewerVotes, FewerApplies

\* The steps after which nothing is on its way that was not before.
LEMMA NothingNew ==
  ASSUME TypeOK, VotesOnce, NEW s \in Server, NEW p \in Server,
         \/ ReadPackets(s, p) \/ ReadEnd(s, p) \/ ClientWrite(s, p)
         \/ Test(s) \/ AdoptTerm(s) \/ VoteResponse(s) \/ BeMyFollower(s)
         \/ CronFollower(s) \/ Crash(s)
  PROVE  VotesOnce' /\ FewerVotes /\ FewerApplies
<1>1. CASE ReadEnd(s, p)
  BY <1>1, CloseThins, ThinnedOnce DEF ReadEnd
<1>2. CASE Test(s) \/ AdoptTerm(s)
  <2>1. \A v, r \in Server : Batch(v, r)' = Batch(v, r)
    <3>1. /\ \A r \in Server \ {s} : handler'[r] = handler[r]
          /\ handler'[s].todo = handler[s].todo /\ handler'[s].client = handler[s].client
      BY <1>2, TestSees, AdoptAssigns
    <3> QED
      BY <3>1 DEF Batch
  <2>2. wire' = wire /\ reply' = reply
    BY <1>2 DEF Test, AdoptTerm, netVars
  <2>3. Thinned
    BY <2>1, <2>2, ThinSame DEF Thinned
  <2>4. FewerApplies
    BY <2>1, <2>2 DEF FewerApplies, ApplyOnWay
  <2> QED
    BY <2>3, <2>4, ThinnedOnce
<1>3. CASE VoteResponse(s)
  BY <1>3, NoAnswer, ThinnedOnce DEF VoteResponse, Handles
<1>4. CASE BeMyFollower(s)
  BY <1>4, NoAnswer, ThinnedOnce DEF BeMyFollower, Handles
<1>5. CASE CronFollower(s)
  <2>1. CASE \E l \in Server : CloseClient(s, l)
    BY <1>5, <2>1, CloseThins, ThinnedOnce DEF CronFollower
  <2>2. CASE UNCHANGED <<reply, wire>>
    <3>1. \A v, r \in Server : Batch(v, r)' = Batch(v, r)
      BY <1>5 DEF CronFollower, Batch
    <3>2. Thinned
      BY <2>2, <3>1, ThinSame DEF Thinned
    <3>3. FewerApplies
      BY <2>2, <3>1 DEF FewerApplies, ApplyOnWay
    <3> QED
      BY <3>2, <3>3, ThinnedOnce
  <2> QED
    BY <1>5, <2>1, <2>2 DEF CronFollower
<1>6. CASE Crash(s)
  <2>1. ASSUME NEW v \in Server, NEW r \in Server
        PROVE  wire'[v][r] = <<>> \/ wire'[v][r] = Sent(s, Connected(s), FIN)[v][r]
    BY <1>6 DEF Crash
  <2>2. ASSUME NEW v \in Server, NEW r \in Server
        PROVE  reply'[v][r] = <<>> \/ reply'[v][r] = reply[v][r]
    BY <1>6 DEF Crash, TypeOK
  <2>3. ASSUME NEW v \in Server, NEW r \in Server
        PROVE  Batch(v, r)' = <<>> \/ Batch(v, r)' = Batch(v, r)
    <3>1. Idle(s).todo = <<>>
      BY DEF Idle, Work
    <3> QED
      BY <1>6, <3>1 DEF Crash, TypeOK, Batch
  <2>4. Thinned
    BY <2>1, <2>2, <2>3, SentThins, ThinSame, ThinEmpty DEF Thinned
  <2>5. FewerApplies
    <3> SUFFICES ASSUME NEW v \in Server, NEW r \in Server, NEW t \in Nat, ApplyOnWay(v, r, t)'
                 PROVE  ApplyOnWay(v, r, t)
      BY DEF FewerApplies
    <3> QED
      BY <2>1, <2>2, <2>3, SentThins, EmptyHas DEF ApplyOnWay
  <2> QED
    BY <2>4, <2>5, ThinnedOnce
<1> QED
  BY <1>1, <1>2, <1>3, <1>4, <1>5, <1>6, ReadMoves, WriteMoves

---------------------------------------------------------------------------
(* Who voted and whose vote has arrived.                                   *)

LEMMA ArrivedFinite ==
  \A s, t : IsFiniteSet(Arrived(s, t)) /\ Cardinality(Arrived(s, t)) \in Nat
<1> SUFFICES ASSUME NEW s, NEW t
             PROVE  IsFiniteSet(Arrived(s, t)) /\ Cardinality(Arrived(s, t)) \in Nat
  OBVIOUS
<1>1. Arrived(s, t) \in SUBSET Server
  BY DEF Arrived
<1> QED
  BY <1>1, ElectionConstants, FS_Subset, FS_CardinalityType

LEMMA SubsetCounts ==
  ASSUME NEW S \in SUBSET Server, NEW T \in SUBSET Server, S \subseteq T
  PROVE  /\ Cardinality(S) \in Nat /\ Cardinality(T) \in Nat
         /\ Cardinality(S) <= Cardinality(T)
         /\ \A v \in T \ S : Cardinality(S) + 1 <= Cardinality(T)
<1>1. IsFiniteSet(T) /\ IsFiniteSet(S)
  BY ElectionConstants, FS_Subset
<1>2. S \in SUBSET T /\ Cardinality(S) <= Cardinality(T) /\ Cardinality(S) \in Nat /\ Cardinality(T) \in Nat
  BY <1>1, FS_Subset, FS_CardinalityType
<1>3. ASSUME NEW v \in T \ S PROVE Cardinality(S) + 1 <= Cardinality(T)
  <2>1. Cardinality(S) # Cardinality(T)
    BY <1>1, <1>2, <1>3, FS_Subset
  <2> QED
    BY <1>2, <2>1
<1> QED
  BY <1>2, <1>3

\* While no decision is forgotten and no vote sent again, votes only arrive.
LEMMA ArrivedGrows ==
  ASSUME granted \subseteq granted', NEW s \in Server, NEW t \in Nat,
         \A v \in Server, u \in Nat :
           Decision(v, s, u) \in granted /\ YesOnWay(v, s, u)' => YesOnWay(v, s, u)
  PROVE  /\ Cardinality(Arrived(s, t)) <= Cardinality(Arrived(s, t)')
         /\ Cardinality(Arrived(s, t)) \in Nat /\ Cardinality(Arrived(s, t)') \in Nat
         /\ \A v \in Arrived(s, t)' : v \notin Arrived(s, t) =>
              Cardinality(Arrived(s, t)) + 1 <= Cardinality(Arrived(s, t)')
<1>1. PICK old : old = Arrived(s, t)
  OBVIOUS
<1>2. PICK new : new = Arrived(s, t)'
  OBVIOUS
<1>3. old \in SUBSET Server /\ new \in SUBSET Server
  BY <1>1, <1>2 DEF Arrived
<1>4. old \subseteq new
  <2> SUFFICES ASSUME NEW v \in old PROVE v \in new
    OBVIOUS
  <2>1. v \in Server /\ \E u \in Nat : u >= t /\ Came(v, s, u)
    BY <1>1 DEF Arrived
  <2>2. PICK u \in Nat : u >= t /\ Came(v, s, u)
    BY <2>1
  <2>3. Came(v, s, u)'
    BY <2>1, <2>2 DEF Came, Decision
  <2> QED
    BY <1>2, <2>1, <2>2, <2>3 DEF Arrived
<1>5. /\ Cardinality(old) \in Nat /\ Cardinality(new) \in Nat
      /\ Cardinality(old) <= Cardinality(new)
      /\ \A v \in new \ old : Cardinality(old) + 1 <= Cardinality(new)
  BY <1>3, <1>4, SubsetCounts
<1> QED
  BY <1>1, <1>2, <1>5

---------------------------------------------------------------------------
(* The tickets of a campaign that is not torn: each is one's own vote or   *)
(* one that was given and has arrived.                                     *)

VotesInv ==
  /\ VotesOnce /\ VotesGiven /\ AppliesBacked /\ GrantsBacked /\ Separated
  /\ PendingCounts /\ LastsExist

TicketsInv == VoteInv /\ VotesInv /\ TicketsArrived

LEMMA TicketsInit == Init => TicketsInv
<1> SUFFICES ASSUME Init PROVE VotesInv /\ TicketsArrived
  BY VoteInit DEF TicketsInv
<1>1. /\ \A v, s \in Server : wire[v][s] = <<>> /\ reply[v][s] = <<>>
      /\ \A s \in Server : handler[s].todo = <<>>
      /\ granted = {} /\ campaigned = {}
  BY DEF Init, Mesh, Idle, Work
<1>2. \A v, s \in Server : Batch(v, s) = <<>>
  BY <1>1 DEF Batch
<1>3. \A v, s \in Server, t \in Nat : ~YesOnWay(v, s, t) /\ ~ApplyOnWay(v, s, t)
  BY <1>1, <1>2, EmptyHas DEF YesOnWay, ApplyOnWay
<1>4. VotesOnce
  BY <1>1, <1>2, EmptyHas, EmptySingle DEF VotesOnce, OneCopy, Apart
<1>5. VotesGiven /\ AppliesBacked /\ GrantsBacked /\ Separated
  BY <1>1, <1>3 DEF VotesGiven, AppliesBacked, GrantsBacked, Separated
<1>6. PendingCounts /\ LastsExist /\ TicketsArrived
  BY <1>1 DEF PendingCounts, Counting, Running, LastsExist, HasCampaigned, TicketsArrived,
       IsWhole, IsLast
<1> QED
  BY <1>4, <1>5, <1>6 DEF VotesInv

\* What a step keeps that adds nothing to what is on its way.
LEMMA NothingNewKeeps ==
  ASSUME VotesInv, VotesOnce', FewerVotes, FewerApplies, UNCHANGED <<granted, campaigned, torn>>
  PROVE  /\ VotesGiven' /\ AppliesBacked' /\ GrantsBacked' /\ Separated' /\ LastsExist'
         /\ \A s \in Server, t \in Nat : IsWhole(s, t)' => IsWhole(s, t)
<1>1. VotesGiven'
  BY DEF VotesInv, VotesGiven, FewerVotes, Decision
<1>2. AppliesBacked'
  BY DEF VotesInv, AppliesBacked, FewerApplies
<1>3. GrantsBacked' /\ Separated' /\ LastsExist'
  BY DEF VotesInv, GrantsBacked, Separated, LastsExist, HasCampaigned, IsLast
<1>4. \A s \in Server, t \in Nat : IsWhole(s, t)' => IsWhole(s, t)
  BY DEF IsWhole, IsLast
<1> QED
  BY <1>1, <1>2, <1>3, <1>4

LEMMA TicketsStay ==
  ASSUME TypeOK, TicketsArrived, granted \subseteq granted',
         NEW s \in Server, NEW t \in Nat, IsWhole(s, t), tickets'[s] = tickets[s],
         \A v \in Server, u \in Nat :
           Decision(v, s, u) \in granted /\ YesOnWay(v, s, u)' => YesOnWay(v, s, u)
  PROVE  tickets'[s] <= 1 + Cardinality(Arrived(s, t)')
<1>1. tickets[s] <= 1 + Cardinality(Arrived(s, t)) /\ tickets[s] \in Nat
  BY DEF TicketsArrived, TypeOK
<1>2. PICK a \in Nat, b \in Nat :
        a = Cardinality(Arrived(s, t)) /\ b = Cardinality(Arrived(s, t)') /\ a <= b
  BY ArrivedGrows
<1> QED
  BY <1>1, <1>2

\* Only a test starts to count, and only a campaign comes in between.
LEMMA CountingSteps ==
  ASSUME TypeOK, [Next]_vars, NEW p \in Server, Counting(p)'
  PROVE  \/ Test(p)
         \/ CronCandidate(p) /\ handler'[p] = handler[p]
         \/ /\ torn \subseteq torn' /\ handler'[p] = handler[p]
            /\ term'[p] = term[p] /\ tickets'[p] = tickets[p]
<1> DEFINE Same == /\ torn \subseteq torn' /\ handler'[p] = handler[p]
                   /\ term'[p] = term[p] /\ tickets'[p] = tickets[p]
<1>0. /\ term \in [Server -> Nat] /\ tickets \in [Server -> Nat] /\ handler'[p].at = "count"
  BY DEF TypeOK, Counting
<1>1. ASSUME UNCHANGED vars PROVE Same
  BY <1>1 DEF vars, voteVars, history
<1>2. ASSUME NEW s \in Server, NEW q \in Server,
             ReadPackets(s, q) \/ ReadEnd(s, q) \/ ClientWrite(s, q)
      PROVE  Same
  <2>1. Quiet
    BY <1>2, QuietSteps
  <2>2. tickets' = tickets
    BY <1>2 DEF ReadPackets, ReadEnd, ClientWrite, voteVars
  <2> QED
    BY <1>0, <2>1, <2>2 DEF Quiet
<1>3. ASSUME NEW s \in Server, VoteResponse(s) PROVE Same
  <2>1. Quiet /\ handler'[s].at = "test"
    BY <1>3, QuietSteps, FinishUntested DEF VoteResponse
  <2>2. \A q \in Server : q # s => tickets'[q] = tickets[q]
    BY <1>0, <1>3 DEF VoteResponse
  <2> QED
    BY <1>0, <2>1, <2>2 DEF Quiet
<1>4. ASSUME NEW s \in Server, BeMyFollower(s) \/ CronFollower(s) \/ Crash(s) PROVE Same
  <2>1. Quiet
    BY <1>4, QuietSteps
  <2>2. tickets' = tickets
    BY <1>4 DEF BeMyFollower, CronFollower, Crash, voteVars
  <2> QED
    BY <1>0, <2>1, <2>2 DEF Quiet
<1>5. ASSUME NEW s \in Server, Test(s) PROVE Test(p) \/ Same
  BY <1>0, <1>5, TestSees
<1>6. ASSUME NEW s \in Server, AdoptTerm(s) PROVE Same
  BY <1>0, <1>6, AdoptAssigns
<1>7. ASSUME NEW s \in Server, ApplyResponse(s) PROVE Same
  BY <1>0, <1>7, ApplyDecides
<1>8. ASSUME NEW s \in Server, CronCandidate(s)
      PROVE  (CronCandidate(p) /\ handler'[p] = handler[p]) \/ Same
  BY <1>0, <1>8, CampaignCounts
<1> HIDE DEF Same
<1>9. Test(p) \/ (CronCandidate(p) /\ handler'[p] = handler[p]) \/ Same
  BY <1>1, <1>2, <1>3, <1>4, <1>5, <1>6, <1>7, <1>8 DEF Next
<1> QED
  BY <1>9 DEF Same

\* A vote that is about to be counted is one of the current term, unless a
\* campaign that is torn came in between.
LEMMA CountsNext ==
  ASSUME TypeOK, PendingCounts, [Next]_vars
  PROVE  PendingCounts'
<1> SUFFICES ASSUME NEW p \in Server, Counting(p)'
             PROVE  /\ tickets'[p] \in {handler'[p].seen, 1}
                    /\ CountsNow(p)' \/ TermTorn(p)'
  BY DEF PendingCounts
<1>1. CASE Test(p)
  <2>1. /\ UNCHANGED <<term, tickets>> /\ handler'[p].seen = tickets[p]
        /\ handler'[p].todo = handler[p].todo /\ Counts(p, Head(handler[p].todo))
        /\ Head(handler[p].todo).type = "VOTE"
    BY <1>1, TestSees DEF Counting
  <2> QED
    BY <2>1 DEF CountsNow, Counts, IsYes
<1>2. CASE /\ torn \subseteq torn' /\ handler'[p] = handler[p]
           /\ term'[p] = term[p] /\ tickets'[p] = tickets[p]
  <2>1. tickets[p] \in {handler[p].seen, 1} /\ (CountsNow(p) \/ TermTorn(p))
    BY <1>2 DEF PendingCounts, Counting, Running
  <2>2. CountsNow(p) => CountsNow(p)'
    BY <1>2 DEF CountsNow, IsYes
  <2>3. TermTorn(p) => TermTorn(p)'
    BY <1>2 DEF TermTorn
  <2> QED
    BY <1>2, <2>1, <2>2, <2>3
<1>3. CASE CronCandidate(p) /\ handler'[p] = handler[p]
  <2>1. Midway(p) /\ term \in [Server -> Nat] /\ tickets \in [Server -> Nat]
    BY <1>3 DEF Counting, Midway, TypeOK
  <2>2. CASE UNCHANGED <<term, tickets, campaigned, torn>>
    BY <1>2, <1>3, <2>2
  <2>3. CASE /\ term' = [term EXCEPT ![p] = term[p] + 1]
             /\ tickets' = [tickets EXCEPT ![p] = 1]
             /\ torn' = torn \cup {<<p, term[p] + 1>>}
    BY <2>1, <2>3 DEF TermTorn
  <2> QED
    BY <1>3, <2>1, <2>2, <2>3, CampaignCounts
<1> QED
  BY <1>1, <1>2, <1>3, CountingSteps

\* In the campaign that is not torn, what is counted is a YES of the term the
\* server is in, which is that of the campaign or a later one.
LEMMA WholeCounts ==
  ASSUME TypeOK, CampaignsReached, PendingCounts,
         NEW s \in Server, NEW t \in Nat, IsWhole(s, t)
  PROVE  t <= term[s] /\ (Counting(s) => CountsNow(s))
<1>1. <<s, t>> \in campaigned /\ <<s, t>>[1] = s /\ <<s, t>>[2] = t /\ <<s, t>> \notin torn
  BY DEF IsWhole, IsLast
<1>2. t <= term[s] /\ term[s] \in Nat
  BY <1>1 DEF CampaignsReached, TypeOK
<1>3. ~TermTorn(s)
  <2> SUFFICES ASSUME TermTorn(s) PROVE FALSE
    OBVIOUS
  <2>1. <<s, term[s]>> \in campaigned /\ <<s, term[s]>>[1] = s /\ <<s, term[s]>>[2] = term[s]
    BY DEF TermTorn, TypeOK
  <2>2. term[s] <= t
    BY <2>1 DEF IsWhole, IsLast
  <2>3. term[s] = t
    BY <1>2, <2>2
  <2> QED
    BY <1>1, <2>3 DEF TermTorn
<1> QED
  BY <1>2, <1>3 DEF PendingCounts

\* One YES of a voter counts in a campaign: for the next the candidate would
\* have campaigned again.
LEMMA OneCounts ==
  ASSUME Separated, NEW s \in Server, NEW t \in Nat, IsLast(s, t), NEW v \in Server,
         NEW u \in Nat, NEW w \in Nat, u >= t, w >= t,
         Decision(v, s, u) \in granted, Decision(v, s, w) \in granted
  PROVE  u = w
<1>1. \A x, y \in Nat : /\ x >= t /\ x < y
                        /\ Decision(v, s, x) \in granted /\ Decision(v, s, y) \in granted
                        => FALSE
  <2> SUFFICES ASSUME NEW x \in Nat, NEW y \in Nat, x >= t, x < y,
                      Decision(v, s, x) \in granted, Decision(v, s, y) \in granted
               PROVE  FALSE
    OBVIOUS
  <2>1. PICK a \in Nat : <<s, a>> \in campaigned /\ x < a
    BY DEF Separated, Decision
  <2>2. a <= t
    BY <2>1 DEF IsLast
  <2> QED
    BY <2>1, <2>2
<1> QED
  BY <1>1

\* A vote that counts arrives, and no other server's tickets change.
LEMMA VoteArrives ==
  ASSUME TicketsInv, NEW s \in Server, VoteResponse(s), VotesOnce', FewerVotes
  PROVE  TicketsArrived'
<1>0. /\ TypeOK /\ VotesOnce /\ VotesGiven /\ PendingCounts /\ CampaignsReached /\ Separated
      /\ UNCHANGED <<granted, campaigned, torn, wire>>
      /\ handler[s].client \in Server /\ handler[s].todo \in Seq(Message) /\ handler[s].todo # <<>>
      /\ FinishPacket(s, <<>>) /\ Running(s)
  BY DEF TicketsInv, VotesInv, VoteInv, VoteResponse, Handles, Running, history,
       TypeOK, Handler
<1> SUFFICES ASSUME NEW p \in Server, NEW t \in Nat, IsWhole(p, t)
             PROVE  tickets'[p] <= 1 + Cardinality(Arrived(p, t)')
  BY <1>0 DEF TicketsArrived, IsWhole, IsLast
<1>1. PICK a \in Nat, b \in Nat :
        /\ a = Cardinality(Arrived(p, t)) /\ b = Cardinality(Arrived(p, t)') /\ a <= b
        /\ \A v \in Arrived(p, t)' : v \notin Arrived(p, t) => a + 1 <= b
  <2>1. \A v \in Server, u \in Nat : YesOnWay(v, p, u)' => YesOnWay(v, p, u)
    BY DEF FewerVotes
  <2> QED
    BY <1>0, <2>1, ArrivedGrows
<1>2. tickets[p] <= 1 + a /\ tickets[p] \in Nat
  BY <1>0, <1>1 DEF TicketsInv, TicketsArrived, TypeOK
<1>3. CASE tickets'[p] = tickets[p]
  BY <1>1, <1>2, <1>3
<1>4. CASE tickets'[p] # tickets[p]
  <2>0. PICK v \in Server, q \in Seq(Message), u \in Nat :
          v = handler[s].client /\ q = handler[s].todo /\ q # <<>> /\ u = term[s]
    BY <1>0 DEF TypeOK
  <2>1. p = s /\ handler[s].at = "count"
    BY <1>0, <1>4 DEF VoteResponse, TypeOK
  <2>2. t <= u /\ CountsNow(s)
    BY <1>0, <2>0, <2>1, WholeCounts DEF Counting
  <2>3. IsYes(Head(q), u) /\ tickets'[s] = tickets[s] + 1
    <3>1. \E n \in {handler[s].seen, tickets[s]} : tickets' = [tickets EXCEPT ![s] = n + 1]
      BY <2>1 DEF VoteResponse
    <3> QED
      BY <1>0, <2>0, <2>2, <3>1 DEF CountsNow, TypeOK
  <2>4. Batch(v, s) = q /\ HasYes(q, u) /\ ~HasYes(Tail(q), u)
    <3>1. Single(q)
      BY <1>0, <2>0 DEF VotesOnce, OneCopy, Batch
    <3> QED
      BY <2>0, <2>3, <3>1, TailHas DEF Batch
  <2>5. YesOnWay(v, s, u) /\ Decision(v, s, u) \in granted
    BY <1>0, <2>0, <2>4 DEF YesOnWay, VotesGiven
  <2>6. ~HasYes(Batch(v, s)', u)
    <3>1. <<>> \in Seq(Message)
      OBVIOUS
    <3>2. handler'[s] = Idle(s) \/ handler'[s] = Work(v, Tail(q))
      BY <1>0, <2>0 DEF FinishPacket, TypeOK
    <3>3. Batch(v, s)' = <<>> \/ Batch(v, s)' = Tail(q)
      BY <3>2 DEF Batch, Idle, Work
    <3> QED
      BY <2>4, <3>3, EmptyHas
  <2>7. ~HasYes(wire'[v][s], u) /\ ~HasYes(reply'[v][s], u)
    <3>1. Apart(Batch(v, s), wire[v][s]) /\ Apart(Batch(v, s), reply[v][s])
      BY <1>0, <2>0 DEF VotesOnce, OneCopy
    <3>2. ~HasYes(wire[v][s], u) /\ ~HasYes(reply[v][s], u)
      BY <2>0, <2>4, <3>1 DEF Apart
    <3>3. reply'[v][s] = <<>> \/ reply'[v][s] = reply[v][s]
      BY <1>0 DEF FinishPacket, TypeOK
    <3> QED
      BY <1>0, <3>2, <3>3, EmptyHas
  <2>8. v \in Arrived(p, t)'
    <3>1. ~YesOnWay(v, s, u)'
      BY <2>6, <2>7 DEF YesOnWay
    <3>2. Came(v, s, u)'
      BY <1>0, <2>5, <3>1 DEF Came, Decision
    <3> QED
      BY <2>0, <2>1, <2>2, <3>2 DEF Arrived
  <2>9. v \notin Arrived(p, t)
    <3> SUFFICES ASSUME NEW w \in Nat, w >= t, Came(v, s, w) PROVE FALSE
      BY <2>1 DEF Arrived
    <3>1. w # u /\ Decision(v, s, w) \in granted
      BY <2>5 DEF Came
    <3> QED
      BY <1>0, <2>0, <2>1, <2>2, <2>5, <3>1, OneCounts DEF IsWhole
  <2>10. a + 1 <= b
    BY <1>1, <2>8, <2>9
  <2> QED
    BY <1>1, <1>2, <2>1, <2>3, <2>10
<1> QED
  BY <1>3, <1>4

LEMMA OneVoteTyped == \A t \in Nat, y \in BOOLEAN : <<Vote(t, y)>> \in Seq(Message)
<1> SUFFICES ASSUME NEW t \in Nat, NEW y \in BOOLEAN PROVE <<Vote(t, y)>> \in Seq(Message)
  OBVIOUS
<1>1. Vote(t, y) \in Message
  BY MessagesTyped
<1> QED
  BY <1>1

LEMMA OneVoteHas ==
  ASSUME NEW t \in Nat, NEW y \in BOOLEAN
  PROVE  /\ Single(<<Vote(t, y)>>)
         /\ \A u \in Nat : HasYes(<<Vote(t, y)>>, u) => y /\ u = t
         /\ \A u : ~HasApply(<<Vote(t, y)>>, u)
<1> DEFINE m == Vote(t, y)
<1>1. m.type = "VOTE" /\ m.yes = y /\ m.term = t
  BY DEF Vote
<1> HIDE DEF m
<1>2. \A k \in DOMAIN <<m>> : k = 1 /\ <<m>>[k] = m
  OBVIOUS
<1>3. Single(<<m>>)
  BY <1>2 DEF Single
<1>4. \A u \in Nat : HasYes(<<m>>, u) => y /\ u = t
  BY <1>1, <1>2 DEF HasYes, IsYes
<1>5. \A u : ~HasApply(<<m>>, u)
  BY <1>1, <1>2 DEF HasApply, IsApply
<1> QED
  BY <1>3, <1>4, <1>5 DEF m

\* An APPLY that is answered NO.
LEMMA NoGiven ==
  ASSUME TicketsInv, NEW s \in Server, ApplyResponse(s), handler[s].at = "no", PendingCounts'
  PROVE  VotesInv' /\ TicketsArrived'
<1>0. /\ TypeOK /\ VotesOnce /\ VotesInv
      /\ UNCHANGED <<granted, campaigned, torn, tickets, wire>> /\ Running(s)
  BY DEF TicketsInv, VotesInv, VoteInv, ApplyResponse, Handles, voteVars
<1>1. PICK answer \in Seq(Message) :
        /\ FinishPacket(s, answer)
        /\ \A q : Thins(answer, q)
        /\ \A t : ~HasApply(answer, t)
  <2>1. PICK t \in Nat : t = term[s]
    BY <1>0 DEF TypeOK
  <2>2. (handler[s].at = "yes") = FALSE
    OBVIOUS
  <2>3. FinishPacket(s, <<Vote(t, FALSE)>>)
    BY <2>1, <2>2 DEF ApplyResponse
  <2>4. <<Vote(t, FALSE)>> \in Seq(Message)
    BY OneVoteTyped
  <2>5. /\ Single(<<Vote(t, FALSE)>>)
        /\ \A u \in Nat : ~HasYes(<<Vote(t, FALSE)>>, u)
        /\ \A u : ~HasApply(<<Vote(t, FALSE)>>, u)
    BY OneVoteHas
  <2>6. \A q : Thins(<<Vote(t, FALSE)>>, q)
    BY <2>5 DEF Thins
  <2> QED
    BY <2>3, <2>4, <2>5, <2>6
<1>2. Thinned /\ FewerApplies
  BY <1>0, <1>1, SilentEnd
<1>3. VotesOnce' /\ FewerVotes
  BY <1>0, <1>2, ThinnedOnce
<1>4. VotesInv' /\ \A p \in Server, t \in Nat : IsWhole(p, t)' => IsWhole(p, t)
  BY <1>0, <1>2, <1>3, NothingNewKeeps DEF VotesInv
<1>5. ASSUME NEW p \in Server, NEW t \in Nat, IsWhole(p, t)'
      PROVE  tickets'[p] <= 1 + Cardinality(Arrived(p, t)')
  <2>1. \A v \in Server, u \in Nat : YesOnWay(v, p, u)' => YesOnWay(v, p, u)
    BY <1>3 DEF FewerVotes
  <2> QED
    BY <1>0, <1>4, <1>5, <2>1, TicketsStay DEF TicketsInv
<1> QED
  BY <1>4, <1>5 DEF TicketsArrived

\* An APPLY that is answered YES: the vote is new on its way, in a term above
\* all the voter said YES to before, and no earlier than what was asked for.
LEMMA YesGiven ==
  ASSUME TicketsInv, NEW s \in Server, ApplyResponse(s), handler[s].at = "yes", PendingCounts'
  PROVE  VotesInv' /\ TicketsArrived'
<1>0. /\ TypeOK /\ VotesOnce /\ VotesGiven /\ AppliesBacked /\ GrantsBacked /\ Separated
      /\ GrantsReached /\ PendingSound /\ LastsExist /\ TicketsArrived
      /\ UNCHANGED <<campaigned, torn, tickets, wire>> /\ Running(s)
      /\ handler[s].client \in Server /\ handler[s].todo \in Seq(Message) /\ handler[s].todo # <<>>
  BY DEF TicketsInv, VotesInv, VoteInv, ApplyResponse, Handles, Running, TypeOK, Handler, voteVars
<1>1. PICK c \in Server, t \in Nat, asked \in Nat :
        c = handler[s].client /\ t = term[s] /\ asked = Asked(s)
  <2>1. Asked(s) \in Nat /\ term[s] \in Nat
    BY <1>0, AskedTyped DEF TypeOK
  <2> QED
    BY <1>0, <2>1
<1>2. /\ \A g \in granted : g.voter = s => g.term < asked
      /\ t = asked \/ (t > asked /\ <<s, t>> \in torn)
  <2>1. YesPending(s)
    BY <1>0 DEF YesPending
  <2> QED
    BY <1>0, <1>1, <2>1 DEF PendingSound, AboveGrants, TermTorn
<1>3. granted' = granted \cup {Decision(s, c, t)}
  BY <1>0, <1>1 DEF ApplyResponse, Decision
<1>4. PICK answer \in Seq(Message) :
        /\ FinishPacket(s, answer) /\ Single(answer)
        /\ \A u \in Nat : HasYes(answer, u) => u = t
        /\ \A u : ~HasApply(answer, u)
  <2>1. (handler[s].at = "yes") = TRUE
    OBVIOUS
  <2>2. FinishPacket(s, <<Vote(t, TRUE)>>)
    BY <1>1, <2>1 DEF ApplyResponse
  <2>3. <<Vote(t, TRUE)>> \in Seq(Message)
    BY OneVoteTyped
  <2> QED
    BY <2>2, <2>3, OneVoteHas
<1>5. \A v, r \in Server :
        \/ reply'[v][r] = reply[v][r]
        \/ v = s /\ r = c /\ reply'[v][r] = answer
  BY <1>0, <1>1, <1>4, FinishArms
<1>6. \A v, r \in Server :
        /\ Thins(Batch(v, r)', Batch(v, r))
        /\ \A u \in Nat : HasApply(Batch(v, r)', u) => HasApply(Batch(v, r), u)
  BY <1>0, <1>4, FinishThins
<1>7. \A r \in Server : ~YesOnWay(s, r, t)
  <2> SUFFICES ASSUME NEW r \in Server, YesOnWay(s, r, t) PROVE FALSE
    OBVIOUS
  <2>1. Decision(s, r, t) \in granted
    BY <1>0 DEF VotesGiven
  <2>2. Decision(s, r, t).voter = s /\ Decision(s, r, t).term = t
    BY DEF Decision
  <2> QED
    BY <1>2, <2>1, <2>2
<1>8. ASSUME NEW v \in Server, NEW r \in Server, NEW u \in Nat, YesOnWay(v, r, u)'
      PROVE  YesOnWay(v, r, u) \/ (v = s /\ r = c /\ u = t)
  <2>1. HasYes(Batch(v, r)', u) => HasYes(Batch(v, r), u)
    BY <1>6 DEF Thins
  <2>2. HasYes(reply'[v][r], u) => HasYes(reply[v][r], u) \/ (v = s /\ r = c /\ u = t)
    BY <1>4, <1>5
  <2> QED
    BY <1>0, <1>8, <2>1, <2>2 DEF YesOnWay
<1>9. ASSUME NEW v \in Server, NEW r \in Server
      PROVE  OneCopy(v, r)'
  <2>1. OneCopy(v, r) /\ wire'[v][r] = wire[v][r] /\ Thins(Batch(v, r)', Batch(v, r))
    BY <1>0, <1>6 DEF VotesOnce
  <2>2. CASE reply'[v][r] = reply[v][r]
    BY <2>1, <2>2 DEF OneCopy, Thins, Apart
  <2>3. CASE v = s /\ r = c /\ reply'[v][r] = answer
    <3>1. ~HasYes(Batch(v, r)', t) /\ ~HasYes(wire'[v][r], t)
      BY <1>7, <2>1, <2>3 DEF YesOnWay, Thins
    <3> QED
      BY <1>4, <2>1, <2>3, <3>1 DEF OneCopy, Thins, Apart
  <2> QED
    BY <1>5, <2>2, <2>3
<1>10. VotesGiven'
  <2> SUFFICES ASSUME NEW v \in Server, NEW r \in Server, NEW u \in Nat, YesOnWay(v, r, u)'
               PROVE  Decision(v, r, u) \in granted'
    BY DEF VotesGiven, Decision
  <2>1. CASE YesOnWay(v, r, u)
    BY <1>0, <1>3, <2>1 DEF VotesGiven
  <2>2. CASE v = s /\ r = c /\ u = t
    BY <1>3, <2>2
  <2> QED
    BY <1>8, <2>1, <2>2
<1>11. AppliesBacked'
  <2> SUFFICES ASSUME NEW v \in Server, NEW r \in Server, NEW u \in Nat, ApplyOnWay(v, r, u)'
               PROVE  <<v, u>> \in campaigned
    BY <1>0 DEF AppliesBacked
  <2>1. ApplyOnWay(v, r, u)
    BY <1>0, <1>4, <1>5, <1>6 DEF ApplyOnWay
  <2> QED
    BY <1>0, <2>1 DEF AppliesBacked
<1>12. <<c, asked>> \in campaigned
  <2>1. Head(handler[s].todo).type = "APPLY"
    BY DEF ApplyResponse, Handles
  <2>2. IsApply(Head(handler[s].todo), asked)
    BY <1>1, <2>1 DEF IsApply, Asked
  <2>3. HasApply(Batch(c, s), asked)
    BY <1>0, <1>1, <2>2, TailHas DEF Batch
  <2> QED
    BY <1>0, <2>3 DEF AppliesBacked, ApplyOnWay
<1>13. PICK d : /\ d = Decision(s, c, t) /\ d.voter = s /\ d.candidate = c /\ d.term = t
                /\ granted' = granted \cup {d}
  BY <1>3 DEF Decision
<1>14. GrantsBacked'
  BY <1>0, <1>2, <1>12, <1>13 DEF GrantsBacked
<1>15. Separated'
  <2>1. \A g \in granted : g.voter \in Server /\ g.term \in Nat
    BY <1>0 DEF TypeOK
  <2>2. ASSUME NEW g \in granted, g.voter = s
        PROVE  <<c, asked>> \in campaigned /\ g.term < asked /\ asked <= t /\ ~ (t < g.term)
    BY <1>2, <1>12, <2>1, <2>2
  <2>3. ASSUME NEW g \in granted', NEW h \in granted', g.voter = h.voter, g.term < h.term
        PROVE  \E a \in Nat : <<h.candidate, a>> \in campaigned /\ g.term < a /\ a <= h.term
    <3>1. CASE g \in granted /\ h \in granted
      BY <1>0, <2>3, <3>1 DEF Separated
    <3>2. CASE g \in granted /\ h = d
      BY <1>13, <2>2, <2>3, <3>2
    <3>3. CASE g = d /\ h \in granted
      BY <1>13, <2>2, <2>3, <3>3
    <3>4. CASE g = d /\ h = d
      BY <1>13, <2>3, <3>4
    <3> QED
      BY <1>13, <3>1, <3>2, <3>3, <3>4
  <2> QED
    BY <1>0, <2>3 DEF Separated
<1>16. LastsExist' /\ \A p \in Server, u \in Nat : IsWhole(p, u)' => IsWhole(p, u)
  BY <1>0 DEF LastsExist, HasCampaigned, IsWhole, IsLast
<1>17. TicketsArrived'
  <2> SUFFICES ASSUME NEW p \in Server, NEW u \in Nat, IsWhole(p, u)
               PROVE  tickets'[p] <= 1 + Cardinality(Arrived(p, u)')
    BY <1>16 DEF TicketsArrived
  <2>1. ASSUME NEW v \in Server, NEW w \in Nat, Decision(v, p, w) \in granted, YesOnWay(v, p, w)'
        PROVE  YesOnWay(v, p, w)
    <3>1. Decision(v, p, w).voter = v /\ Decision(v, p, w).term = w
      BY DEF Decision
    <3> QED
      BY <1>2, <1>8, <2>1, <3>1
  <2>2. granted \subseteq granted'
    BY <1>3
  <2> QED
    BY <1>0, <2>1, <2>2, TicketsStay
<1> QED
  BY <1>9, <1>10, <1>11, <1>14, <1>15, <1>16, <1>17 DEF VotesInv, VotesOnce

\* What a campaign writes: an APPLY of its term when it starts, beMy when it
\* is won, and no vote.
LEMMA CampaignWrites ==
  ASSUME TypeOK, NEW s \in Server, CronCandidate(s), NEW v \in Server, NEW r \in Server
  PROVE  /\ Thins(wire'[v][r], wire[v][r])
         /\ \A x \in Nat : HasApply(wire'[v][r], x) =>
              \/ HasApply(wire[v][r], x)
              \/ v = s /\ flag_election[s] = -1 /\ x = term[s] + 1
<1> DEFINE starts == flag_election[s] = -1
           tt == IF starts THEN term[s] + 1 ELSE term[s]
           followers == {p \in Server : clientType[s][p] = "follower"}
<1>0. PICK q \in Seq(Message), t \in Nat : q = wire[v][r] /\ t = tt
  <2>1. wire[v][r] \in Seq(Message) /\ term[s] \in Nat
    BY DEF TypeOK
  <2>2. tt \in Nat
    BY <2>1
  <2> QED
    BY <2>1, <2>2
<1>1. PICK apply \in Seq(Message) :
        /\ apply = IF starts THEN <<Apply(t)>> ELSE <<>>
        /\ \A k \in DOMAIN apply : starts /\ apply[k] = Apply(t)
  <2>1. Apply(t) \in Message
    BY MessagesTyped
  <2> DEFINE m == Apply(t)
  <2> HIDE DEF m
  <2>2. <<m>> \in Seq(Message) /\ \A k \in DOMAIN <<m>> : <<m>>[k] = m
    BY <2>1 DEF m
  <2> DEFINE mid == IF starts THEN <<m>> ELSE <<>>
  <2>3. mid \in Seq(Message)
    BY <2>2
  <2>4. \A k \in DOMAIN mid : starts /\ mid[k] = m
    BY <2>2
  <2>5. mid = IF starts THEN <<Apply(t)>> ELSE <<>>
    BY DEF m
  <2> HIDE DEF mid
  <2> QED
    BY <2>3, <2>4, <2>5 DEF m
<1>2. PICK flag \in {-1, 0, 1} :
        wire' = [wire EXCEPT ![s] = [p \in Server |->
             IF p \notin Connected(s) \/ clientType[p][s] = "closed"
             THEN wire[s][p]
             ELSE wire[s][p] \o (IF starts THEN <<Apply(tt)>> ELSE <<>>)
                  \o (IF flag = 1 /\ p \in followers THEN <<BeMy>> ELSE <<>>)]]
  BY DEF CronCandidate
<1>3. PICK won \in Seq(Message) :
        /\ won = IF flag = 1 /\ r \in followers THEN <<BeMy>> ELSE <<>>
        /\ \A k \in DOMAIN won : won[k] = BeMy
  <2> DEFINE m == BeMy
  <2>1. m \in Message
    BY MessagesTyped
  <2> HIDE DEF m
  <2>2. <<m>> \in Seq(Message) /\ \A k \in DOMAIN <<m>> : <<m>>[k] = m
    BY <2>1
  <2> DEFINE end == IF flag = 1 /\ r \in followers THEN <<m>> ELSE <<>>
  <2>3. end \in Seq(Message)
    BY <2>2
  <2>4. \A k \in DOMAIN end : end[k] = m
    BY <2>2
  <2>5. end = IF flag = 1 /\ r \in followers THEN <<BeMy>> ELSE <<>>
    BY DEF m
  <2> HIDE DEF end
  <2> QED
    BY <2>3, <2>4, <2>5 DEF m
<1>4. wire'[v][r] = q \/ (v = s /\ wire'[v][r] = q \o apply \o won)
  <2>1. CASE v # s
    BY <1>0, <1>2, <2>1 DEF TypeOK
  <2>2. CASE v = s
    <3> DEFINE mid == IF starts THEN <<Apply(tt)>> ELSE <<>>
               end == IF flag = 1 /\ r \in followers THEN <<BeMy>> ELSE <<>>
    <3>1. mid = apply /\ end = won
      BY <1>0, <1>1, <1>3
    <3>2. wire'[s][r] = wire[s][r] \/ wire'[s][r] = wire[s][r] \o mid \o end
      BY <1>2 DEF TypeOK
    <3> HIDE DEF mid, end
    <3> QED
      BY <1>0, <2>2, <3>1, <3>2
  <2> QED
    BY <2>1, <2>2
<1>5. /\ \A k \in DOMAIN apply : apply[k].type # "VOTE"
      /\ \A k \in DOMAIN won : won[k].type \notin {"VOTE", "APPLY"}
  BY <1>1, <1>3 DEF Apply, BeMy
<1>6. \A x \in Nat :
        /\ HasYes(q \o apply \o won, x) => HasYes(q, x)
        /\ HasApply(q \o apply \o won, x) => HasApply(q, x) \/ HasApply(apply, x)
        /\ Single(q) => Single(q \o apply \o won)
  BY <1>5, JoinHas
<1>7. \A x \in Nat : HasApply(apply, x) => starts /\ x = term[s] + 1
  <2>1. Apply(t).term = t
    BY DEF Apply
  <2> QED
    BY <1>0, <1>1, <2>1 DEF HasApply, IsApply
<1>8. Thins(wire'[v][r], wire[v][r])
  <2>1. 0 \in Nat
    OBVIOUS
  <2> QED
    BY <1>0, <1>4, <1>6, <2>1, ThinSame DEF Thins
<1>9. \A x \in Nat : HasApply(wire'[v][r], x) =>
        \/ HasApply(wire[v][r], x)
        \/ v = s /\ flag_election[s] = -1 /\ x = term[s] + 1
  <2> HIDE DEF starts
  <2>1. \A x \in Nat : HasApply(wire'[v][r], x) =>
          \/ HasApply(wire[v][r], x)
          \/ v = s /\ starts /\ x = term[s] + 1
    BY <1>0, <1>4, <1>6, <1>7
  <2> QED
    BY <2>1 DEF starts
<1> QED
  BY <1>8, <1>9

\* A new campaign starts from one's own vote; a campaign that is waited for
\* keeps its tickets and its term.
LEMMA CampaignKeeps ==
  ASSUME TicketsInv, NEW s \in Server, CronCandidate(s), PendingCounts'
  PROVE  VotesInv' /\ TicketsArrived'
<1>0. /\ TypeOK /\ VotesOnce /\ VotesGiven /\ AppliesBacked /\ GrantsBacked /\ Separated
      /\ LastsExist /\ TicketsArrived
      /\ \A c \in campaigned : c[1] \in Server /\ c[2] \in Nat
      /\ UNCHANGED <<handler, granted, reply>>
      /\ \A p \in Server : term[p] \in Nat
  BY CampaignCounts DEF TicketsInv, VotesInv, VoteInv, TypeOK
<1>1. \A v, r \in Server : Batch(v, r)' = Batch(v, r)
  BY <1>0 DEF Batch
<1>2. Thinned
  BY <1>0, <1>1, CampaignWrites, ThinSame DEF Thinned
<1>3. VotesOnce' /\ FewerVotes
  BY <1>0, <1>2, ThinnedOnce
<1>4. VotesGiven' /\ Separated'
  <2>1. campaigned \subseteq campaigned'
    BY <1>0, CampaignCounts
  <2>2. VotesGiven'
    BY <1>0, <1>3 DEF FewerVotes, VotesGiven, Decision
  <2>3. Separated'
    BY <1>0, <2>1 DEF Separated
  <2> QED
    BY <2>2, <2>3
<1>5. campaigned \subseteq campaigned' /\ torn \subseteq torn'
  BY <1>0, CampaignCounts
<1>6. AppliesBacked'
  <2> SUFFICES ASSUME NEW v \in Server, NEW r \in Server, NEW u \in Nat, ApplyOnWay(v, r, u)'
               PROVE  <<v, u>> \in campaigned'
    BY DEF AppliesBacked
  <2>1. CASE ApplyOnWay(v, r, u)
    BY <1>0, <1>5, <2>1 DEF AppliesBacked
  <2>2. CASE ~ApplyOnWay(v, r, u)
    <3>1. HasApply(wire'[v][r], u) /\ ~HasApply(wire[v][r], u)
      BY <1>0, <1>1, <2>2 DEF ApplyOnWay
    <3>2. v = s /\ flag_election[s] = -1 /\ u = term[s] + 1
      BY <1>0, <3>1, CampaignWrites
    <3> QED
      BY <1>0, <3>2, CampaignCounts
  <2> QED
    BY <2>1, <2>2
<1>7. GrantsBacked'
  BY <1>0, <1>5 DEF GrantsBacked
<1>8. ASSUME NEW p \in Server, NEW t \in Nat, IsWhole(p, t), tickets'[p] = tickets[p]
      PROVE  tickets'[p] <= 1 + Cardinality(Arrived(p, t)')
  <2>1. \A v \in Server, u \in Nat : YesOnWay(v, p, u)' => YesOnWay(v, p, u)
    BY <1>3 DEF FewerVotes
  <2> QED
    BY <1>0, <1>8, <2>1, TicketsStay
<1>9. CASE UNCHANGED <<tickets, campaigned, torn>>
  <2>1. LastsExist' /\ \A p \in Server, t \in Nat : IsWhole(p, t)' => IsWhole(p, t)
    BY <1>0, <1>9 DEF LastsExist, HasCampaigned, IsWhole, IsLast
  <2>2. TicketsArrived'
    BY <1>8, <1>9, <2>1 DEF TicketsArrived
  <2> QED
    BY <1>3, <1>4, <1>6, <1>7, <2>1, <2>2 DEF VotesInv
<1>10. CASE /\ tickets' = [tickets EXCEPT ![s] = 1]
            /\ campaigned' = campaigned \cup {<<s, term[s] + 1>>}
  <2>0. PICK n \in Nat : n = term[s] + 1 /\ campaigned' = campaigned \cup {<<s, n>>}
    BY <1>0, <1>10
  <2>1. <<s, n>>[1] = s /\ <<s, n>>[2] = n
    OBVIOUS
  <2>2. \A p \in Server, t \in Nat : p # s => (IsLast(p, t)' <=> IsLast(p, t))
    <3> SUFFICES ASSUME NEW p \in Server, NEW t \in Nat, p # s
                 PROVE  IsLast(p, t)' <=> IsLast(p, t)
      OBVIOUS
    <3>1. <<p, t>> # <<s, n>>
      OBVIOUS
    <3>2. IsLast(p, t)' => IsLast(p, t)
      BY <2>0, <3>1 DEF IsLast
    <3>3. IsLast(p, t) => IsLast(p, t)'
      BY <2>0, <2>1 DEF IsLast
    <3> QED
      BY <3>2, <3>3
  <2>3. \E t \in Nat : IsLast(s, t)'
    <3>1. CASE \A c \in campaigned : c[1] = s => c[2] <= n
      <4>1. IsLast(s, n)'
        BY <2>0, <2>1, <3>1 DEF IsLast
      <4> QED
        BY <4>1
    <3>2. CASE ~ \A c \in campaigned : c[1] = s => c[2] <= n
      <4>1. PICK t \in Nat : IsLast(s, t)
        BY <1>0, <3>2 DEF LastsExist, HasCampaigned
      <4>2. n <= t
        BY <1>0, <3>2, <4>1 DEF IsLast
      <4>3. IsLast(s, t)'
        BY <2>0, <2>1, <4>1, <4>2 DEF IsLast
      <4> QED
        BY <4>3
    <3> QED
      BY <3>1, <3>2
  <2>4. LastsExist'
    <3> SUFFICES ASSUME NEW p \in Server, HasCampaigned(p)'
                 PROVE  \E t \in Nat : IsLast(p, t)'
      BY DEF LastsExist
    <3>1. CASE p = s
      BY <2>3, <3>1
    <3>2. CASE p # s
      <4>1. HasCampaigned(p)
        BY <2>0, <2>1, <3>2 DEF HasCampaigned
      <4> QED
        BY <1>0, <2>2, <3>2, <4>1 DEF LastsExist
    <3> QED
      BY <3>1, <3>2
  <2>5. ASSUME NEW p \in Server, NEW t \in Nat, IsWhole(p, t)'
        PROVE  tickets'[p] <= 1 + Cardinality(Arrived(p, t)')
    <3>1. CASE p = s
      <4>1. PICK b \in Nat : b = Cardinality(Arrived(p, t)')
        <5>1. PICK new : new = Arrived(p, t)'
          OBVIOUS
        <5>2. new \in SUBSET Server
          BY <5>1 DEF Arrived
        <5>3. Cardinality(new) \in Nat
          BY <5>2, SubsetCounts
        <5> QED
          BY <5>1, <5>3
      <4>2. tickets'[p] = 1
        BY <1>0, <1>10, <3>1 DEF TypeOK
      <4> QED
        BY <4>1, <4>2
    <3>2. CASE p # s
      <4>1. IsWhole(p, t) /\ tickets'[p] = tickets[p]
        BY <1>0, <1>5, <1>10, <2>2, <2>5, <3>2 DEF TypeOK, IsWhole
      <4> QED
        BY <1>8, <4>1
    <3> QED
      BY <3>1, <3>2
  <2> QED
    BY <1>3, <1>4, <1>6, <1>7, <2>4, <2>5 DEF VotesInv, TicketsArrived
<1> QED
  BY <1>0, <1>9, <1>10, CampaignCounts

\* The steps that neither answer nor campaign.
LEMMA OthersKeep ==
  ASSUME TicketsInv, NEW s \in Server, NEW p \in Server, PendingCounts',
         \/ ReadPackets(s, p) \/ ReadEnd(s, p) \/ ClientWrite(s, p)
         \/ Test(s) \/ AdoptTerm(s) \/ VoteResponse(s) \/ BeMyFollower(s)
         \/ CronFollower(s) \/ Crash(s)
  PROVE  VotesInv' /\ TicketsArrived'
<1>0. TypeOK /\ VotesOnce /\ VotesInv
  BY DEF TicketsInv, VotesInv, VoteInv
<1>1. VotesOnce' /\ FewerVotes /\ FewerApplies
  BY <1>0, NothingNew
<1>2. UNCHANGED <<granted, campaigned, torn>>
  <2>1. CASE Test(s) \/ AdoptTerm(s)
    BY <1>0, <2>1, TestSees, AdoptAssigns
  <2>2. CASE ~(Test(s) \/ AdoptTerm(s))
    <3>1. Quiet
      BY <1>0, <2>2, QuietSteps
    <3> QED
      BY <3>1 DEF Quiet
  <2> QED
    BY <2>1, <2>2
<1>3. /\ VotesInv'
      /\ \A q \in Server, t \in Nat : IsWhole(q, t)' => IsWhole(q, t)
  BY <1>0, <1>1, <1>2, NothingNewKeeps DEF VotesInv
<1>4. TicketsArrived'
  <2>1. CASE VoteResponse(s)
    BY <1>1, <2>1, VoteArrives
  <2>2. CASE ~VoteResponse(s)
    <3>1. tickets' = tickets
      BY <2>2 DEF ReadPackets, ReadEnd, ClientWrite, Test, AdoptTerm, BeMyFollower, CronFollower,
           Crash, voteVars
    <3>2. ASSUME NEW q \in Server, NEW t \in Nat, IsWhole(q, t)'
          PROVE  tickets'[q] <= 1 + Cardinality(Arrived(q, t)')
      <4>1. \A v \in Server, u \in Nat : YesOnWay(v, q, u)' => YesOnWay(v, q, u)
        BY <1>1 DEF FewerVotes
      <4> QED
        BY <1>0, <1>2, <1>3, <3>1, <3>2, <4>1, TicketsStay DEF TicketsInv
    <3> QED
      BY <3>2 DEF TicketsArrived
  <2> QED
    BY <2>1, <2>2
<1> QED
  BY <1>3, <1>4

LEMMA TicketsNext == TicketsInv /\ [Next]_vars => TicketsInv'
<1> SUFFICES ASSUME TicketsInv, [Next]_vars
             PROVE  VotesInv' /\ TicketsArrived'
  BY VoteNext DEF TicketsInv
<1>0. PendingCounts' /\ TypeOK
  BY CountsNext DEF TicketsInv, VotesInv, VoteInv
<1>1. CASE UNCHANGED vars
  <2>1. /\ \A v, r \in Server : Batch(v, r)' = Batch(v, r)
        /\ UNCHANGED <<wire, reply, term, tickets, handler, granted, campaigned, torn>>
    BY <1>1 DEF Batch, vars, netVars, voteVars, history
  <2>2. \A v, r \in Server, t \in Nat :
          /\ OneCopy(v, r)' <=> OneCopy(v, r)
          /\ YesOnWay(v, r, t)' <=> YesOnWay(v, r, t)
          /\ ApplyOnWay(v, r, t)' <=> ApplyOnWay(v, r, t)
    BY <2>1 DEF OneCopy, YesOnWay, ApplyOnWay
  <2>3. VotesOnce' /\ FewerVotes /\ FewerApplies
    BY <2>2 DEF VotesOnce, FewerVotes, FewerApplies, TicketsInv, VotesInv
  <2>4. VotesInv' /\ \A q \in Server, t \in Nat : IsWhole(q, t)' => IsWhole(q, t)
    BY <1>0, <2>1, <2>3, NothingNewKeeps DEF VotesInv, TicketsInv
  <2>5. ASSUME NEW q \in Server, NEW t \in Nat, IsWhole(q, t)'
        PROVE  tickets'[q] <= 1 + Cardinality(Arrived(q, t)')
    <3>1. \A v \in Server, u \in Nat : YesOnWay(v, q, u)' => YesOnWay(v, q, u)
      BY <2>2
    <3> QED
      BY <1>0, <2>1, <2>4, <2>5, <3>1, TicketsStay DEF TicketsInv
  <2> QED
    BY <2>4, <2>5 DEF TicketsArrived
<1>2. CASE Next
  <2>1. ASSUME NEW s \in Server, ApplyResponse(s)
        PROVE  VotesInv' /\ TicketsArrived'
    <3>1. handler[s].at \in {"yes", "no"}
      BY <2>1 DEF ApplyResponse, Handles
    <3> QED
      BY <1>0, <2>1, <3>1, NoGiven, YesGiven
  <2> QED
    BY <1>0, <1>2, <2>1, OthersKeep, CampaignKeeps DEF Next
<1> QED
  BY <1>1, <1>2

\* The last campaign is the one LastCampaign picks.
LEMMA LastIsLast ==
  ASSUME TypeOK, NEW s \in Server, NEW t \in Nat, IsLast(s, t)
  PROVE  LastCampaign(s) = t
<1> DEFINE ts == {c[2] : c \in {d \in campaigned : d[1] = s}}
<1>1. t \in ts
  <2>1. <<s, t>> \in campaigned /\ <<s, t>>[1] = s /\ <<s, t>>[2] = t
    BY DEF IsLast
  <2> QED
    BY <2>1
<1>2. \A u \in ts : u \in Nat /\ u <= t
  BY DEF IsLast, TypeOK
<1>3. \A x \in ts : (\A u \in ts : u <= x) => x = t
  BY <1>1, <1>2
<1> HIDE DEF ts
<1>4. (CHOOSE x \in ts : \A u \in ts : u <= x) = t
  BY <1>1, <1>2, <1>3
<1> QED
  BY <1>4 DEF LastCampaign, ts

LEMMA TicketsAreBacked == TicketsInv => TicketsBacked
<1> SUFFICES ASSUME TicketsInv, NEW s \in Server, WholeCampaign(s)
             PROVE  tickets[s] <= 1 + Cardinality(Backers(s))
  BY DEF TicketsBacked
<1>0. TypeOK
  BY DEF TicketsInv, VoteInv
<1>1. PICK t \in Nat : IsLast(s, t)
  BY DEF TicketsInv, VotesInv, LastsExist, WholeCampaign
<1>2. LastCampaign(s) = t /\ IsWhole(s, t)
  BY <1>0, <1>1, LastIsLast DEF IsWhole, WholeCampaign
<1>3. Arrived(s, t) \subseteq Backers(s)
  <2> SUFFICES ASSUME NEW v \in Arrived(s, t) PROVE v \in Backers(s)
    OBVIOUS
  <2>1. PICK u \in Nat : u >= t /\ Decision(v, s, u) \in granted
    BY DEF Arrived, Came
  <2>2. v \in Server /\ Decision(v, s, u).voter = v /\ Decision(v, s, u).candidate = s
        /\ Decision(v, s, u).term = u
    BY DEF Arrived, Decision
  <2> QED
    BY <1>2, <2>1, <2>2 DEF Backers
<1>4. PICK a \in Nat, b \in Nat :
        a = Cardinality(Arrived(s, t)) /\ b = Cardinality(Backers(s)) /\ a <= b
  <2>1. Arrived(s, t) \in SUBSET Server /\ Backers(s) \in SUBSET Server
    BY DEF Arrived, Backers
  <2> QED
    BY <1>3, <2>1, SubsetCounts
<1>5. tickets[s] <= 1 + a /\ tickets[s] \in Nat
  BY <1>0, <1>2, <1>4 DEF TicketsInv, TicketsArrived, TypeOK
<1> QED
  BY <1>4, <1>5

\* The tickets of a server never exceed its own vote and the servers that said
\* YES to its last campaign, unless that campaign started in the middle of a
\* handler: no VOTE is counted twice, late, or in another campaign than it was
\* given in.
THEOREM TicketsExact == Spec => []TicketsBacked
BY TicketsInit, TicketsNext, TicketsAreBacked, PTL DEF Spec

---------------------------------------------------------------------------
(* Two leaders of one term.  A leader that won a campaign had more tickets *)
(* than half of numsServer, which only shrinks afterwards; tickets are     *)
(* votes of distinct servers, and two campaigns of one term share none.    *)

\* A server that won a campaign still has more tickets than half of numsServer.
MajorityHeld ==
  \A s \in Server :
    serverType[s] = "leader" /\ HasCampaigned(s) => tickets[s] > numsServer[s] \div 2

LEMMA HalvesOrder ==
  ASSUME NEW m \in Int, NEW n \in Int, m <= n
  PROVE  m \div 2 <= n \div 2 /\ m \div 2 \in Int
OBVIOUS

\* A step makes a leader of a candidate that wins, and leaves a leader its
\* tickets, its campaigns and not more servers than it had.
LEMMA LeadersStay ==
  ASSUME TypeOK, PendingCounts, [Next]_vars, NEW s \in Server, serverType'[s] = "leader"
  PROVE  \/ tickets'[s] > numsServer'[s] \div 2
         \/ /\ serverType[s] = "leader"
            /\ tickets'[s] >= tickets[s]
            /\ numsServer'[s] <= numsServer[s]
            /\ HasCampaigned(s)' => HasCampaigned(s)
<1> DEFINE Stays == /\ serverType[s] = "leader"
                    /\ tickets'[s] >= tickets[s]
                    /\ numsServer'[s] <= numsServer[s]
                    /\ HasCampaigned(s)' => HasCampaigned(s)
<1>1. tickets[s] \in Nat /\ numsServer[s] \in Int
  BY DEF TypeOK
<1>2. ASSUME UNCHANGED <<serverType, numsServer, tickets, campaigned>> PROVE Stays
  BY <1>1, <1>2 DEF HasCampaigned
<1>3. ASSUME UNCHANGED vars PROVE Stays
  BY <1>2, <1>3 DEF vars, roleVars, voteVars, netVars, history
<1>4. ASSUME NEW u \in Server, NEW p \in Server, ReadPackets(u, p) \/ ClientWrite(u, p) PROVE Stays
  BY <1>2, <1>4 DEF ReadPackets, ClientWrite, roleVars, voteVars, netVars, history
<1>5. ASSUME NEW u \in Server, NEW p \in Server, ReadEnd(u, p) PROVE Stays
  <2>1. UNCHANGED <<serverType, tickets, campaigned>>
    BY <1>5 DEF ReadEnd, voteVars, history
  <2>2. numsServer' = [numsServer EXCEPT ![u] = numsServer[u] - 1]
    BY <1>5 DEF ReadEnd, CloseClient, OneLess
  <2>3. numsServer'[s] = numsServer[s] \/ numsServer'[s] = numsServer[s] - 1
    BY <2>2 DEF TypeOK
  <2> QED BY <1>1, <2>1, <2>3 DEF HasCampaigned
<1>6. ASSUME NEW u \in Server, Test(u) \/ AdoptTerm(u) \/ ApplyResponse(u) PROVE Stays
  BY <1>2, <1>6 DEF Test, AdoptTerm, ApplyResponse, roleVars, voteVars, netVars, history
<1>7. ASSUME NEW u \in Server, VoteResponse(u) PROVE Stays
  <2>1. UNCHANGED <<serverType, numsServer, campaigned>>
    BY <1>7 DEF VoteResponse, roleVars, history
  <2>2. \/ tickets' = tickets
        \/ /\ handler[u].at = "count" /\ Running(u)
           /\ \E n \in {handler[u].seen, tickets[u]} : tickets' = [tickets EXCEPT ![u] = n + 1]
    BY <1>7 DEF VoteResponse, Handles
  <2>3. tickets'[s] >= tickets[s]
    <3>1. CASE tickets' = tickets
      BY <1>1, <3>1
    <3>2. CASE /\ handler[u].at = "count" /\ Running(u)
               /\ \E n \in {handler[u].seen, tickets[u]} : tickets' = [tickets EXCEPT ![u] = n + 1]
      <4>1. PICK n \in Nat : /\ tickets' = [tickets EXCEPT ![u] = n + 1]
                             /\ n = handler[u].seen \/ n = tickets[u]
        BY <3>2 DEF TypeOK, Handler
      <4>2. tickets[u] = handler[u].seen \/ tickets[u] = 1
        BY <3>2 DEF PendingCounts, Counting
      <4>3. tickets \in [Server -> Nat]
        BY DEF TypeOK
      <4> QED
        BY <1>1, <4>1, <4>2, <4>3
    <3> QED
      BY <2>2, <3>1, <3>2
  <2> QED BY <1>1, <2>1, <2>3 DEF HasCampaigned
<1>8. ASSUME NEW u \in Server, BeMyFollower(u) PROVE Stays
  <2>1. UNCHANGED <<numsServer, tickets, campaigned>>
    BY <1>8 DEF BeMyFollower, voteVars, history
  <2>2. serverType[s] = "leader"
    BY <1>8 DEF BeMyFollower, TypeOK
  <2> QED BY <1>1, <2>1, <2>2 DEF HasCampaigned
<1>9. ASSUME NEW u \in Server, CronFollower(u) PROVE Stays
  <2>1. UNCHANGED <<tickets, campaigned>>
    BY <1>9 DEF CronFollower, voteVars, history
  <2>2. s # u /\ serverType[s] = "leader"
    BY <1>9 DEF CronFollower, TypeOK
  <2>3. numsServer'[s] = numsServer[s]
    BY <1>9, <2>2 DEF CronFollower, CloseClient, TypeOK
  <2> QED BY <1>1, <2>1, <2>2, <2>3 DEF HasCampaigned
<1>10. ASSUME NEW u \in Server, CronCandidate(u)
       PROVE  tickets'[s] > numsServer'[s] \div 2 \/ Stays
  <2> DEFINE starts == flag_election[u] = -1
             n == IF starts THEN FreshTickets(u) ELSE tickets[u]
  <2>1. numsServer' = numsServer
    BY <1>10 DEF CronCandidate
  <2>2. /\ tickets' = [tickets EXCEPT ![u] = n]
        /\ \E flag \in {-1, 0, 1} :
             /\ flag = 1 => Wins(u, n)
             /\ serverType' = [serverType EXCEPT ![u] = IF flag = 1 THEN "leader" ELSE "candidate"]
        /\ \E t : campaigned' = campaigned \/ campaigned' = campaigned \cup {<<u, t>>}
    <3>1. PICK timedOut \in BOOLEAN :
            /\ tickets' = [tickets EXCEPT ![u] = n]
            /\ serverType' = [serverType EXCEPT ![u] =
                 IF (IF timedOut THEN -1 ELSE IF Wins(u, n) THEN 1 ELSE 0) = 1
                 THEN "leader" ELSE "candidate"]
      BY <1>10 DEF CronCandidate
    <3>2. \E t : campaigned' = campaigned \/ campaigned' = campaigned \cup {<<u, t>>}
      BY <1>10 DEF CronCandidate
    <3> DEFINE flag == IF timedOut THEN -1 ELSE IF Wins(u, n) THEN 1 ELSE 0
    <3>3. flag \in {-1, 0, 1} /\ (flag = 1 => Wins(u, n))
      OBVIOUS
    <3>4. serverType' = [serverType EXCEPT ![u] = IF flag = 1 THEN "leader" ELSE "candidate"]
      BY <3>1
    <3> HIDE DEF flag, n
    <3> QED BY <3>1, <3>2, <3>3, <3>4
  <2> HIDE DEF n
  <2>3. CASE s = u
    <3>1. Wins(u, n)
      BY <2>2, <2>3 DEF TypeOK
    <3> QED BY <2>1, <2>2, <2>3, <3>1 DEF Wins, TypeOK
  <2>4. CASE s # u
    <3>1. serverType'[s] = serverType[s] /\ tickets'[s] = tickets[s]
      BY <2>2, <2>4 DEF TypeOK
    <3>2. HasCampaigned(s)' => HasCampaigned(s)
      BY <2>2, <2>4 DEF HasCampaigned
    <3> QED BY <1>1, <2>1, <3>1, <3>2
  <2> QED BY <2>3, <2>4
<1>11. ASSUME NEW u \in Server, Crash(u) PROVE Stays
  <2>1. UNCHANGED <<numsServer, tickets, campaigned>>
    BY <1>11 DEF Crash, voteVars, history
  <2>2. serverType[s] = "leader"
    BY <1>11 DEF Crash, TypeOK
  <2> QED BY <1>1, <2>1, <2>2 DEF HasCampaigned
<1> HIDE DEF Stays
<1>12. tickets'[s] > numsServer'[s] \div 2 \/ Stays
  BY <1>3, <1>4, <1>5, <1>6, <1>7, <1>8, <1>9, <1>10, <1>11 DEF Next
<1> QED BY <1>12 DEF Stays

LEMMA MajorityNext ==
  ASSUME TypeOK, TypeOK', PendingCounts, MajorityHeld, [Next]_vars
  PROVE  MajorityHeld'
<1> SUFFICES ASSUME NEW s \in Server, serverType'[s] = "leader", HasCampaigned(s)'
             PROVE  tickets'[s] > numsServer'[s] \div 2
  BY DEF MajorityHeld
<1>1. CASE tickets'[s] > numsServer'[s] \div 2
  BY <1>1
<1>2. CASE /\ serverType[s] = "leader"
           /\ tickets'[s] >= tickets[s]
           /\ numsServer'[s] <= numsServer[s]
           /\ HasCampaigned(s)' => HasCampaigned(s)
  <2>1. tickets[s] > numsServer[s] \div 2
    BY <1>2 DEF MajorityHeld
  <2>2. numsServer'[s] \in Int /\ numsServer[s] \in Int /\ tickets[s] \in Nat /\ tickets'[s] \in Nat
    BY DEF TypeOK
  <2> DEFINE a == numsServer'[s]
             b == numsServer[s]
  <2>3. a \div 2 <= b \div 2 /\ a \div 2 \in Int /\ b \div 2 \in Int
    <3>1. a \in Int /\ b \in Int /\ a <= b
      BY <1>2, <2>2
    <3> HIDE DEF a, b
    <3> QED BY <3>1, HalvesOrder
  <2> QED BY <1>2, <2>1, <2>2, <2>3
<1> QED BY <1>1, <1>2, LeadersStay

\* The voters of a campaign: the candidate, and who said YES to it.
Voters(s, t) == {s} \cup Arrived(s, t)

\* Who started a whole campaign in a term voted for nobody else in it or above.
LEMMA CandidateKeepsOut ==
  ASSUME TicketsInv, NEW s \in Server, NEW p \in Server, NEW t \in Nat,
         IsWhole(s, t), IsLast(p, t)
  PROVE  s \notin Arrived(p, t)
<1> SUFFICES ASSUME NEW u \in Nat, u >= t, Decision(s, p, u) \in granted PROVE FALSE
  BY DEF Arrived, Came
<1>0. OneVoteUnlessTorn /\ GrantsBacked /\ torn \subseteq campaigned
  BY DEF TicketsInv, VoteInv, VotesInv, TypeOK
<1>1. PICK g \in granted : g.voter = s /\ g.candidate = p /\ g.term = u
  BY DEF Decision
<1>2. <<s, u>> \in campaigned => u = t
  BY DEF IsWhole, IsLast
<1>3. <<p, u>> \in campaigned => u = t
  BY DEF IsLast
<1>4. u = t
  BY <1>0, <1>1, <1>2, <1>3 DEF GrantsBacked
<1>5. <<s, t>> \in campaigned /\ <<s, t>> \notin torn
  BY DEF IsWhole, IsLast
<1> QED
  BY <1>0, <1>1, <1>4, <1>5 DEF OneVoteUnlessTorn

LEMMA VotersCount ==
  ASSUME TicketsInv, NEW s \in Server, NEW t \in Nat, IsWhole(s, t)
  PROVE  /\ IsFiniteSet(Voters(s, t)) /\ Voters(s, t) \subseteq Server
         /\ Cardinality(Voters(s, t)) \in Nat
         /\ tickets[s] <= Cardinality(Voters(s, t))
<1>1. TypeOK /\ tickets[s] \in Nat
  BY DEF TicketsInv, VoteInv, TypeOK
<1>2. Arrived(s, t) \subseteq Server /\ IsFiniteSet(Arrived(s, t)) /\ Cardinality(Arrived(s, t)) \in Nat
  BY ElectionConstants, FS_Subset, FS_CardinalityType DEF Arrived
<1>3. s \notin Arrived(s, t)
  BY CandidateKeepsOut DEF IsWhole
<1>4. Cardinality(Arrived(s, t) \cup {s}) = Cardinality(Arrived(s, t)) + 1
      /\ IsFiniteSet(Arrived(s, t) \cup {s})
  BY <1>2, <1>3, FS_AddElement
<1>5. Voters(s, t) = Arrived(s, t) \cup {s}
  BY DEF Voters
<1>6. tickets[s] <= 1 + Cardinality(Arrived(s, t))
  BY DEF TicketsInv, TicketsArrived
<1> QED BY <1>1, <1>2, <1>4, <1>5, <1>6

\* No server votes in two whole campaigns of one term.
LEMMA VotersApart ==
  ASSUME TicketsInv, NEW s \in Server, NEW p \in Server, s # p, NEW t \in Nat,
         IsWhole(s, t), IsWhole(p, t)
  PROVE  Voters(s, t) \cap Voters(p, t) = {}
<1>1. OneYesPerTerm /\ Separated /\ IsLast(s, t) /\ IsLast(p, t)
  BY DEF TicketsInv, VoteInv, VotesInv, IsWhole
<1>2. ASSUME NEW v \in Server, NEW a \in Server, NEW b \in Server, IsLast(b, t),
             NEW x \in Nat, NEW y \in Nat, x >= t, x < y,
             Decision(v, a, x) \in granted, Decision(v, b, y) \in granted
      PROVE  FALSE
  <2>1. PICK z \in Nat : <<b, z>> \in campaigned /\ x < z
    BY <1>1, <1>2 DEF Separated, Decision
  <2>2. z <= t
    BY <1>2, <2>1 DEF IsLast
  <2> QED BY <1>2, <2>1, <2>2
<1>3. ASSUME NEW v \in Arrived(s, t), v \in Arrived(p, t) PROVE FALSE
  <2>1. PICK x \in Nat : x >= t /\ Decision(v, s, x) \in granted
    BY <1>3 DEF Arrived, Came
  <2>2. PICK y \in Nat : y >= t /\ Decision(v, p, y) \in granted
    BY <1>3 DEF Arrived, Came
  <2>3. v \in Server
    BY <1>3 DEF Arrived
  <2>4. x # y
    <3>1. \A u \in Nat : ~(Decision(v, s, u) \in granted /\ Decision(v, p, u) \in granted)
      BY <1>1 DEF OneYesPerTerm, Decision
    <3> QED BY <2>1, <2>2, <3>1
  <2>5. CASE x < y
    BY <1>1, <1>2, <2>1, <2>2, <2>3, <2>5
  <2>6. CASE y < x
    BY <1>1, <1>2, <2>1, <2>2, <2>3, <2>6
  <2> QED BY <2>4, <2>5, <2>6
<1>4. s \notin Arrived(p, t) /\ p \notin Arrived(s, t)
  BY <1>1, CandidateKeepsOut
<1> QED BY <1>3, <1>4 DEF Voters

\* Two leaders, each in the term of its last campaign and neither campaign torn,
\* share no term as long as more than half of the one's numsServer and more than
\* half of the other's do not fit beside each other into the mesh.
LeadersShareNoTerm ==
  \A s, p \in Server :
    /\ s # p
    /\ serverType[s] = "leader" /\ WholeCampaign(s) /\ term[s] = LastCampaign(s)
    /\ serverType[p] = "leader" /\ WholeCampaign(p) /\ term[p] = LastCampaign(p)
    /\ (numsServer[s] \div 2) + (numsServer[p] \div 2) + 2 > Cardinality(Server)
    => term[s] # term[p]

LEMMA MajoritiesMeet == TicketsInv /\ MajorityHeld => LeadersShareNoTerm
<1> SUFFICES ASSUME TicketsInv, MajorityHeld, NEW s \in Server, NEW p \in Server, s # p,
                    serverType[s] = "leader", WholeCampaign(s), term[s] = LastCampaign(s),
                    serverType[p] = "leader", WholeCampaign(p), term[p] = LastCampaign(p),
                    term[s] = term[p]
             PROVE  (numsServer[s] \div 2) + (numsServer[p] \div 2) + 2 <= Cardinality(Server)
  <2>1. Cardinality(Server) \in Nat
    BY ElectionConstants, FS_CardinalityType
  <2>2. ASSUME TicketsInv PROVE \A s \in Server : numsServer[s] \div 2 \in Int
    BY <2>2, HalvesOrder DEF TicketsInv, VoteInv, TypeOK
  <2> QED BY <2>1, <2>2 DEF LeadersShareNoTerm
<1> DEFINE t == term[s]
           S == Voters(s, t)
           P == Voters(p, t)
<1>1. TypeOK /\ t \in Nat /\ HasCampaigned(s) /\ HasCampaigned(p)
  BY DEF TicketsInv, VoteInv, TypeOK, WholeCampaign
<1>2. IsWhole(s, t) /\ IsWhole(p, t)
  <2>1. PICK x \in Nat : IsLast(s, x)
    BY <1>1 DEF TicketsInv, VotesInv, LastsExist
  <2>2. PICK y \in Nat : IsLast(p, y)
    BY <1>1 DEF TicketsInv, VotesInv, LastsExist
  <2>3. LastCampaign(s) = x /\ LastCampaign(p) = y
    BY <1>1, <2>1, <2>2, LastIsLast
  <2> QED BY <2>1, <2>2, <2>3 DEF IsWhole, WholeCampaign
<1> HIDE DEF t
<1>3. /\ IsFiniteSet(S) /\ S \subseteq Server /\ Cardinality(S) \in Nat
      /\ tickets[s] <= Cardinality(S)
  BY <1>1, <1>2, VotersCount
<1>4. /\ IsFiniteSet(P) /\ P \subseteq Server /\ Cardinality(P) \in Nat
      /\ tickets[p] <= Cardinality(P)
  BY <1>1, <1>2, VotersCount
<1>5. S \cap P = {}
  BY <1>1, <1>2, VotersApart
<1>6. Cardinality(S) + Cardinality(P) <= Cardinality(Server) /\ Cardinality(Server) \in Nat
  <2> HIDE DEF S, P
  <2>1. Cardinality(S \cup P) = Cardinality(S) + Cardinality(P) - Cardinality(S \cap P)
    BY <1>3, <1>4, FS_Union
  <2>2. Cardinality(S \cap P) = 0
    BY <1>5, FS_EmptySet
  <2>3. Cardinality(S \cup P) <= Cardinality(Server)
    BY <1>3, <1>4, ElectionConstants, FS_Subset
  <2> QED BY <1>3, <1>4, <2>1, <2>2, <2>3, ElectionConstants, FS_CardinalityType
<1>7. /\ tickets[s] > numsServer[s] \div 2
      /\ tickets[p] > numsServer[p] \div 2
  BY <1>1 DEF MajorityHeld
<1>8. tickets[s] \in Nat /\ tickets[p] \in Nat
      /\ numsServer[s] \div 2 \in Int /\ numsServer[p] \div 2 \in Int
  BY <1>1, HalvesOrder DEF TypeOK
<1> QED BY <1>3, <1>4, <1>6, <1>7, <1>8

LEMMA MajorityInvariant == Spec => [](TicketsInv /\ MajorityHeld)
<1>1. Init => TicketsInv /\ MajorityHeld
  BY TicketsInit DEF Init, Mesh, MajorityHeld, HasCampaigned
<1>2. TicketsInv /\ MajorityHeld /\ [Next]_vars => (TicketsInv /\ MajorityHeld)'
  BY TicketsNext, MajorityNext, TypeNext DEF TicketsInv, VoteInv, VotesInv
<1> QED BY <1>1, <1>2, PTL DEF Spec

\* Two whole campaigns of one term are both won only if the candidates lost so
\* many connections that half of each numsServer no longer makes up the mesh:
\* in any mesh, whatever is lost, late or closed on the way.  election()
\* compares with the numsServer of the moment, not with the size of the mesh.
THEOREM MajoritiesIntersect == Spec => []LeadersShareNoTerm
BY MajorityInvariant, MajoritiesMeet, PTL

\* A live server has no connection to itself, and numsServer is one more than
\* the connections it has to others.
ConnectionsCounted ==
  \A s \in Server : Alive(s) =>
    s \notin Connected(s) /\ numsServer[s] = 1 + Cardinality(Connected(s))

\* A step leaves a live server its connections and their number, or closes one.
LEMMA ConnectionsStay ==
  ASSUME TypeOK, [Next]_vars, NEW s \in Server, Alive(s)'
  PROVE  /\ Alive(s)
         /\ \/ Connected(s)' = Connected(s) /\ numsServer'[s] = numsServer[s]
            \/ \E p \in Connected(s) :
                 Connected(s)' = Connected(s) \ {p} /\ numsServer'[s] = numsServer[s] - 1
<1> DEFINE Same == Connected(s)' = Connected(s) /\ numsServer'[s] = numsServer[s]
           Less == \E p \in Connected(s) :
                     Connected(s)' = Connected(s) \ {p} /\ numsServer'[s] = numsServer[s] - 1
           Goal == Alive(s) /\ (Same \/ Less)
<1>1. ASSUME UNCHANGED <<clientType, numsServer>>, UNCHANGED serverType \/ Alive(s) PROVE Goal
  BY <1>1 DEF Connected, Alive
<1>2. ASSUME NEW u \in Server, NEW p \in Connected(u), CloseClient(u, p), Alive(s) PROVE Goal
  <2>1. /\ clientType' = [clientType EXCEPT ![u][p] = "closed"]
        /\ numsServer' = [numsServer EXCEPT ![u] = numsServer[u] - 1]
    BY <1>2 DEF CloseClient, OneLess
  <2>2. CASE u = s
    <3>1. numsServer'[s] = numsServer[s] - 1
      BY <2>1, <2>2 DEF TypeOK
    <3>2. Connected(s)' = Connected(s) \ {p}
      BY <2>1, <2>2 DEF Connected, TypeOK
    <3> QED BY <1>2, <2>2, <3>1, <3>2
  <2>3. CASE u # s
    <3>1. numsServer'[s] = numsServer[s] /\ clientType'[s] = clientType[s]
      BY <2>1, <2>3 DEF TypeOK
    <3> QED BY <1>2, <3>1 DEF Connected
  <2> QED BY <2>2, <2>3
<1>3. ASSUME UNCHANGED vars PROVE Goal
  BY <1>1, <1>3 DEF vars, roleVars, voteVars, netVars, history
<1>4. ASSUME NEW u \in Server, NEW p \in Server, ReadPackets(u, p) \/ ClientWrite(u, p) PROVE Goal
  BY <1>1, <1>4 DEF ReadPackets, ClientWrite, roleVars, voteVars, netVars, history
<1>5. ASSUME NEW u \in Server, NEW p \in Server, ReadEnd(u, p) PROVE Goal
  <2>1. p \in Connected(u) /\ CloseClient(u, p) /\ Alive(s)
    BY <1>5 DEF ReadEnd, Alive
  <2> HIDE DEF Goal
  <2> QED BY <1>2, <2>1
<1>6. ASSUME NEW u \in Server, Test(u) \/ AdoptTerm(u) \/ ApplyResponse(u) \/ VoteResponse(u)
      PROVE  Goal
  BY <1>1, <1>6 DEF Test, AdoptTerm, ApplyResponse, VoteResponse, roleVars, voteVars, netVars, history
<1>7. ASSUME NEW u \in Server, BeMyFollower(u) PROVE Goal
  <2>1. Alive(u) /\ numsServer' = numsServer
    BY <1>7 DEF BeMyFollower, Handles
  <2>2. Alive(s)
    BY <1>7, <2>1 DEF BeMyFollower, TypeOK, Alive
  <2>3. Connected(s)' = Connected(s)
    <3> DEFINE c == handler[u].client
               old == {p \in Server : clientType[u][p] = "leader"}
    <3>1. PICK o \in IF old = {} THEN {c} ELSE old :
            clientType' = IF c \in Connected(u)
              THEN [clientType EXCEPT ![u][o] = "follower", ![u][c] = "leader"]
              ELSE [clientType EXCEPT ![u][o] = IF o \in Connected(u) THEN "follower" ELSE @]
      BY <1>7 DEF BeMyFollower
    <3>2. c \in Server /\ o \in Server /\ (o = c \/ o \in Connected(u))
      <4>1. handler[u] \in Handler
        BY DEF TypeOK
      <4>2. c \in Server
        BY <4>1 DEF Handler
      <4>3. \A p \in old : p \in Server /\ p \in Connected(u)
        BY DEF Connected
      <4>4. o = c \/ o \in old
        BY <3>1
      <4> HIDE DEF c, old
      <4> QED BY <4>2, <4>3, <4>4
    <3> HIDE DEF c, old
    <3>3. CASE s # u
      <4>1. clientType'[s] = clientType[s]
        BY <3>1, <3>3 DEF TypeOK
      <4> QED BY <4>1 DEF Connected
    <3>4. CASE s = u /\ c \in Connected(u)
      <4>1. clientType'[s] = [clientType[s] EXCEPT ![o] = "follower", ![c] = "leader"]
        BY <3>1, <3>2, <3>4 DEF TypeOK
      <4>2. o \in Connected(s) /\ c \in Connected(s)
        BY <3>2, <3>4
      <4> QED BY <4>1, <4>2 DEF Connected, TypeOK
    <3>5. CASE s = u /\ c \notin Connected(u)
      <4>1. clientType'[s] = [clientType[s] EXCEPT
                ![o] = IF o \in Connected(s) THEN "follower" ELSE clientType[s][o]]
        BY <3>1, <3>2, <3>5 DEF TypeOK
      <4> QED BY <3>2, <4>1 DEF Connected, TypeOK
    <3> QED BY <3>3, <3>4, <3>5
  <2> QED BY <2>1, <2>2, <2>3
<1>8. ASSUME NEW u \in Server, CronFollower(u) PROVE Goal
  <2>1. Alive(s)
    BY <1>8 DEF CronFollower, Tick, TypeOK, Alive
  <2>2. \/ UNCHANGED <<clientType, numsServer>>
        \/ \E p \in Connected(u) : CloseClient(u, p)
    BY <1>8 DEF CronFollower, Connected
  <2> HIDE DEF Goal
  <2> QED BY <1>1, <1>2, <2>1, <2>2
<1>9. ASSUME NEW u \in Server, CronCandidate(u) PROVE Goal
  <2>1. Alive(u) /\ UNCHANGED <<clientType, numsServer>>
    BY <1>9 DEF CronCandidate, Tick
  <2>2. Alive(s)
    <3>1. \A v \in Server : v # u => serverType'[v] = serverType[v]
      BY <1>9 DEF CronCandidate, TypeOK
    <3> QED BY <2>1, <3>1 DEF Alive
  <2> QED BY <1>1, <2>1, <2>2
<1>10. ASSUME NEW u \in Server, Crash(u) PROVE Goal
  <2>1. /\ serverType' = [serverType EXCEPT ![u] = "down"]
        /\ clientType' = [clientType EXCEPT ![u] = [p \in Server |-> "closed"]]
        /\ numsServer' = numsServer
    BY <1>10 DEF Crash
  <2>2. s # u /\ Alive(s)
    BY <2>1 DEF Alive, TypeOK
  <2>3. clientType'[s] = clientType[s]
    BY <2>1, <2>2 DEF TypeOK
  <2> QED BY <2>1, <2>2, <2>3 DEF Connected
<1> HIDE DEF Goal
<1>11. Goal
  BY <1>3, <1>4, <1>5, <1>6, <1>7, <1>8, <1>9, <1>10 DEF Next
<1> QED BY <1>11 DEF Goal

LEMMA ConnectedFinite ==
  ASSUME NEW s \in Server
  PROVE  IsFiniteSet(Connected(s)) /\ Cardinality(Connected(s)) \in Nat
BY ElectionConstants, FS_Subset, FS_CardinalityType DEF Connected

LEMMA ConnectionsInit == Init => ConnectionsCounted
<1> SUFFICES ASSUME NEW first \in FirstLeaders, Mesh(first), NEW s \in Server
             PROVE  s \notin Connected(s) /\ numsServer[s] = 1 + Cardinality(Connected(s))
  BY DEF Init, ConnectionsCounted
<1>1. Connected(s) = Server \ {s}
  BY DEF Mesh, Connected
<1>2. Cardinality(Server \ {s}) = Cardinality(Server) - 1 /\ Cardinality(Server) \in Nat
  BY ElectionConstants, FS_RemoveElement, FS_CardinalityType
<1> QED BY <1>1, <1>2 DEF Mesh

LEMMA ConnectionsNext ==
  ASSUME TypeOK, ConnectionsCounted, [Next]_vars
  PROVE  ConnectionsCounted'
<1> SUFFICES ASSUME NEW s \in Server, Alive(s)'
             PROVE  /\ s \notin Connected(s)'
                    /\ numsServer'[s] = 1 + Cardinality(Connected(s)')
  BY DEF ConnectionsCounted
<1> DEFINE C == Connected(s)
           D == Connected(s)'
<1>1. /\ Alive(s) /\ IsFiniteSet(C) /\ Cardinality(C) \in Nat
      /\ s \notin C /\ numsServer[s] = 1 + Cardinality(C)
  BY ConnectionsStay, ConnectedFinite DEF ConnectionsCounted
<1>2. \/ D = C /\ numsServer'[s] = numsServer[s]
      \/ \E p \in C : D = C \ {p} /\ numsServer'[s] = numsServer[s] - 1
  BY ConnectionsStay
<1> HIDE DEF C, D
<1>3. ASSUME NEW p \in C, D = C \ {p}, numsServer'[s] = numsServer[s] - 1
      PROVE  numsServer'[s] = 1 + Cardinality(D)
  <2>1. Cardinality(C \ {p}) = Cardinality(C) - 1
    BY <1>1, FS_RemoveElement
  <2> QED BY <1>1, <1>3, <2>1
<1>4. s \notin D /\ numsServer'[s] = 1 + Cardinality(D)
  BY <1>1, <1>2, <1>3
<1> QED BY <1>4 DEF D

\* numsServer, of which election() takes its majority, is exactly one more than
\* the connections a server has, through every closing, change of leader and
\* crash, in any mesh and with the timer inside handlers.
THEOREM NumsServerCounts == Spec => []ConnectionsCounted
<1>1. TypeOK /\ ConnectionsCounted /\ [Next]_vars => (TypeOK /\ ConnectionsCounted)'
  BY TypeNext, ConnectionsNext
<1> QED BY <1>1, TypeInit, ConnectionsInit, PTL DEF Spec

\* In a mesh of up to three, two leaders that still hold their connection to
\* each other never share a term of their own campaigns unless one of these is
\* torn: each has at least two servers left, so their majorities meet.
THEOREM OneCampaignLeader ==
  Cardinality(Server) <= 3 /\ Spec => []CampaignLeadersUnique
<1>1. ASSUME Cardinality(Server) <= 3, TypeOK, ConnectionsCounted, LeadersShareNoTerm
      PROVE  CampaignLeadersUnique
  <2> SUFFICES ASSUME NEW s \in Server, NEW p \in Server,
                      p \in Connected(s), s \in Connected(p),
                      serverType[s] = "leader", WholeCampaign(s), term[s] = LastCampaign(s),
                      serverType[p] = "leader", WholeCampaign(p), term[p] = LastCampaign(p)
               PROVE  term[s] # term[p]
    BY DEF CampaignLeadersUnique
  <2>1. ASSUME NEW x \in Server, NEW y \in Connected(x), Alive(x)
        PROVE  numsServer[x] \in Int /\ numsServer[x] >= 2
    <3>1. Cardinality(Connected(x)) # 0
      BY ConnectedFinite, FS_EmptySet
    <3> QED BY <1>1, <2>1, <3>1, ConnectedFinite DEF ConnectionsCounted
  <2>2. numsServer[s] \in Int /\ numsServer[s] >= 2 /\ numsServer[p] \in Int /\ numsServer[p] >= 2
    BY <2>1 DEF Alive
  <2>3. \A n \in Int : n >= 2 => n \div 2 >= 1 /\ n \div 2 \in Int
    OBVIOUS
  <2>4. Cardinality(Server) \in Nat
    BY ElectionConstants, FS_CardinalityType
  <2>5. (numsServer[s] \div 2) + (numsServer[p] \div 2) + 2 > Cardinality(Server)
    BY <1>1, <2>2, <2>3, <2>4
  <2>6. CASE s # p
    BY <1>1, <2>5, <2>6 DEF LeadersShareNoTerm
  <2>7. CASE s = p
    BY <1>1, <2>7 DEF ConnectionsCounted, Alive
  <2> QED BY <2>6, <2>7
<1>2. CASE Cardinality(Server) <= 3
  <2>1. TypeOK /\ ConnectionsCounted /\ LeadersShareNoTerm => CampaignLeadersUnique
    BY <1>1, <1>2
  <2> QED BY <2>1, TypeCorrect, NumsServerCounts, MajoritiesIntersect, PTL
<1> QED BY <1>2
===========================================================================
