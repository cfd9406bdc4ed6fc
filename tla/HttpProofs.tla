----------------------------- MODULE HttpProofs -----------------------------
(***************************************************************************)
(* Proofs about the web server.  HttpServer: any number of workers,        *)
(* connections and descriptors and any limits.  HttpRequest: any requests, *)
(* in any pieces, buffers of any size and any files.                       *)
(***************************************************************************)
EXTENDS HttpServer, HttpRequest,
        FiniteSetTheorems, SequenceTheorems, WellFoundedInduction, TLAPS

LEMMA NoFdNotFd == NoFd \notin Fds /\ NoFd \in Int
BY FdsAssumption DEF NoFd

-----------------------------------------------------------------------------
(* Type correctness. *)

LEMMA TypeInit == Init => TypeOK
BY LimitsAssumption DEF Init, TypeOK, Peers

LEMMA TypeMain ==
  ASSUME TypeOK, AcceptLoop
  PROVE  TypeOK'
<1>1. ASSUME NEW c \in Conns, Accept(c) PROVE TypeOK'
  <2>1. PICK f \in Fds :
          /\ open' = [open EXCEPT ![f] = c]
          /\ main' = [main EXCEPT !.at = "limit", !.fd = f]
    BY <1>1 DEF Accept
  <2> QED
    BY <1>1, <2>1 DEF TypeOK, Accept
<1>2. CASE Refuse
  BY <1>2, LimitsAssumption DEF TypeOK, Refuse, MainAt
<1>3. CASE Admit
  BY <1>3, LimitsAssumption DEF TypeOK, Admit, MainAt
<1>4. CASE InitSlot
  BY <1>4, LimitsAssumption DEF TypeOK, InitSlot, MainAt
<1>5. CASE LoadUsers
  BY <1>5, LimitsAssumption DEF TypeOK, LoadUsers
<1>6. CASE StoreUsers
  BY SMTT(30), <1>6, LimitsAssumption DEF TypeOK, StoreUsers, MainAt
<1>7. CASE AppendRequest
  BY <1>7, LimitsAssumption DEF TypeOK, AppendRequest, MainAt, Full
<1>8. CASE AppendFails
  BY <1>8, LimitsAssumption DEF TypeOK, AppendFails, MainAt, Full
<1>9. CASE Post
  BY SMTT(30), <1>9, LimitsAssumption DEF TypeOK, Post, MainAt, Posted
<1> QED
  BY <1>1, <1>2, <1>3, <1>4, <1>5, <1>6, <1>7, <1>8, <1>9 DEF AcceptLoop

LEMMA TypeWorker ==
  ASSUME TypeOK, NEW w \in Workers, Worker(w)
  PROVE  TypeOK'
<1>1. CASE TakeSem(w)
  BY SMTT(30), <1>1, NoFdNotFd DEF TypeOK, TakeSem, WorkerAt
<1>2. CASE PopRequest(w)
  <2>1. Head(queue) \in Fds /\ Tail(queue) \in Seq(Fds) /\ Len(Tail(queue)) <= Len(queue)
    BY <1>2 DEF TypeOK, PopRequest
  <2>2. Len(Tail(queue)) <= MaxRequests + 1
    BY <2>1, LimitsAssumption DEF TypeOK
  <2> QED
    BY <1>2, <2>1, <2>2 DEF TypeOK, PopRequest, Popped
<1>3. CASE NoLine(w)
  BY <1>3, NoFdNotFd DEF TypeOK, NoLine, WorkerAt
<1>4. CASE FirstLine(w)
  BY <1>4, NoFdNotFd DEF TypeOK, FirstLine, WorkerAt
<1>5. CASE EndOfHeader(w)
  BY <1>5, NoFdNotFd DEF TypeOK, EndOfHeader, WorkerAt
<1>6. CASE Respond(w)
  BY <1>6, NoFdNotFd DEF TypeOK, Respond, WorkerAt, Reached, Client
<1>7. CASE SendFails(w)
  BY <1>7, NoFdNotFd DEF TypeOK, SendFails, WorkerAt
<1>8. CASE DeleteEvent(w)
  BY <1>8, NoFdNotFd DEF TypeOK, DeleteEvent, WorkerAt, AfterDelete, Closed
<1>9. CASE CloseNothing(w)
  BY <1>9, NoFdNotFd DEF TypeOK, CloseNothing, WorkerAt
<1>10. CASE TestSocket(w)
  BY <1>10, NoFdNotFd DEF TypeOK, TestSocket, WorkerAt
<1>11. CASE CloseSocket(w)
  BY <1>11, NoFdNotFd DEF TypeOK, CloseSocket, WorkerAt, Closed
<1>12. CASE ResetSlot(w)
  BY <1>12, NoFdNotFd DEF TypeOK, ResetSlot, WorkerAt
<1>13. CASE LoadToDecrease(w)
  BY <1>13, NoFdNotFd DEF TypeOK, LoadToDecrease
<1>14. CASE StoreDecreased(w)
  BY <1>14, NoFdNotFd DEF TypeOK, StoreDecreased, WorkerAt
<1> QED
  BY <1>1, <1>2, <1>3, <1>4, <1>5, <1>6, <1>7, <1>8, <1>9, <1>10, <1>11, <1>12,
        <1>13, <1>14 DEF Worker

LEMMA TypeNext == TypeOK /\ [Next]_vars => TypeOK'
<1> SUFFICES ASSUME TypeOK, [Next]_vars PROVE TypeOK'
  OBVIOUS
<1>1. CASE UNCHANGED vars
  BY <1>1 DEF vars, TypeOK
<1> QED
  BY <1>1, TypeMain, TypeWorker DEF Next

(* Every variable keeps its type, and the queue its bound, for any pool.   *)
THEOREM TypeCorrect == Spec => []TypeOK
BY TypeInit, TypeNext, PTL DEF Spec

-----------------------------------------------------------------------------
(* One owner for a descriptor.  A slot holds its own descriptor or -1, so  *)
(* that a worker can only close the descriptor of its own request; while   *)
(* it serves the request nobody writes another descriptor there.           *)

SlotOwn == \A f \in Fds : slot[f] \in {f, NoFd}

LEMMA SlotOwnNext == TypeOK /\ SlotOwn /\ [Next]_vars => SlotOwn'
<1> SUFFICES ASSUME TypeOK, SlotOwn, [Next]_vars PROVE SlotOwn'
  OBVIOUS
<1>1. CASE slot' = slot
  BY <1>1 DEF SlotOwn
<1>2. CASE InitSlot
  BY <1>2 DEF SlotOwn, InitSlot, MainAt, TypeOK
<1>3. ASSUME NEW w \in Workers, ResetSlot(w) PROVE SlotOwn'
  BY <1>3 DEF SlotOwn, ResetSlot, WorkerAt, TypeOK
<1> QED
  BY <1>1, <1>2, <1>3 DEF Next, AcceptLoop, Worker, vars, Accept, Refuse, Admit,
        LoadUsers, StoreUsers, AppendRequest, AppendFails, Post, TakeSem,
        PopRequest, NoLine, FirstLine, EndOfHeader, Respond, SendFails,
        DeleteEvent, CloseNothing, TestSocket, CloseSocket, LoadToDecrease,
        StoreDecreased

LEMMA OwnedMain ==
  ASSUME TypeOK, SlotOwn, OwnedOnce, AcceptLoop
  PROVE  OwnedOnce'
<1>1. ASSUME NEW c \in Conns, Accept(c) PROVE OwnedOnce'
  <2>1. PICK f \in Fds :
          /\ open[f] = NoConn
          /\ open' = [open EXCEPT ![f] = c]
          /\ main' = [main EXCEPT !.at = "limit", !.fd = f]
    BY <1>1 DEF Accept
  <2> QED
    BY <1>1, <2>1, NoConnAssumption DEF TypeOK, SlotOwn, OwnedOnce, Filling,
        Serving, Accept
<1>2. CASE Refuse
  BY <1>2, NoFdNotFd DEF TypeOK, SlotOwn, OwnedOnce, Filling, Serving, Refuse,
        MainAt
<1>3. CASE Admit
  BY <1>3, NoFdNotFd DEF TypeOK, SlotOwn, OwnedOnce, Filling, Serving, Admit, MainAt
<1>4. CASE InitSlot
  BY <1>4, NoFdNotFd DEF TypeOK, SlotOwn, OwnedOnce, Filling, Serving, InitSlot,
        MainAt
<1>5. CASE LoadUsers
  BY <1>5, NoFdNotFd DEF TypeOK, SlotOwn, OwnedOnce, Filling, Serving, LoadUsers
<1>6. CASE StoreUsers
  BY <1>6, NoFdNotFd DEF TypeOK, SlotOwn, OwnedOnce, Filling, Serving,
        StoreUsers, MainAt
<1>7. CASE AppendRequest
  BY <1>7, NoFdNotFd DEF TypeOK, SlotOwn, OwnedOnce, Filling, Serving,
        AppendRequest, MainAt, Full
<1>8. CASE AppendFails
  BY <1>8, NoFdNotFd DEF TypeOK, SlotOwn, OwnedOnce, Filling, Serving,
        AppendFails, MainAt, Full
<1>9. CASE Post
  BY <1>9, NoFdNotFd DEF TypeOK, SlotOwn, OwnedOnce, Filling, Serving, Post,
        MainAt, Posted
<1> QED
  BY <1>1, <1>2, <1>3, <1>4, <1>5, <1>6, <1>7, <1>8, <1>9 DEF AcceptLoop

LEMMA OwnedWorker ==
  ASSUME TypeOK, SlotOwn, OwnedOnce, NEW w \in Workers, Worker(w)
  PROVE  OwnedOnce'
<1>1. CASE TakeSem(w)
  BY <1>1, NoFdNotFd DEF TypeOK, SlotOwn, OwnedOnce, Filling, Serving, TakeSem,
        WorkerAt
<1>2. CASE PopRequest(w)
  BY SMTT(30), <1>2, NoFdNotFd DEF TypeOK, SlotOwn, OwnedOnce, Filling, Serving,
        PopRequest, Popped
<1>3. CASE NoLine(w)
  BY <1>3, NoFdNotFd DEF TypeOK, SlotOwn, OwnedOnce, Filling, Serving, NoLine,
        WorkerAt
<1>4. CASE FirstLine(w)
  BY <1>4, NoFdNotFd DEF TypeOK, SlotOwn, OwnedOnce, Filling, Serving, FirstLine,
        WorkerAt
<1>5. CASE EndOfHeader(w)
  BY <1>5, NoFdNotFd DEF TypeOK, SlotOwn, OwnedOnce, Filling, Serving,
        EndOfHeader, WorkerAt
<1>6. CASE Respond(w)
  BY <1>6, NoFdNotFd DEF TypeOK, SlotOwn, OwnedOnce, Filling, Serving, Respond,
        WorkerAt, Reached, Client
<1>7. CASE SendFails(w)
  BY <1>7, NoFdNotFd DEF TypeOK, SlotOwn, OwnedOnce, Filling, Serving, SendFails,
        WorkerAt
<1>8. CASE DeleteEvent(w)
  BY <1>8, NoFdNotFd DEF TypeOK, SlotOwn, OwnedOnce, Filling, Serving,
        DeleteEvent, WorkerAt, AfterDelete, Closed
<1>9. CASE CloseNothing(w)
  BY <1>9, NoFdNotFd DEF TypeOK, SlotOwn, OwnedOnce, Filling, Serving,
        CloseNothing, WorkerAt
<1>10. CASE TestSocket(w)
  BY <1>10, NoFdNotFd DEF TypeOK, SlotOwn, OwnedOnce, Filling, Serving,
        TestSocket, WorkerAt
<1>11. CASE CloseSocket(w)
  <2>1. Serving(w) /\ work[w].fd \in Fds
    BY <1>11 DEF TypeOK, CloseSocket, WorkerAt, Serving
  <2>2. \A f \in Fds \ {work[w].fd} : open'[f] = open[f]
    BY <1>11, <2>1, NoFdNotFd DEF TypeOK, SlotOwn, CloseSocket, Closed
  <2>3. /\ ~ Serving(w)'
        /\ \A v \in Workers \ {w} : work'[v] = work[v]
    BY <1>11 DEF TypeOK, CloseSocket, WorkerAt, Serving
  <2>4. queue' = queue /\ main' = main
    BY <1>11 DEF CloseSocket
  <2>5. \A v \in Workers : Serving(v)' =>
          /\ v # w /\ Serving(v) /\ work'[v].fd = work[v].fd
          /\ work[v].fd # work[w].fd /\ work[v].fd \in Fds
    BY <2>1, <2>3 DEF OwnedOnce, Serving, TypeOK
  <2>6. \A i \in DOMAIN queue : queue[i] \in Fds \ {work[w].fd}
    BY <2>1 DEF OwnedOnce, TypeOK
  <2>7. Filling => main.fd \in Fds \ {work[w].fd}
    BY <2>1 DEF OwnedOnce, TypeOK, Filling
  <2> QED
    BY <2>2, <2>4, <2>5, <2>6, <2>7 DEF OwnedOnce, Filling
<1>12. CASE ResetSlot(w)
  BY <1>12, NoFdNotFd DEF TypeOK, SlotOwn, OwnedOnce, Filling, Serving,
        ResetSlot, WorkerAt
<1>13. CASE LoadToDecrease(w)
  BY <1>13, NoFdNotFd DEF TypeOK, SlotOwn, OwnedOnce, Filling, Serving,
        LoadToDecrease
<1>14. CASE StoreDecreased(w)
  BY <1>14, NoFdNotFd DEF TypeOK, SlotOwn, OwnedOnce, Filling, Serving,
        StoreDecreased, WorkerAt
<1> QED
  BY <1>1, <1>2, <1>3, <1>4, <1>5, <1>6, <1>7, <1>8, <1>9, <1>10, <1>11, <1>12,
        <1>13, <1>14 DEF Worker

(* What a worker knows of its connection when it closes it. *)
AnsweredInv ==
  \A w \in Workers : work[w].at = "delete" =>
    conn[open[work[w].fd]] \in {"refused", "answered"}

SilentInv ==
  \A w \in Workers : work[w].at \in {"test", "close"} =>
    slot[work[w].fd] = NoFd \/ peer[open[work[w].fd]] = "silent"

LEMMA KnownMain ==
  ASSUME TypeOK, SlotOwn, OwnedOnce, AnsweredInv, SilentInv, AcceptLoop
  PROVE  AnsweredInv' /\ SilentInv'
<1>1. ASSUME NEW c \in Conns, Accept(c) PROVE AnsweredInv' /\ SilentInv'
  <2>1. PICK f \in Fds :
          /\ open[f] = NoConn
          /\ open' = [open EXCEPT ![f] = c]
    BY <1>1 DEF Accept
  <2> QED
    BY <1>1, <2>1, NoConnAssumption DEF TypeOK, SlotOwn, OwnedOnce, Filling,
        Serving, AnsweredInv, SilentInv, Accept
<1>2. CASE Refuse
  BY <1>2, NoFdNotFd DEF TypeOK, SlotOwn, OwnedOnce, Filling, Serving,
        AnsweredInv, SilentInv, Refuse, MainAt
<1>3. CASE Admit
  BY <1>3, NoFdNotFd DEF TypeOK, SlotOwn, OwnedOnce, Filling, Serving,
        AnsweredInv, SilentInv, Admit, MainAt
<1>4. CASE InitSlot
  BY <1>4, NoFdNotFd DEF TypeOK, SlotOwn, OwnedOnce, Filling, Serving,
        AnsweredInv, SilentInv, InitSlot, MainAt
<1>5. CASE LoadUsers
  BY <1>5, NoFdNotFd DEF TypeOK, SlotOwn, OwnedOnce, Filling, Serving,
        AnsweredInv, SilentInv, LoadUsers
<1>6. CASE StoreUsers
  BY <1>6, NoFdNotFd DEF TypeOK, SlotOwn, OwnedOnce, Filling, Serving,
        AnsweredInv, SilentInv, StoreUsers, MainAt
<1>7. CASE AppendRequest
  BY <1>7, NoFdNotFd DEF TypeOK, SlotOwn, OwnedOnce, Filling, Serving,
        AnsweredInv, SilentInv, AppendRequest, MainAt, Full
<1>8. CASE AppendFails
  BY <1>8, NoFdNotFd DEF TypeOK, SlotOwn, OwnedOnce, Filling, Serving,
        AnsweredInv, SilentInv, AppendFails, MainAt, Full
<1>9. CASE Post
  BY <1>9, NoFdNotFd DEF TypeOK, SlotOwn, OwnedOnce, Filling, Serving,
        AnsweredInv, SilentInv, Post, MainAt, Posted
<1> QED
  BY <1>1, <1>2, <1>3, <1>4, <1>5, <1>6, <1>7, <1>8, <1>9 DEF AcceptLoop

LEMMA KnownWorker ==
  ASSUME TypeOK, SlotOwn, OwnedOnce, AnsweredInv, SilentInv, NEW w \in Workers, Worker(w)
  PROVE  AnsweredInv' /\ SilentInv'
<1>1. CASE TakeSem(w)
  BY <1>1, NoFdNotFd DEF TypeOK, SlotOwn, OwnedOnce, Filling, Serving,
        AnsweredInv, SilentInv, TakeSem, WorkerAt
<1>2. CASE PopRequest(w)
  BY <1>2, NoFdNotFd DEF TypeOK, SlotOwn, OwnedOnce, Filling, Serving,
        AnsweredInv, SilentInv, PopRequest, Popped
<1>3. CASE NoLine(w)
  <2>1. Serving(w) /\ work[w].fd \in Fds /\ open[work[w].fd] \in Conns
    BY <1>3 DEF TypeOK, OwnedOnce, NoLine, WorkerAt, Serving
  <2>2. slot[work[w].fd] = NoFd \/ peer[open[work[w].fd]] = "silent"
    BY <1>3, <2>1, NoFdNotFd, NoConnAssumption
       DEF TypeOK, Peers, SlotOwn, NoLine, Client, Reached
  <2>3. /\ work'[w] = [work[w] EXCEPT !.at = "test"]
        /\ \A v \in Workers \ {w} : work'[v] = work[v]
    BY <1>3 DEF TypeOK, NoLine, WorkerAt
  <2>4. /\ work'[w].at = "test" /\ work'[w].fd = work[w].fd
        /\ open' = open /\ slot' = slot /\ peer' = peer /\ conn' = conn
    BY <1>3, <2>3 DEF TypeOK, NoLine
  <2>5. AnsweredInv'
    BY <2>3, <2>4 DEF AnsweredInv
  <2>6. SilentInv'
    BY <2>2, <2>3, <2>4 DEF SilentInv
  <2> QED
    BY <2>5, <2>6
<1>4. CASE FirstLine(w)
  BY <1>4, NoFdNotFd DEF TypeOK, SlotOwn, OwnedOnce, Filling, Serving,
        AnsweredInv, SilentInv, FirstLine, WorkerAt
<1>5. CASE EndOfHeader(w)
  BY <1>5, NoFdNotFd DEF TypeOK, SlotOwn, OwnedOnce, Filling, Serving,
        AnsweredInv, SilentInv, EndOfHeader, WorkerAt
<1>6. CASE Respond(w)
  BY <1>6, NoFdNotFd DEF TypeOK, SlotOwn, OwnedOnce, Filling, Serving,
        AnsweredInv, SilentInv, Respond, WorkerAt, Reached, Client
<1>7. CASE SendFails(w)
  BY <1>7, NoFdNotFd DEF TypeOK, SlotOwn, OwnedOnce, Filling, Serving,
        AnsweredInv, SilentInv, SendFails, WorkerAt
<1>8. CASE DeleteEvent(w)
  BY <1>8, NoFdNotFd DEF TypeOK, SlotOwn, OwnedOnce, Filling, Serving,
        AnsweredInv, SilentInv, DeleteEvent, WorkerAt, AfterDelete, Closed
<1>9. CASE CloseNothing(w)
  BY <1>9, NoFdNotFd DEF TypeOK, SlotOwn, OwnedOnce, Filling, Serving,
        AnsweredInv, SilentInv, CloseNothing, WorkerAt
<1>10. CASE TestSocket(w)
  BY <1>10, NoFdNotFd DEF TypeOK, SlotOwn, OwnedOnce, Filling, Serving,
        AnsweredInv, SilentInv, TestSocket, WorkerAt
<1>11. CASE CloseSocket(w)
  <2>1. Serving(w) /\ work[w].fd \in Fds
    BY <1>11 DEF TypeOK, CloseSocket, WorkerAt, Serving
  <2>2. \A f \in Fds \ {work[w].fd} : open'[f] = open[f]
    BY <1>11, <2>1, NoFdNotFd DEF TypeOK, SlotOwn, CloseSocket, Closed
  <2>3. /\ work'[w].at = "reset"
        /\ \A v \in Workers \ {w} : work'[v] = work[v]
    BY <1>11 DEF TypeOK, CloseSocket, WorkerAt
  <2>4. \A v \in Workers \ {w} : Serving(v) => work[v].fd \in Fds \ {work[w].fd}
    BY <2>1 DEF OwnedOnce, TypeOK, Serving
  <2>5. slot' = slot /\ peer' = peer /\ conn' = conn
    BY <1>11 DEF CloseSocket
  <2>6. AnsweredInv'
    BY <2>2, <2>3, <2>4, <2>5 DEF AnsweredInv, Serving
  <2>7. SilentInv'
    BY <2>2, <2>3, <2>4, <2>5 DEF SilentInv, Serving
  <2> QED
    BY <2>6, <2>7
<1>12. CASE ResetSlot(w)
  BY <1>12, NoFdNotFd DEF TypeOK, SlotOwn, OwnedOnce, Filling, Serving,
        AnsweredInv, SilentInv, ResetSlot, WorkerAt
<1>13. CASE LoadToDecrease(w)
  <2>1. UNCHANGED <<peer, conn, open, slot>> /\ work'[w].at = "store"
        /\ \A v \in Workers \ {w} : work'[v] = work[v]
    BY <1>13 DEF TypeOK, LoadToDecrease
  <2> QED BY <2>1 DEF AnsweredInv, SilentInv
<1>14. CASE StoreDecreased(w)
  <2>1. UNCHANGED <<peer, conn, open, slot>> /\ work'[w].at = "sem"
        /\ \A v \in Workers \ {w} : work'[v] = work[v]
    BY <1>14 DEF TypeOK, StoreDecreased, WorkerAt
  <2> QED BY <2>1 DEF AnsweredInv, SilentInv
<1> QED
  BY <1>1, <1>2, <1>3, <1>4, <1>5, <1>6, <1>7, <1>8, <1>9, <1>10, <1>11, <1>12,
        <1>13, <1>14 DEF Worker

(* The inductive invariant. *)
IInv == TypeOK /\ SlotOwn /\ OwnedOnce /\ AnsweredInv /\ SilentInv

LEMMA InvInit == Init => IInv
<1> SUFFICES ASSUME Init PROVE IInv
  OBVIOUS
<1>1. /\ queue = <<>> /\ main.at = "epoll"
      /\ \A w \in Workers : work[w].at = "sem"
      /\ \A f \in Fds : slot[f] = NoFd
  BY DEF Init
<1> QED
  BY <1>1, TypeInit DEF IInv, SlotOwn, OwnedOnce, AnsweredInv, SilentInv,
        Filling, Serving

LEMMA InvNext == IInv /\ [Next]_vars => IInv'
<1> SUFFICES ASSUME IInv, [Next]_vars PROVE IInv'
  OBVIOUS
<1>1. TypeOK' /\ SlotOwn'
  BY TypeNext, SlotOwnNext DEF IInv
<1>2. CASE UNCHANGED vars
  BY <1>1, <1>2 DEF IInv, OwnedOnce, AnsweredInv, SilentInv, Filling, Serving, vars
<1>3. CASE AcceptLoop
  BY <1>1, <1>3, OwnedMain, KnownMain DEF IInv
<1>4. ASSUME NEW w \in Workers, Worker(w) PROVE IInv'
  BY <1>1, <1>4, OwnedWorker, KnownWorker DEF IInv
<1> QED
  BY <1>2, <1>3, <1>4 DEF Next

(* Spec keeps the inductive invariant. *)
LEMMA InvAlways == Spec => []IInv
BY InvInit, InvNext, PTL DEF Spec

(* A descriptor is filled, queued or served in one place at a time and     *)
(* open as long.                                                           *)
THEOREM OneOwner == Spec => []OwnedOnce
<1>1. IInv => OwnedOnce
  BY DEF IInv
<1> QED
  BY <1>1, InvAlways, PTL

(* The connection of a request is closed after its answer or as refused:   *)
(* no worker closes the descriptor of another client.                      *)
THEOREM NoForeignClose == Spec => ClosedAfterAnswer
<1> DEFINE Step == \A f \in Fds :
             open[f] # NoConn /\ open'[f] = NoConn =>
               peer[open[f]] = "silent" \/ conn'[open[f]] \in {"refused",
        "answered"}
<1>1. ASSUME IInv, [Next]_vars PROVE [Step]_vars
  <2> SUFFICES ASSUME NEW f \in Fds, open[f] # NoConn, open'[f] = NoConn
               PROVE  peer[open[f]] = "silent" \/ conn'[open[f]] \in {"refused",
        "answered"}
    OBVIOUS
  <2>1. CASE open' = open
    BY <2>1
  <2>2. ASSUME NEW c \in Conns, Accept(c) PROVE FALSE
    <3>1. PICK g \in Fds : open' = [open EXCEPT ![g] = c]
      BY <2>2 DEF Accept
    <3> QED
      BY <3>1, <1>1, NoConnAssumption DEF IInv, TypeOK
  <2>3. CASE Refuse
    <3>1. f = main.fd
      BY <2>3, <1>1 DEF IInv, TypeOK, Refuse
    <3> QED
      BY <2>3, <3>1, <1>1 DEF IInv, TypeOK, Refuse
  <2>4. ASSUME NEW w \in Workers, DeleteEvent(w)
        PROVE  conn'[open[f]] \in {"refused", "answered"}
    <3>1. f = work[w].fd /\ conn' = conn /\ work[w].at = "delete"
      BY <2>4, <1>1, NoFdNotFd DEF IInv, TypeOK, SlotOwn, DeleteEvent, WorkerAt,
        Closed
    <3> QED
      BY <3>1, <1>1 DEF IInv, AnsweredInv
  <2>5. ASSUME NEW w \in Workers, CloseSocket(w)
        PROVE  peer[open[f]] = "silent"
    <3>1. f = work[w].fd /\ slot[work[w].fd] # NoFd /\ work[w].at = "close"
      BY <2>5, <1>1, NoFdNotFd DEF IInv, TypeOK, SlotOwn, CloseSocket, WorkerAt,
        Closed
    <3> QED
      BY <3>1, <1>1 DEF IInv, SilentInv
  <2> QED
    BY <1>1, <2>1, <2>2, <2>3, <2>4, <2>5
       DEF Next, AcceptLoop, Worker, vars, Admit, InitSlot, LoadUsers,
        StoreUsers, AppendRequest, AppendFails, Post, TakeSem, PopRequest,
        NoLine, FirstLine, EndOfHeader, Respond, SendFails, CloseNothing,
        TestSocket, ResetSlot, LoadToDecrease, StoreDecreased
<1> QED
  BY <1>1, InvAlways, PTL DEF Spec, ClosedAfterAnswer

-----------------------------------------------------------------------------
(* The semaphore and the queue. *)

LEMMA PoppingFinite == IsFiniteSet(Popping) /\ Cardinality(Popping) \in Nat
<1>1. Popping \in SUBSET Workers
  BY DEF Popping
<1>2. IsFiniteSet(Popping)
  BY <1>1, WorkersAssumption, FS_Subset
<1> QED
  BY <1>2, FS_CardinalityType

LEMMA SemInit == Init => SemBacked
<1> SUFFICES ASSUME Init PROVE SemBacked
  OBVIOUS
<1>1. Popping = {}
  BY DEF Init, Popping
<1> QED
  BY <1>1, FS_EmptySet DEF Init, SemBacked

LEMMA SemMain ==
  ASSUME TypeOK, SemBacked, AcceptLoop
  PROVE  SemBacked'
<1>1. Popping' = Popping
  BY DEF Popping, AcceptLoop, Accept, Refuse, Admit, InitSlot, LoadUsers,
        StoreUsers, AppendRequest, AppendFails, Post
<1>2. CASE AppendRequest
  <2>1. Len(queue') = Len(queue) + 1
    BY <1>2 DEF AppendRequest, TypeOK
  <2> QED
    BY <1>1, <1>2, <2>1, PoppingFinite DEF SemBacked, AppendRequest, MainAt, TypeOK
<1>3. CASE Post
  BY <1>1, <1>3, PoppingFinite DEF SemBacked, Post, MainAt, Posted, TypeOK
<1>4. ASSUME NEW c \in Conns, Accept(c) PROVE SemBacked'
  <2>1. main.at = "epoll" /\ main'.at = "limit" /\ queue' = queue /\ sem' = sem
    BY <1>4 DEF Accept, TypeOK
  <2> QED
    BY <1>1, <2>1 DEF SemBacked
<1>5. CASE Refuse \/ Admit \/ InitSlot \/ LoadUsers \/ StoreUsers \/ AppendFails
  <2>1. main.at # "post" /\ main'.at # "post" /\ queue' = queue /\ sem' = sem
    BY <1>5 DEF MainAt, Refuse, Admit, InitSlot, LoadUsers, StoreUsers,
        AppendFails, TypeOK
  <2> QED
    BY <1>1, <2>1 DEF SemBacked
<1> QED
  BY <1>2, <1>3, <1>4, <1>5 DEF AcceptLoop

LEMMA SemWorker ==
  ASSUME TypeOK, SemBacked, NEW w \in Workers, Worker(w)
  PROVE  SemBacked'
<1>1. CASE TakeSem(w)
  <2>1. w \notin Popping /\ Popping' = Popping \cup {w}
    BY <1>1 DEF Popping, TakeSem, WorkerAt, TypeOK
  <2>2. Cardinality(Popping') = Cardinality(Popping) + 1
    BY <2>1, PoppingFinite, FS_AddElement
  <2> QED
    BY <1>1, <2>2, PoppingFinite DEF SemBacked, TakeSem, TypeOK
<1>2. CASE PopRequest(w)
  <2>1. w \in Popping /\ Popping' = Popping \ {w}
    BY <1>2 DEF Popping, PopRequest, TypeOK
  <2>2. Cardinality(Popping') = Cardinality(Popping) - 1
    BY <2>1, PoppingFinite, FS_RemoveElement
  <2>3. Len(queue') = Len(queue) - 1
    BY <1>2 DEF PopRequest, Popped, TypeOK
  <2> QED
    BY <1>2, <2>2, <2>3, PoppingFinite DEF SemBacked, PopRequest, TypeOK
<1>3. ASSUME NEW here, NEW there, here # "pop", there # "pop", WorkerAt(w, here, there)
      PROVE  Popping' = Popping
  BY <1>3 DEF Popping, WorkerAt, TypeOK
<1>4. CASE LoadToDecrease(w)
  <2>1. Popping' = Popping
    BY <1>4 DEF Popping, LoadToDecrease, TypeOK
  <2> QED
    BY <1>4, <2>1 DEF SemBacked, LoadToDecrease
<1>5. CASE NoLine(w)
  BY <1>3, <1>5 DEF SemBacked, NoLine
<1>6. CASE FirstLine(w)
  BY <1>3, <1>6 DEF SemBacked, FirstLine
<1>7. CASE EndOfHeader(w)
  BY <1>3, <1>7 DEF SemBacked, EndOfHeader
<1>8. CASE Respond(w)
  BY <1>3, <1>8 DEF SemBacked, Respond
<1>9. CASE SendFails(w)
  BY <1>3, <1>9 DEF SemBacked, SendFails
<1>10. CASE DeleteEvent(w)
  BY <1>3, <1>10 DEF SemBacked, DeleteEvent, AfterDelete
<1>11. CASE CloseNothing(w)
  BY <1>3, <1>11 DEF SemBacked, CloseNothing
<1>12. CASE TestSocket(w)
  BY <1>3, <1>12 DEF SemBacked, TestSocket
<1>13. CASE CloseSocket(w)
  BY <1>3, <1>13 DEF SemBacked, CloseSocket
<1>14. CASE ResetSlot(w)
  BY <1>3, <1>14 DEF SemBacked, ResetSlot
<1>15. CASE StoreDecreased(w)
  BY <1>3, <1>15 DEF SemBacked, StoreDecreased
<1> QED
  BY <1>1, <1>2, <1>4, <1>5, <1>6, <1>7, <1>8, <1>9, <1>10, <1>11, <1>12, <1>13,
        <1>14, <1>15 DEF Worker

(* The semaphore, the workers past sem_wait and a post on its way add up   *)
(* to the queue.                                                           *)
THEOREM SemaphoreBacked == Spec => []SemBacked
<1>1. TypeOK /\ SemBacked /\ [Next]_vars => SemBacked'
  <2> SUFFICES ASSUME TypeOK, SemBacked, [Next]_vars PROVE SemBacked'
    OBVIOUS
  <2>1. CASE UNCHANGED vars
    BY <2>1 DEF vars, SemBacked, Popping
  <2> QED
    BY <2>1, SemMain, SemWorker DEF Next
<1> QED
  BY <1>1, SemInit, TypeCorrect, PTL DEF Spec

(* run() never takes the front of an empty list. *)
THEOREM PopFindsRequest ==
  Spec => [](\A w \in Workers : work[w].at = "pop" => queue # <<>>)
<1> DEFINE Finds == \A w \in Workers : work[w].at = "pop" => queue # <<>>
<1>1. TypeOK /\ SemBacked => Finds
  <2> SUFFICES ASSUME TypeOK, SemBacked, NEW w \in Workers, work[w].at = "pop", queue = <<>>
               PROVE  FALSE
    OBVIOUS
  <2>1. Popping # {}
    BY DEF Popping
  <2>2. Cardinality(Popping) > 0
    BY <2>1, PoppingFinite, FS_EmptySet
  <2>3. Len(queue) = 0
    OBVIOUS
  <2> QED
    BY <2>2, <2>3, PoppingFinite DEF SemBacked, TypeOK
<1> QED
  BY <1>1, TypeCorrect, SemaphoreBacked, PTL

-----------------------------------------------------------------------------
(* HttpRequest.  What get_line has taken is a position in the request: how *)
(* much of the line that starts behind the last end of line is in the      *)
(* buffer, and how many full buffers of it were returned before.           *)

\* CR and LF are strings too, which the provers do not know.
Byte == STRING \cup {CR, LF}

\* The bytes recv has taken.
Consumed == Len(request) - Len(arrived) - Len(toCome)

RequestTypes ==
  /\ request \in Seq(Byte) /\ toCome \in Seq(Byte) /\ arrived \in Seq(Byte)
  /\ buf \in Seq(Byte) /\ line \in Seq(Byte)
  /\ pc \in {"requestLine", "header", "request", "done"}
  /\ peek \in BOOLEAN

\* What has arrived and what is to come are the rest of the request.
StreamKept ==
  /\ Consumed \in Nat
  /\ \A i \in 1..Len(arrived) : arrived[i] = request[Consumed + i]
  /\ \A i \in 1..Len(toCome) : toCome[i] = request[Consumed + Len(arrived) + i]

\* No byte from s + 1 to e belongs to an end of line.
Bare(s, e) == \A i \in s + 1..e : request[i] \notin {CR, LF}

\* A line starts behind s.
Started(s) == s = 0 \/ (s \in DOMAIN request /\ EndsLine(request, s))

NoHead(s) == \A i \in 1..s : ~EndsHead(request, i)

\* The line behind s has been read up to e: q full buffers were returned, and
\* the last n bytes are the first n of buf.
Chunk(s, e, q, n) ==
  /\ e = s + q * LineSize + n /\ e <= Len(request)
  /\ Started(s) /\ Bare(s, e) /\ NoHead(s)
  /\ \A i \in 1..n : buf[i] = request[e - n + i]
  /\ pc = "requestLine" => s = 0 /\ q = 0
  /\ pc = "header" => s > 0 \/ q > 0

\* The line whose bytes end at e ends at k.
EndAt(e, k) ==
  /\ k <= Len(request) /\ EndsLine(request, k)
  /\ \/ k = e + 1
     \/ k = e + 2 /\ request[e + 1] = CR /\ request[k] = LF

InLine ==
  /\ ~peek /\ Len(buf) <= LineSize
  /\ \E s, q \in Nat : Chunk(s, Consumed, q, Len(buf))

AtCR ==
  /\ peek /\ Len(buf) < LineSize
  /\ Consumed > 0 /\ request[Consumed] = CR
  /\ \E s, q \in Nat : Chunk(s, Consumed - 1, q, Len(buf))

AtEnd ==
  /\ ~peek /\ Len(buf) > 0 /\ Len(buf) <= LineSize /\ buf[Len(buf)] = LF
  /\ \E s, q, e \in Nat : Chunk(s, e, q, Len(buf) - 1) /\ EndAt(e, Consumed)

\* The stream ended within the header.
CutOff == ~peek /\ buf = <<>> /\ pc = "header" /\ Consumed = Len(request)

ReadExactly == Reading => InLine \/ AtCR \/ AtEnd \/ CutOff

\* The request line is the first line, if that fits the buffer.
LineKept ==
  pc \in {"header", "request"} =>
    \A f \in FirstEnds(request) : Len(StartLine(request)) <= LineSize => line = StartLine(request)

HeadFound == pc = "request" /\ LinesFit(request) => Consumed \in HeadEnds(request)

RequestInv ==
  /\ RequestTypes /\ StreamKept
  /\ ReadExactly /\ LineKept /\ HeadFound
  /\ (peek => Reading) /\ (pc # "done" => answer = NoAnswer) /\ AnswerFits

-----------------------------------------------------------------------------
(* Lines and their texts. *)

LEMMA BytesAt ==
  ASSUME NEW q \in Seq(Byte), NEW i \in 1..Len(q)
  PROVE  q[i] \in Byte
OBVIOUS

LEMMA AppendAt ==
  ASSUME NEW q \in Seq(Byte), NEW b \in Byte
  PROVE  /\ Append(q, b) \in Seq(Byte) /\ Len(Append(q, b)) = Len(q) + 1
         /\ Append(q, b)[Len(q) + 1] = b
         /\ \A i \in 1..Len(q) : Append(q, b)[i] = q[i]
OBVIOUS

LEMMA TailAt ==
  ASSUME NEW q \in Seq(Byte), q # <<>>
  PROVE  /\ Tail(q) \in Seq(Byte) /\ Len(Tail(q)) = Len(q) - 1 /\ Len(q) > 0
         /\ Head(q) = q[1] /\ Head(q) \in Byte
         /\ \A i \in 1..Len(Tail(q)) : Tail(q)[i] = q[i + 1]
OBVIOUS

LEMMA PartAt ==
  ASSUME NEW q \in Seq(Byte), NEW m \in Nat, NEW n \in Nat, m <= n, n <= Len(q)
  PROVE  /\ SubSeq(q, m + 1, n) \in Seq(Byte) /\ Len(SubSeq(q, m + 1, n)) = n - m
         /\ \A i \in 1..(n - m) : SubSeq(q, m + 1, n)[i] = q[m + i]
BY SubSeqProperties

LEMMA JoinAt ==
  ASSUME NEW q \in Seq(Byte), NEW r \in Seq(Byte)
  PROVE  /\ q \o r \in Seq(Byte) /\ Len(q \o r) = Len(q) + Len(r)
         /\ \A i \in 1..Len(q) : (q \o r)[i] = q[i]
         /\ \A i \in 1..Len(r) : (q \o r)[Len(q) + i] = r[i]
OBVIOUS

LEMMA SameSequence ==
  ASSUME NEW q \in Seq(Byte), NEW r \in Seq(Byte), Len(q) = Len(r),
         \A i \in 1..Len(q) : q[i] = r[i]
  PROVE  q = r
BY SeqEqual

LEMMA OneByte ==
  ASSUME NEW q \in Seq(Byte), Len(q) = 1
  PROVE  q = <<q[1]>>
OBVIOUS

LEMMA TwoBytes ==
  ASSUME NEW q \in Seq(Byte), Len(q) = 2
  PROVE  q = <<q[1], q[2]>>
OBVIOUS

LEMMA ShortOnes ==
  ASSUME NEW q \in {<<LF>>, <<CR>>, <<CR, LF>>}
  PROVE  Len(q) <= 2 /\ (Len(q) = 2 => q[1] = CR /\ q[2] = LF)
<1>1. CASE q = <<LF>>
  BY <1>1
<1>2. CASE q = <<CR>>
  BY <1>2
<1>3. CASE q = <<CR, LF>>
  BY <1>3
<1> QED BY <1>1, <1>2, <1>3

\* A set of numbers that is not empty has a least one.
LEMMA LeastOf ==
  ASSUME NEW S \in SUBSET Nat, S # {}
  PROVE  \E m \in S : \A i \in S : m <= i
<1> DEFINE R == OpToRel(<, Nat)
<1>1. \E m \in S : \A i \in S : ~(<<i, m>> \in R)
  BY NatLessThanWellFounded, WFMin
<1>2. \A i, m \in Nat : i < m => <<i, m>> \in R
  BY DEF OpToRel
<1>3. PICK m \in S : \A i \in S : ~(<<i, m>> \in R)
  BY <1>1
<1> HIDE DEF R
<1>4. ASSUME NEW i \in S PROVE m <= i
  <2>1. m \in Nat /\ i \in Nat
    OBVIOUS
  <2>2. ~(i < m)
    BY <1>2, <1>3, <2>1
  <2> QED BY <2>1, <2>2
<1> QED BY <1>4

\* n buffers are no part of a buffer over.
LEMMA WholeBuffers ==
  ASSUME NEW n \in Nat
  PROVE  (n * LineSize) % LineSize = 0
<1> DEFINE k == n * LineSize
           d == k \div LineSize
           m == k % LineSize
<1>1. LineSize \in Nat /\ LineSize > 0 /\ k \in Nat
  BY RequestConstants
<1>2. k = LineSize * d + m /\ m \in 0..(LineSize - 1) /\ d \in Nat
  <2> HIDE DEF k
  <2> QED BY <1>1
<1>3. m = (n - d) * LineSize
  <2> HIDE DEF d, m
  <2> QED BY <1>1, <1>2
<1>4. CASE n = d
  <2> HIDE DEF d, m
  <2> QED BY <1>1, <1>3, <1>4
<1>5. CASE n > d
  <2>1. n - d >= 1
    BY <1>2, <1>5
  <2>2. (n - d) * LineSize >= LineSize
    <3> HIDE DEF d
    <3> QED BY <1>1, <1>2, <2>1
  <2> QED BY <1>1, <1>2, <1>3, <2>2
<1>6. CASE n < d
  <2>1. (d - n) * LineSize >= LineSize
    <3> HIDE DEF d
    <3> QED BY <1>1, <1>2, <1>6
  <2>2. (n - d) * LineSize = -((d - n) * LineSize)
    <3> HIDE DEF d
    <3> QED BY <1>1, <1>2
  <2> QED BY <1>1, <1>2, <1>3, <2>1, <2>2
<1> QED BY <1>2, <1>4, <1>5, <1>6

\* The bytes of a line that has been read up to e are counted.
LEMMA TextCounts ==
  ASSUME request \in Seq(Byte), NEW s \in Nat, NEW e \in Nat, NEW k \in Nat,
         s <= e, e <= k, k <= Len(request), Bare(s, e)
  PROVE  LET n == Cardinality({i \in s + 1..k : request[i] \notin {CR, LF}})
         IN  /\ n \in Nat /\ n >= e - s /\ n <= k - s
             /\ (\A i \in e + 1..k : request[i] \in {CR, LF}) => n = e - s
<1> DEFINE T == {i \in s + 1..k : request[i] \notin {CR, LF}}
           R == s + 1..e
<1>1. IsFiniteSet(s + 1..k) /\ Cardinality(s + 1..k) = k - s
  <2>1. s + 1 \in Int /\ k \in Int
    OBVIOUS
  <2>2. Cardinality(s + 1..k) = IF s + 1 > k THEN 0 ELSE k - (s + 1) + 1
    BY <2>1, FS_Interval
  <2>3. IsFiniteSet(s + 1..k)
    BY <2>1, FS_Interval
  <2> QED BY <2>2, <2>3
<1>2. IsFiniteSet(R) /\ Cardinality(R) = e - s
  <2>1. s + 1 \in Int /\ e \in Int
    OBVIOUS
  <2>2. Cardinality(s + 1..e) = IF s + 1 > e THEN 0 ELSE e - (s + 1) + 1
    BY <2>1, FS_Interval
  <2>3. IsFiniteSet(s + 1..e)
    BY <2>1, FS_Interval
  <2> QED BY <2>2, <2>3
<1>3. R \subseteq T /\ T \subseteq s + 1..k
  BY DEF Bare
<1>4. IsFiniteSet(T) /\ Cardinality(T) \in Nat /\ Cardinality(T) <= k - s /\ Cardinality(T) >= e - s
  <2> HIDE DEF T, R
  <2>1. IsFiniteSet(T) /\ Cardinality(T) <= Cardinality(s + 1..k)
    BY <1>1, <1>3, FS_Subset
  <2>2. Cardinality(R) <= Cardinality(T)
    BY <2>1, <1>3, FS_Subset
  <2> QED BY <1>1, <1>2, <2>1, <2>2, FS_CardinalityType
<1>5. ASSUME \A i \in e + 1..k : request[i] \in {CR, LF} PROVE T = R
  BY <1>3, <1>5
<1> QED BY <1>2, <1>4, <1>5

\* Between the start and the end of a line there is no other end.
LEMMA NoEndBetween ==
  ASSUME request \in Seq(Byte), NEW s \in Nat, NEW e \in Nat, NEW k \in Nat,
         Bare(s, e), EndAt(e, k)
  PROVE  /\ k > e /\ k \in DOMAIN request
         /\ \A i \in s + 1..k - 1 : ~EndsLine(request, i)
         /\ \A i \in e + 1..k : request[i] \in {CR, LF}
<1>1. \A i \in s + 1..e : ~EndsLine(request, i)
  BY DEF Bare, EndsLine
<1>2. CASE k = e + 1
  BY <1>1, <1>2 DEF EndAt, EndsLine
<1>3. CASE k = e + 2 /\ request[e + 1] = CR /\ request[k] = LF
  <2>1. ~EndsLine(request, e + 1)
    BY <1>3 DEF EndAt, EndsLine, CR, LF
  <2> QED BY <1>1, <1>3, <2>1 DEF EndAt
<1> QED BY <1>2, <1>3 DEF EndAt

\* The text of such a line has the bytes up to e.
LEMMA LineText ==
  ASSUME request \in Seq(Byte), NEW s \in Nat, NEW e \in Nat, NEW k \in Nat,
         s <= e, e <= Len(request), Bare(s, e), EndAt(e, k)
  PROVE  /\ Text(request, s, k) \in Seq(Byte) /\ Len(Text(request, s, k)) = e - s
         /\ \A i \in 1..(e - s) : Text(request, s, k)[i] = request[s + i]
<1>1. e <= k /\ k <= Len(request)
  BY DEF EndAt
<1>2. Text(request, s, k) = SubSeq(request, s + 1, e)
  <2> DEFINE n == Cardinality({i \in s + 1..k : request[i] \notin {CR, LF}})
  <2>1. n = e - s
    BY <1>1, TextCounts, NoEndBetween
  <2>2. s + n = e
    <3> HIDE DEF n
    <3> QED BY <2>1
  <2> QED BY <2>2 DEF Text
<1> QED BY <1>1, <1>2, PartAt

\* An empty line behind another ends the head, and it is the only kind that does.
LEMMA EmptyLineEnds ==
  ASSUME request \in Seq(Byte), NEW s \in Nat, NEW e \in Nat, NEW k \in Nat,
         s <= e, Started(s), Bare(s, e), EndAt(e, k)
  PROVE  EndsHead(request, k) <=> s = e /\ s > 0
<1>1. k \in DOMAIN request /\ k > e /\ Len(request) \in Nat /\ DOMAIN request = 1..Len(request)
  BY DEF EndAt
<1>2. ASSUME s = e, s > 0 PROVE EndsHead(request, k)
  <2>1. s \in 1..k - 1 /\ EndsLine(request, s)
    BY <1>1, <1>2 DEF Started
  <2>2. CASE k = s + 1
    <3>1. Len(SubSeq(request, s + 1, k)) = 1 /\ SubSeq(request, s + 1, k)[1] = request[k]
          /\ SubSeq(request, s + 1, k) \in Seq(Byte)
      BY <1>1, <2>2, PartAt
    <3>2. SubSeq(request, s + 1, k) = <<request[k]>>
      BY <3>1, OneByte
    <3>3. request[k] \in {CR, LF}
      BY DEF EndAt, EndsLine
    <3> QED BY <1>1, <2>1, <3>2, <3>3 DEF EndsHead, EndAt
  <2>3. CASE k = s + 2 /\ request[s + 1] = CR /\ request[k] = LF
    <3>1. /\ Len(SubSeq(request, s + 1, k)) = 2
          /\ SubSeq(request, s + 1, k)[1] = request[s + 1] /\ SubSeq(request, s + 1, k)[2] = request[s + 2]
          /\ SubSeq(request, s + 1, k) \in Seq(Byte)
      BY <1>1, <2>3, PartAt
    <3>2. SubSeq(request, s + 1, k) = <<CR, LF>>
      BY <2>3, <3>1, TwoBytes
    <3> QED BY <1>1, <2>1, <3>2 DEF EndsHead, EndAt
  <2> QED BY <1>2, <2>2, <2>3 DEF EndAt
<1>3. ASSUME EndsHead(request, k) PROVE s = e /\ s > 0
  <2>1. PICK j \in 1..k - 1 :
          EndsLine(request, j) /\ SubSeq(request, j + 1, k) \in {<<LF>>, <<CR>>, <<CR, LF>>}
    BY <1>3 DEF EndsHead
  <2>2. j <= s /\ j \in Nat /\ j > 0
    BY <1>1, <2>1, NoEndBetween
  <2>3. Len(SubSeq(request, j + 1, k)) = k - j
    BY <1>1, <2>1, <2>2, PartAt
  <2>4. k - j <= 2
    BY <2>1, <2>2, <2>3, <1>1, ShortOnes
  <2>5. CASE k = e + 1
    <3>1. CASE j = k - 1
      BY <1>1, <2>2, <2>5, <3>1
    <3>2. CASE j = k - 2
      <4>1. Len(SubSeq(request, j + 1, k)) = 2
        BY <1>1, <2>2, <2>3, <3>2
      <4>2. SubSeq(request, j + 1, k)[1] = CR /\ SubSeq(request, j + 1, k)[2] = LF
        BY <2>1, <4>1, ShortOnes
      <4>3. /\ SubSeq(request, j + 1, k)[1] = request[j + 1]
            /\ SubSeq(request, j + 1, k)[2] = request[j + 2]
        BY <1>1, <2>1, <2>2, <3>2, PartAt
      <4>4. request[k - 1] = CR /\ request[k] = LF
        <5>1. j + 1 = k - 1 /\ j + 2 = k
          BY <1>1, <2>2, <3>2
        <5> QED BY <4>2, <4>3, <5>1
      <4>5. s >= k - 1
        BY <1>1, <2>5, <4>4 DEF Bare
      <4>6. s = k - 1 /\ s \in DOMAIN request
        BY <1>1, <2>5, <2>2, <4>5
      <4>7. ~EndsLine(request, s)
        BY <1>1, <4>4, <4>6 DEF EndsLine, CR, LF
      <4> QED BY <2>2, <4>6, <4>7 DEF Started
    <3> QED BY <1>1, <2>2, <2>4, <3>1, <3>2
  <2>6. CASE k = e + 2
    BY <1>1, <2>2, <2>4, <2>6
  <2> QED BY <2>5, <2>6 DEF EndAt
<1> QED BY <1>2, <1>3

-----------------------------------------------------------------------------
(* Bytes that arrive and bytes that are taken. *)

LEMMA RequestStarts ==
  RequestInit => RequestInv
<1> SUFFICES ASSUME RequestInit PROVE RequestInv
  OBVIOUS
<1>1. RequestTypes
  <2>1. request \in Seq(Byte)
    <3>1. request \in Seq(STRING)
      BY RequestConstants DEF RequestInit
    <3>2. \A i \in 1..Len(request) : request[i] \in Byte
      BY <3>1 DEF Byte
    <3> QED BY <3>1, <3>2
  <2>2. <<>> \in Seq(Byte)
    OBVIOUS
  <2> QED BY <2>1, <2>2 DEF RequestInit, RequestTypes
<1>2. Consumed = 0
  BY <1>1 DEF RequestInit, Consumed, RequestTypes
<1>3. StreamKept
  BY <1>1, <1>2 DEF RequestInit, StreamKept, RequestTypes
<1>4. InLine
  <2>1. Chunk(0, 0, 0, 0)
    BY <1>1, RequestConstants DEF RequestInit, Chunk, Started, Bare, NoHead, RequestTypes
  <2> QED BY <1>2, <2>1, RequestConstants DEF RequestInit, InLine
<1> QED BY <1>1, <1>3, <1>4
        DEF RequestInv, RequestInit, ReadExactly, LineKept, HeadFound, Reading, AnswerFits

LEMMA SameRequest ==
  ASSUME request' = request
  PROVE  /\ \A s, e : Bare(s, e)' = Bare(s, e) /\ EndAt(s, e)' = EndAt(s, e)
         /\ \A s : Started(s)' = Started(s) /\ NoHead(s)' = NoHead(s)
         /\ LinesFit(request)' = LinesFit(request)
         /\ HeadEnds(request)' = HeadEnds(request)
         /\ FirstEnds(request)' = FirstEnds(request)
         /\ StartLine(request)' = StartLine(request)
<1>1. \A s, e : Bare(s, e)' = Bare(s, e)
  BY DEF Bare
<1>2. \A i : EndsLine(request, i)' = EndsLine(request, i)
  BY DEF EndsLine
<1>3. \A i : EndsHead(request, i)' = EndsHead(request, i)
  BY <1>2 DEF EndsHead
<1>4. \A s, e : EndAt(s, e)' = EndAt(s, e)
  BY <1>2 DEF EndAt
<1>5. \A s : Started(s)' = Started(s)
  BY <1>2 DEF Started
<1>6. \A s : NoHead(s)' = NoHead(s)
  BY <1>3 DEF NoHead
<1>7. \A i, j : Text(request, i, j)' = Text(request, i, j)
  BY DEF Text
<1>8. LinesFit(request)' = LinesFit(request)
  BY <1>2, <1>7 DEF LinesFit
<1>9. HeadEnds(request)' = HeadEnds(request)
  BY <1>3 DEF HeadEnds
<1>10. FirstEnds(request)' = FirstEnds(request)
  BY <1>2 DEF FirstEnds
<1>11. StartLine(request)' = StartLine(request)
  BY <1>7, <1>10 DEF StartLine
<1> QED BY <1>1, <1>4, <1>5, <1>6, <1>8, <1>9, <1>10, <1>11

\* What get_line has of a line does not change when pc and buf do not.
LEMMA SameChunk ==
  ASSUME request' = request, buf' = buf, pc' = pc,
         NEW s, NEW e, NEW q, NEW n, Chunk(s, e, q, n)
  PROVE  Chunk(s, e, q, n)'
BY SameRequest DEF Chunk

\* Another byte, of the line or for its end.
LEMMA LongerChunk ==
  ASSUME RequestTypes, request' = request, pc' = pc, NEW b \in Byte, buf' = Append(buf, b),
         NEW s \in Nat, NEW q \in Nat, NEW e \in Nat, NEW n \in Nat, n = Len(buf),
         Chunk(s, e, q, n)
  PROVE  /\ Len(buf') = n + 1 /\ buf'[n + 1] = b
         /\ Chunk(s, e, q, n)'
         /\ e < Len(request) /\ request[e + 1] = b /\ b \notin {CR, LF} =>
              Chunk(s, e + 1, q, n + 1)'
<1>1. Len(buf') = n + 1 /\ buf'[n + 1] = b /\ \A i \in 1..n : buf'[i] = buf[i]
  BY AppendAt DEF RequestTypes
<1>2. Chunk(s, e, q, n)'
  BY <1>1, SameRequest DEF Chunk
<1>3. ASSUME e < Len(request), request[e + 1] = b, b \notin {CR, LF}
      PROVE  Chunk(s, e + 1, q, n + 1)'
  <2>1. e = s + q * LineSize + n /\ q * LineSize \in Nat
    BY RequestConstants DEF Chunk
  <2>2. e + 1 = s + q * LineSize + (n + 1)
    BY <2>1
  <2>3. Bare(s, e + 1)
    <3> SUFFICES ASSUME NEW i \in s + 1..e + 1 PROVE request[i] \notin {CR, LF}
      BY DEF Bare
    <3> QED BY <1>3 DEF Chunk, Bare
  <2>4. \A i \in 1..n + 1 : buf'[i] = request[(e + 1) - (n + 1) + i]
    <3> TAKE i \in 1..n + 1
    <3>1. (e + 1) - (n + 1) + i = e - n + i
      OBVIOUS
    <3>2. CASE i = n + 1
      <4>1. e - n + i = e + 1
        BY <3>2
      <4> QED BY <1>1, <1>3, <3>1, <3>2, <4>1
    <3>3. CASE i \in 1..n
      BY <1>1, <3>1, <3>3 DEF Chunk
    <3> QED BY <3>2, <3>3
  <2>5. e + 1 <= Len(request)
    BY <1>3 DEF RequestTypes
  <2>6. Started(s) /\ NoHead(s) /\ (pc = "requestLine" => s = 0 /\ q = 0) /\ (pc = "header" => s > 0 \/ q > 0)
    BY DEF Chunk
  <2> QED BY <2>2, <2>3, <2>4, <2>5, <2>6, SameRequest DEF Chunk
<1> QED BY <1>1, <1>2, <1>3

LEMMA ArriveKeeps ==
  ASSUME RequestInv, Arrive
  PROVE  RequestInv'
<1>1. PICK n \in 1..Len(toCome) :
        /\ arrived' = arrived \o SubSeq(toCome, 1, n)
        /\ toCome' = SubSeq(toCome, n + 1, Len(toCome))
        /\ UNCHANGED <<client, pc, peek, buf, line, answer>>
  BY DEF Arrive
<1> DEFINE a == SubSeq(toCome, 1, n)
           b == SubSeq(toCome, n + 1, Len(toCome))
<1>0. RequestTypes /\ StreamKept /\ Len(toCome) \in Nat /\ Len(arrived) \in Nat /\ Len(request) \in Nat
      /\ n \in Nat /\ n <= Len(toCome)
  BY DEF RequestInv, RequestTypes
<1>2. a \in Seq(Byte) /\ Len(a) = n /\ \A i \in 1..n : a[i] = toCome[i]
  <2>1. /\ SubSeq(toCome, 0 + 1, n) \in Seq(Byte) /\ Len(SubSeq(toCome, 0 + 1, n)) = n - 0
        /\ \A i \in 1..(n - 0) : SubSeq(toCome, 0 + 1, n)[i] = toCome[0 + i]
    BY <1>0, PartAt DEF RequestTypes
  <2>2. 0 + 1 = 1 /\ n - 0 = n /\ \A i \in 1..n : 0 + i = i
    BY <1>0
  <2> QED BY <2>1, <2>2
<1>3. b \in Seq(Byte) /\ Len(b) = Len(toCome) - n /\ \A i \in 1..(Len(toCome) - n) : b[i] = toCome[n + i]
  BY <1>0, PartAt DEF RequestTypes
<1> HIDE DEF a, b
<1>4. /\ arrived' \in Seq(Byte) /\ Len(arrived') = Len(arrived) + n
      /\ \A i \in 1..Len(arrived) : arrived'[i] = arrived[i]
      /\ \A i \in 1..n : arrived'[Len(arrived) + i] = a[i]
  BY <1>0, <1>1, <1>2, JoinAt DEF RequestTypes, a
<1>5. toCome' = b /\ request' = request /\ closes' = closes
  BY <1>1 DEF client, b
<1>6. RequestTypes'
  BY <1>0, <1>1, <1>3, <1>4, <1>5 DEF RequestTypes
<1>7. Consumed' = Consumed
  <2>0. Len(arrived') = Len(arrived) + n /\ Len(toCome') = Len(toCome) - n
    BY <1>3, <1>4, <1>5
  <2>1. Len(arrived') + Len(toCome') = Len(arrived) + Len(toCome)
    BY <1>0, <2>0
  <2>2. Len(arrived') \in Nat /\ Len(toCome') \in Nat
    BY <1>0, <1>3, <1>4, <1>5
  <2> QED BY <1>0, <1>5, <2>1, <2>2 DEF Consumed
<1>8. StreamKept'
  <2>1. PICK k \in Nat : k = Consumed
    BY <1>0 DEF StreamKept
  <2>2. ASSUME NEW i \in 1..Len(arrived') PROVE arrived'[i] = request[k + i]
    <3>1. CASE i \in 1..Len(arrived)
      BY <1>0, <1>4, <2>1, <3>1 DEF StreamKept
    <3>2. CASE i > Len(arrived)
      <4>1. i - Len(arrived) \in 1..n /\ Len(arrived) + (i - Len(arrived)) = i
        BY <1>0, <1>4, <3>2
      <4>2. arrived'[i] = toCome[i - Len(arrived)]
        BY <1>2, <1>4, <4>1
      <4>3. i - Len(arrived) \in 1..Len(toCome) /\ k + Len(arrived) + (i - Len(arrived)) = k + i
        BY <1>0, <2>1, <4>1
      <4>4. toCome[i - Len(arrived)] = request[k + Len(arrived) + (i - Len(arrived))]
        BY <1>0, <2>1, <4>3 DEF StreamKept
      <4> QED BY <4>2, <4>3, <4>4
    <3> QED BY <1>0, <1>4, <3>1, <3>2
  <2>3. ASSUME NEW i \in 1..Len(toCome') PROVE toCome'[i] = request[k + Len(arrived') + i]
    <3>1. toCome'[i] = toCome[n + i] /\ n + i \in 1..Len(toCome)
      BY <1>0, <1>3, <1>5
    <3>2. toCome[n + i] = request[k + Len(arrived) + (n + i)]
      BY <1>0, <2>1, <3>1 DEF StreamKept
    <3>3. k + Len(arrived) + (n + i) = k + Len(arrived') + i
      BY <1>0, <1>4, <2>1
    <3> QED BY <3>1, <3>2, <3>3
  <2> QED BY <1>5, <1>7, <2>1, <2>2, <2>3 DEF StreamKept
<1>9. ReadExactly'
  <2>1. (InLine => InLine') /\ (AtCR => AtCR') /\ (AtEnd => AtEnd') /\ (CutOff => CutOff')
    BY <1>1, <1>5, <1>7, SameChunk, SameRequest DEF InLine, AtCR, AtEnd, CutOff
  <2> QED BY <1>1, <2>1 DEF RequestInv, ReadExactly, Reading
<1>10. LineKept' /\ HeadFound'
  BY <1>1, <1>5, <1>7, SameRequest DEF RequestInv, LineKept, HeadFound
<1>11. AnswerFits'
  BY <1>1, <1>5 DEF RequestInv, AnswerFits
<1> QED BY <1>1, <1>6, <1>8, <1>9, <1>10, <1>11 DEF RequestInv, Reading

\* A byte less of what has arrived.
LEMMA ByteTaken ==
  ASSUME RequestTypes, StreamKept, arrived # <<>>, arrived' = Tail(arrived),
         UNCHANGED <<request, toCome>>
  PROVE  /\ Consumed' = Consumed + 1 /\ Consumed \in Nat /\ Consumed < Len(request)
         /\ Head(arrived) = request[Consumed + 1] /\ Head(arrived) \in Byte
         /\ arrived' \in Seq(Byte) /\ StreamKept'
<1>1. /\ arrived' \in Seq(Byte) /\ Len(arrived') = Len(arrived) - 1 /\ Len(arrived) > 0
      /\ Head(arrived) = arrived[1] /\ Head(arrived) \in Byte
      /\ \A i \in 1..Len(arrived') : arrived'[i] = arrived[i + 1]
  BY TailAt DEF RequestTypes
<1>2. Len(toCome) \in Nat /\ Len(arrived) \in Nat /\ Len(request) \in Nat
  BY DEF RequestTypes
<1>3. Consumed' = Consumed + 1 /\ Consumed \in Nat /\ Consumed < Len(request)
  BY <1>1, <1>2 DEF Consumed, StreamKept
<1>4. Head(arrived) = request[Consumed + 1]
  BY <1>1, <1>2 DEF StreamKept
<1>5. StreamKept'
  <2>0. PICK k \in Nat : k = Consumed
    BY <1>3
  <2>1. ASSUME NEW i \in 1..Len(arrived') PROVE arrived'[i] = request[k + 1 + i]
    <3>1. arrived'[i] = arrived[i + 1] /\ i + 1 \in 1..Len(arrived)
      BY <1>1, <1>2
    <3>2. arrived[i + 1] = request[k + (i + 1)]
      BY <2>0, <3>1 DEF StreamKept
    <3>3. k + (i + 1) = k + 1 + i
      OBVIOUS
    <3> QED BY <3>1, <3>2, <3>3
  <2>2. ASSUME NEW i \in 1..Len(toCome) PROVE toCome[i] = request[k + 1 + Len(arrived') + i]
    <3>1. toCome[i] = request[k + Len(arrived) + i]
      BY <2>0 DEF StreamKept
    <3>2. k + Len(arrived) + i = k + 1 + Len(arrived') + i
      BY <1>1, <1>2
    <3> QED BY <3>1, <3>2
  <2> QED BY <1>3, <2>0, <2>1, <2>2 DEF StreamKept
<1> QED BY <1>1, <1>3, <1>4, <1>5

LEMMA LFNotCR == CR \in Byte /\ LF \in Byte /\ CR # LF
<1>1. CR \in Byte /\ LF \in Byte
  BY DEF Byte
<1>2. CR # LF
  BY DEF CR, LF
<1> QED BY <1>1, <1>2

LEMMA RecvByteKeeps ==
  ASSUME RequestInv, RecvByte
  PROVE  RequestInv'
<1> DEFINE b == Head(arrived)
<1>1. /\ Reading /\ ~LineRead /\ ~peek /\ arrived # <<>> /\ arrived' = Tail(arrived)
      /\ peek' = (b = CR) /\ buf' = (IF b = CR THEN buf ELSE Append(buf, b))
      /\ UNCHANGED <<request, closes, toCome, pc, line, answer>>
  BY DEF RecvByte, client
<1>2. RequestTypes /\ StreamKept
  BY DEF RequestInv
<1>3. PICK k \in Nat, c \in Byte :
        /\ k = Consumed /\ Consumed' = k + 1 /\ k < Len(request) /\ c = b
        /\ c = request[k + 1] /\ arrived' \in Seq(Byte) /\ StreamKept'
  BY <1>1, <1>2, ByteTaken
<1> HIDE DEF b
<1>4. Append(buf, c) \in Seq(Byte) /\ Len(Append(buf, c)) = Len(buf) + 1 /\ Len(buf) \in Nat
      /\ Append(buf, c)[Len(buf) + 1] = b
  BY <1>2, <1>3, AppendAt DEF RequestTypes
<1>5. RequestTypes'
  BY <1>1, <1>2, <1>3, <1>4 DEF RequestTypes
<1>6. InLine /\ Len(buf) < LineSize
  <2>1. ~AtCR
    BY <1>1 DEF AtCR
  <2>2. ~AtEnd
    <3>1. ASSUME AtEnd PROVE LineRead
      BY <1>4, <3>1 DEF AtEnd, LineRead, Last
    <3> QED BY <1>1, <3>1
  <2>3. ~CutOff
    BY <1>2, <1>3 DEF CutOff, RequestTypes
  <2>4. InLine
    BY <1>1, <2>1, <2>2, <2>3 DEF RequestInv, ReadExactly
  <2> QED BY <1>1, <1>4, <2>4, RequestConstants DEF InLine, LineRead
<1>7. PICK s \in Nat, q \in Nat, n \in Nat : n = Len(buf) /\ Chunk(s, k, q, n)
  BY <1>3, <1>4, <1>6 DEF InLine
<1>8. ReadExactly'
  <2>1. CASE c = CR
    <3>1. buf' = buf /\ peek'
      BY <1>1, <1>3, <2>1
    <3>2. Chunk(s, k, q, n)'
      BY <1>1, <1>7, <3>1, SameChunk
    <3>3. AtCR'
      BY <1>1, <1>3, <1>6, <1>7, <2>1, <3>1, <3>2 DEF AtCR
    <3> QED BY <3>3 DEF ReadExactly
  <2>2. CASE c = LF
    <3>1. buf' = Append(buf, c) /\ ~peek'
      BY <1>1, <1>3, <2>2, LFNotCR
    <3>2. Len(buf') = n + 1 /\ buf'[n + 1] = LF /\ Chunk(s, k, q, n)'
      <4>1. request' = request /\ pc' = pc
        BY <1>1
      <4> QED BY <1>2, <1>7, <2>2, <3>1, <4>1, LongerChunk
    <3>3. EndAt(k, k + 1)
      <4>1. EndsLine(request, k + 1)
        BY <1>3, <2>2 DEF EndsLine
      <4> QED BY <1>2, <1>3, <4>1 DEF EndAt, RequestTypes
    <3>4. EndAt(k, k + 1)'
      BY <1>1, <3>3, SameRequest
    <3>5. Len(buf') - 1 = n /\ Len(buf') > 0 /\ Len(buf') <= LineSize
      BY <1>6, <1>7, <3>2, RequestConstants
    <3>6. AtEnd'
      BY <1>3, <3>1, <3>2, <3>4, <3>5 DEF AtEnd
    <3> QED BY <3>6 DEF ReadExactly
  <2>3. CASE c \notin {CR, LF}
    <3>1. buf' = Append(buf, c) /\ ~peek'
      BY <1>1, <1>3, <2>3
    <3>2. Len(buf') = n + 1 /\ Chunk(s, k + 1, q, n + 1)'
      <4>1. request' = request /\ pc' = pc
        BY <1>1
      <4> QED BY <1>2, <1>3, <1>7, <2>3, <3>1, <4>1, LongerChunk
    <3>3. Len(buf') <= LineSize
      BY <1>6, <1>7, <3>2, RequestConstants
    <3>4. InLine'
      BY <1>3, <3>1, <3>2, <3>3 DEF InLine
    <3> QED BY <3>4 DEF ReadExactly
  <2> QED BY <2>1, <2>2, <2>3
<1>9. LineKept' /\ HeadFound'
  BY <1>1, SameRequest DEF RequestInv, LineKept, HeadFound, Reading
<1>10. AnswerFits'
  BY <1>1 DEF RequestInv, AnswerFits
<1> QED BY <1>1, <1>3, <1>5, <1>8, <1>9, <1>10 DEF RequestInv, Reading

LEMMA PeekByteKeeps ==
  ASSUME RequestInv, PeekByte
  PROVE  RequestInv'
<1> DEFINE taken == arrived # <<>> /\ Head(arrived) = LF
<1>1. /\ peek /\ (arrived # <<>> \/ EndOfStream) /\ peek' = FALSE /\ buf' = Append(buf, LF)
      /\ arrived' = IF taken THEN Tail(arrived) ELSE arrived
      /\ UNCHANGED <<request, closes, toCome, pc, line, answer>>
  BY DEF PeekByte, AfterPeek, client
<1>2. RequestTypes /\ StreamKept /\ Reading
  BY <1>1 DEF RequestInv
<1>3. AtCR
  BY <1>1, <1>2 DEF RequestInv, ReadExactly, InLine, AtEnd, CutOff
<1>4. PICK k \in Nat : k = Consumed /\ k > 0 /\ k <= Len(request) /\ request[k] = CR
  <2>1. Consumed \in Nat /\ Consumed > 0 /\ request[Consumed] = CR
    BY <1>2, <1>3 DEF AtCR, StreamKept
  <2>2. Consumed <= Len(request)
    BY <1>2 DEF Consumed, RequestTypes
  <2> QED BY <2>1, <2>2
<1>5. PICK s \in Nat, q \in Nat, n \in Nat : n = Len(buf) /\ Chunk(s, k - 1, q, n)
  BY <1>2, <1>3, <1>4 DEF AtCR, RequestTypes
<1>6. /\ arrived' \in Seq(Byte) /\ StreamKept' /\ Consumed' \in Nat
      /\ taken => Consumed' = k + 1 /\ k < Len(request) /\ request[k + 1] = LF
      /\ ~taken => Consumed' = k /\ (k = Len(request) \/ request[k + 1] # LF)
  <2>1. CASE taken
    BY <1>1, <1>2, <1>4, <2>1, ByteTaken
  <2>2. CASE ~taken
    <3>1. Consumed' = k /\ StreamKept'
      BY <1>1, <1>2, <1>4, <2>2 DEF Consumed, StreamKept
    <3>2. CASE arrived = <<>>
      BY <1>1, <1>2, <1>4, <2>2, <3>1, <3>2 DEF EndOfStream, Consumed, RequestTypes
    <3>3. CASE arrived # <<>>
      <4>1. Head(arrived) = request[k + 1]
        BY <1>2, <1>4, <3>3, TailAt DEF StreamKept, RequestTypes
      <4> QED BY <1>1, <1>2, <1>4, <2>2, <3>1, <3>3, <4>1 DEF RequestTypes
    <3> QED BY <3>2, <3>3
  <2> QED BY <2>1, <2>2
<1> HIDE DEF taken
<1>7. PICK j \in Nat : j = Consumed' /\ EndAt(k - 1, j)
  <2>1. CASE taken
    <3>1. EndsLine(request, k + 1)
      BY <1>6, <2>1 DEF EndsLine
    <3>2. EndAt(k - 1, k + 1)
      <4>1. k - 1 + 1 = k /\ k - 1 + 2 = k + 1
        OBVIOUS
      <4> QED BY <1>2, <1>4, <1>6, <2>1, <3>1, <4>1 DEF EndAt, RequestTypes
    <3> QED BY <1>6, <2>1, <3>2
  <2>2. CASE ~taken
    <3>1. EndsLine(request, k)
      BY <1>4, <1>6, <2>2 DEF EndsLine
    <3>2. EndAt(k - 1, k)
      BY <1>2, <1>4, <3>1 DEF EndAt
    <3> QED BY <1>6, <2>2, <3>2
  <2> QED BY <2>1, <2>2
<1>8. Append(buf, LF) \in Seq(Byte) /\ Len(Append(buf, LF)) = Len(buf) + 1 /\ Len(buf) \in Nat
      /\ Append(buf, LF)[Len(buf) + 1] = LF
  BY <1>2, LFNotCR, AppendAt DEF RequestTypes
<1>9. RequestTypes'
  BY <1>1, <1>2, <1>6, <1>8 DEF RequestTypes
<1>10. AtEnd'
  <2>1. k - 1 \in Nat
    BY <1>4
  <2>2. Len(buf') = n + 1 /\ buf'[n + 1] = LF /\ Chunk(s, k - 1, q, n)'
    BY <1>1, <1>2, <1>5, <2>1, LFNotCR, LongerChunk
  <2>3. Len(buf') - 1 = n /\ Len(buf') > 0 /\ Len(buf') <= LineSize
    BY <1>3, <1>5, <2>2, RequestConstants DEF AtCR
  <2>4. EndAt(k - 1, j)'
    BY <1>1, <1>7, SameRequest
  <2> QED BY <1>1, <1>7, <2>1, <2>2, <2>3, <2>4 DEF AtEnd
<1>11. LineKept' /\ HeadFound'
  BY <1>1, <1>2, SameRequest DEF RequestInv, LineKept, HeadFound, Reading
<1>12. AnswerFits'
  BY <1>1 DEF RequestInv, AnswerFits
<1> QED BY <1>1, <1>6, <1>9, <1>10, <1>11, <1>12 DEF RequestInv, ReadExactly, Reading

-----------------------------------------------------------------------------
(* Lines that are returned. *)

LEMMA BuffersCount ==
  ASSUME NEW q \in Nat
  PROVE  /\ LineSize \in Nat /\ LineSize > 0 /\ q * LineSize \in Nat
         /\ (q + 1) * LineSize = q * LineSize + LineSize
         /\ q > 0 => q * LineSize >= LineSize
BY RequestConstants

\* What stands in the buffer of a line that has not ended.
LEMMA ChunkBare ==
  ASSUME NEW s \in Nat, NEW q \in Nat, NEW k \in Nat, NEW n \in Nat, n > 0, Chunk(s, k, q, n)
  PROVE  buf[1] \notin {CR, LF} /\ buf[n] \notin {CR, LF}
<1>1. q * LineSize \in Nat
  BY BuffersCount
<1>2. k = s + q * LineSize + n
  BY DEF Chunk
<1>3. k - n + 1 \in s + 1..k /\ k - n + n \in s + 1..k
  BY <1>1, <1>2
<1>4. buf[1] = request[k - n + 1] /\ buf[n] = request[k - n + n]
  BY DEF Chunk
<1> QED BY <1>3, <1>4 DEF Chunk, Bare

\* A line that has been read so far ends nowhere yet.
LEMMA NoFirstEndYet ==
  ASSUME request \in Seq(Byte), NEW k \in Nat, Bare(0, k), NEW f \in FirstEnds(request)
  PROVE  f > k /\ f \in Nat /\ f <= Len(request)
<1>1. f \in 1..Len(request) /\ EndsLine(request, f)
  BY DEF FirstEnds
<1>2. request[f] \in {CR, LF}
  BY <1>1 DEF EndsLine
<1> QED BY <1>1, <1>2 DEF Bare

\* There is one first line, and it is what stands before its end.
LEMMA StartLineSays ==
  ASSUME request \in Seq(Byte), NEW e \in Nat, NEW k \in Nat,
         e <= Len(request), Bare(0, e), NEW f \in FirstEnds(request)
  PROVE  /\ Len(StartLine(request)) \in Nat /\ Len(StartLine(request)) >= e + 1
         /\ EndAt(e, k) => /\ k = f
                           /\ StartLine(request) \in Seq(Byte)
                           /\ Len(StartLine(request)) = e + 1
                           /\ StartLine(request)[e + 1] = LF
                           /\ \A i \in 1..e : StartLine(request)[i] = request[i]
<1>1. f > e /\ f \in Nat /\ f <= Len(request)
  BY NoFirstEndYet
<1>2. StartLine(request) = Append(Text(request, 0, f), LF)
  <2>1. \A g \in FirstEnds(request) : g = f
    <3> TAKE g \in FirstEnds(request)
    <3>1. g \in Nat /\ f \in Nat /\ g > 0 /\ f > 0 /\ ~(g < f) /\ ~(f < g)
      BY DEF FirstEnds
    <3> QED BY <3>1
  <2>2. (CHOOSE i \in FirstEnds(request) : TRUE) = f
    BY <2>1
  <2> QED BY <2>2 DEF StartLine
<1>3. Len(Text(request, 0, f)) >= e /\ Text(request, 0, f) \in Seq(Byte)
      /\ Len(Text(request, 0, f)) \in Nat
  <2> DEFINE n == Cardinality({i \in 0 + 1..f : request[i] \notin {CR, LF}})
  <2>1. n \in Nat /\ n >= e - 0 /\ n <= f - 0
    BY <1>1, TextCounts
  <2>2. Text(request, 0, f) = SubSeq(request, 0 + 1, 0 + n)
    BY DEF Text
  <2> HIDE DEF n
  <2>3. 0 + n = n /\ n <= Len(request)
    BY <1>1, <2>1
  <2>4. Len(Text(request, 0, f)) = n - 0 /\ Text(request, 0, f) \in Seq(Byte)
    BY <2>1, <2>2, <2>3, PartAt
  <2> QED BY <2>1, <2>4
<1>4. Len(StartLine(request)) \in Nat /\ Len(StartLine(request)) >= e + 1
  BY <1>2, <1>3, AppendAt, LFNotCR
<1>5. ASSUME EndAt(e, k)
      PROVE  /\ k = f /\ StartLine(request) \in Seq(Byte)
             /\ Len(StartLine(request)) = e + 1
             /\ StartLine(request)[e + 1] = LF
             /\ \A i \in 1..e : StartLine(request)[i] = request[i]
  <2>1. k \in 1..Len(request) /\ \A i \in 1..k - 1 : ~EndsLine(request, i)
    <3>1. /\ k > e /\ k \in DOMAIN request
          /\ \A i \in 0 + 1..k - 1 : ~EndsLine(request, i)
      BY <1>5, NoEndBetween
    <3> QED BY <3>1
  <2>2. k = f
    <3>1. EndsLine(request, k) /\ EndsLine(request, f) /\ \A i \in 1..f - 1 : ~EndsLine(request, i)
      BY <1>5 DEF EndAt, FirstEnds
    <3>2. ~(k < f) /\ ~(f < k)
      BY <1>1, <2>1, <3>1
    <3> QED BY <1>1, <2>1, <3>2
  <2>3. /\ Text(request, 0, f) \in Seq(Byte) /\ Len(Text(request, 0, f)) = e
        /\ \A i \in 1..e : Text(request, 0, f)[i] = request[i]
    <3>1. /\ Text(request, 0, k) \in Seq(Byte) /\ Len(Text(request, 0, k)) = e - 0
          /\ \A i \in 1..(e - 0) : Text(request, 0, k)[i] = request[0 + i]
      BY <1>5, LineText
    <3>2. e - 0 = e /\ \A i \in 1..e : 0 + i = i
      OBVIOUS
    <3> QED BY <2>2, <3>1, <3>2
  <2>4. /\ Append(Text(request, 0, f), LF) \in Seq(Byte)
        /\ Len(Append(Text(request, 0, f), LF)) = e + 1
        /\ Append(Text(request, 0, f), LF)[e + 1] = LF
        /\ \A i \in 1..e : Append(Text(request, 0, f), LF)[i] = Text(request, 0, f)[i]
    BY <2>3, AppendAt, LFNotCR
  <2> QED BY <1>2, <2>2, <2>3, <2>4
<1> QED BY <1>4, <1>5

\* The next line starts where one has ended, with an empty buffer.
LEMMA NextLine ==
  ASSUME RequestTypes, request' = request, buf' = <<>>, pc' = "header",
         NEW k \in Nat, k > 0, k <= Len(request), EndsLine(request, k), NoHead(k)
  PROVE  Chunk(k, k, 0, 0)'
<1>1. Started(k) /\ Bare(k, k)
  BY DEF Started, Bare, RequestTypes
<1>2. k = k + 0 * LineSize + 0
  BY RequestConstants
<1> QED BY <1>1, <1>2, SameRequest DEF Chunk

\* A full buffer without its line's end.
LEMMA FullBufferKeeps ==
  ASSUME RequestInv, InLine, Len(buf) = LineSize, Reading,
         RequestLine(buf) \/ HeaderLine(buf), buf' = <<>>, peek' = peek,
         Consumed' = Consumed, request' = request
  PROVE  pc' = "header" /\ ReadExactly' /\ LineKept'
<1>0. RequestTypes /\ StreamKept
  BY DEF RequestInv
<1>1. PICK s \in Nat, q \in Nat, k \in Nat :
        k = Consumed /\ Chunk(s, k, q, LineSize)
  BY <1>0 DEF InLine, StreamKept
<1>2. LineSize \in Nat /\ LineSize > 0 /\ q * LineSize \in Nat
      /\ (q + 1) * LineSize = q * LineSize + LineSize
  BY BuffersCount
<1>3. buf # <<>> /\ buf[1] \notin {CR, LF}
  BY <1>1, <1>2, ChunkBare
<1>4. pc' = "header"
  BY <1>3 DEF RequestLine, HeaderLine
<1>5. InLine'
  <2>1. k = s + (q + 1) * LineSize + 0
    BY <1>1, <1>2 DEF Chunk
  <2>2. Chunk(s, k, q + 1, 0)'
    BY <1>1, <1>4, <2>1, SameRequest DEF Chunk
  <2>3. ~peek'
    BY DEF InLine
  <2> QED BY <1>1, <1>2, <2>2, <2>3 DEF InLine
<1>6. LineKept'
  <2>1. CASE pc = "header"
    <3>1. line' = line
      BY <2>1 DEF RequestLine, HeaderLine
    <3> QED BY <1>4, <2>1, <3>1, SameRequest DEF RequestInv, LineKept
  <2>2. CASE pc = "requestLine"
    <3>1. s = 0 /\ k = LineSize /\ k <= Len(request)
      <4>1. s = 0 /\ q = 0 /\ k = s + q * LineSize + LineSize
        BY <1>1, <2>2 DEF Chunk
      <4> QED BY <1>1, <1>2, <4>1 DEF Chunk
    <3>2. ASSUME NEW f \in FirstEnds(request) PROVE ~(Len(StartLine(request)) <= LineSize)
      <4>1. Len(StartLine(request)) \in Nat /\ Len(StartLine(request)) >= LineSize + 1
        BY <1>0, <1>1, <1>2, <3>1, StartLineSays DEF Chunk, RequestTypes
      <4> QED BY <1>2, <4>1
    <3> QED BY <3>2, SameRequest DEF LineKept
  <2> QED BY <2>1, <2>2 DEF Reading
<1> QED BY <1>4, <1>5, <1>6 DEF ReadExactly

\* The end of the stream, where less than a line is left.
LEMMA EndOfStreamKeeps ==
  ASSUME RequestInv, InLine \/ CutOff, Len(buf) < LineSize, EndOfStream, Reading,
         RequestLine(buf) \/ HeaderLine(buf), buf' = <<>>, peek' = peek,
         Consumed' = Consumed, request' = request
  PROVE  pc' \in {"header", "done"} /\ ReadExactly' /\ LineKept'
<1>0. RequestTypes /\ StreamKept /\ ~peek
  BY DEF RequestInv, InLine, CutOff
<1>1. Consumed = Len(request)
  BY <1>0 DEF EndOfStream, Consumed, RequestTypes
<1>2. buf = <<>> \/ (buf # <<>> /\ buf[1] # LF)
  <2>1. CASE CutOff
    BY <2>1 DEF CutOff
  <2>2. CASE InLine /\ buf # <<>>
    <3>1. Consumed \in Nat /\ Len(buf) \in Nat /\ Len(buf) > 0
      BY <1>0, <2>2 DEF StreamKept, RequestTypes
    <3>2. PICK s \in Nat, q \in Nat : Chunk(s, Consumed, q, Len(buf))
      BY <2>2 DEF InLine
    <3> QED BY <2>2, <3>1, <3>2, ChunkBare
  <2> QED BY <2>1, <2>2
<1>3. CASE pc = "header"
  <2>1. pc' = "header" /\ line' = line
    BY <1>2, <1>3 DEF RequestLine, HeaderLine
  <2>2. CutOff'
    BY <1>0, <1>1, <2>1 DEF CutOff
  <2>3. LineKept'
    BY <1>3, <2>1, SameRequest DEF RequestInv, LineKept
  <2> QED BY <2>1, <2>2, <2>3 DEF ReadExactly
<1>4. CASE pc = "requestLine" /\ buf = <<>>
  <2>1. pc' = "done"
    BY <1>4 DEF RequestLine, HeaderLine
  <2> QED BY <2>1 DEF ReadExactly, LineKept, Reading
<1>5. CASE pc = "requestLine" /\ buf # <<>>
  <2>1. pc' = "header"
    BY <1>5 DEF RequestLine, HeaderLine
  <2>2. CutOff'
    BY <1>0, <1>1, <2>1 DEF CutOff
  <2>3. InLine
    BY <1>5 DEF CutOff
  <2>4. Bare(0, Len(request))
    BY <1>1, <1>5, <2>3 DEF InLine, Chunk
  <2>5. FirstEnds(request) = {}
    BY <1>0, <2>4, NoFirstEndYet DEF RequestTypes
  <2> QED BY <2>1, <2>2, <2>5, SameRequest DEF ReadExactly, LineKept
<1> QED BY <1>3, <1>4, <1>5 DEF Reading

\* The whole of the first line.
LEMMA FirstLineKeeps ==
  ASSUME RequestInv, AtEnd, RequestLine(buf), buf' = <<>>, peek' = peek,
         Consumed' = Consumed, request' = request
  PROVE  pc' = "header" /\ ReadExactly' /\ LineKept'
<1>0. RequestTypes /\ StreamKept /\ pc = "requestLine" /\ Len(buf) > 0 /\ ~peek
  BY DEF RequestInv, RequestLine, AtEnd
<1>1. PICK e \in Nat, k \in Nat, n \in Nat :
        /\ k = Consumed /\ n + 1 = Len(buf) /\ buf[n + 1] = LF
        /\ Chunk(0, e, 0, n) /\ EndAt(e, k)
  <2>1. PICK s \in Nat, q \in Nat, e \in Nat : Chunk(s, e, q, Len(buf) - 1) /\ EndAt(e, Consumed)
    BY DEF AtEnd
  <2>2. s = 0 /\ q = 0
    BY <1>0, <2>1 DEF Chunk
  <2>3. Len(buf) - 1 \in Nat /\ (Len(buf) - 1) + 1 = Len(buf)
    BY <1>0 DEF RequestTypes
  <2>4. Consumed \in Nat
    BY <1>0 DEF StreamKept
  <2> QED BY <2>1, <2>2, <2>3, <2>4 DEF AtEnd
<1>2. e = n /\ e <= Len(request) /\ Bare(0, e) /\ \A i \in 1..e : buf[i] = request[i]
  <2>1. e = 0 + 0 * LineSize + n
    BY <1>1 DEF Chunk
  <2>2. e = n
    BY <2>1, BuffersCount
  <2>3. \A i \in 1..e : buf[i] = request[e - n + i]
    BY <1>1, <2>2 DEF Chunk
  <2> QED BY <1>1, <2>2, <2>3 DEF Chunk
<1>3. pc' = "header" /\ line' = buf
  BY <1>0 DEF RequestLine
<1>4. LineKept'
  <2>1. ASSUME NEW f \in FirstEnds(request) PROVE StartLine(request) = buf
    <3>1. /\ StartLine(request) \in Seq(Byte) /\ Len(StartLine(request)) = e + 1
          /\ StartLine(request)[e + 1] = LF
          /\ \A i \in 1..e : StartLine(request)[i] = request[i]
      BY <1>0, <1>1, <1>2, StartLineSays DEF RequestTypes
    <3>2. \A i \in 1..e + 1 : StartLine(request)[i] = buf[i]
      BY <1>1, <1>2, <3>1
    <3> QED BY <1>0, <1>1, <1>2, <3>1, <3>2, SameSequence DEF RequestTypes
  <2> QED BY <1>3, <2>1, SameRequest DEF LineKept
<1>5. k > 0 /\ k <= Len(request) /\ EndsLine(request, k) /\ \A i \in 1..k - 1 : ~EndsLine(request, i)
  <2>1. /\ k > e /\ k \in DOMAIN request
        /\ \A i \in 0 + 1..k - 1 : ~EndsLine(request, i)
    BY <1>0, <1>1, <1>2, NoEndBetween DEF RequestTypes
  <2> QED BY <1>1, <2>1 DEF EndAt
<1>6. NoHead(k)
  <2> SUFFICES ASSUME NEW i \in 1..k, EndsHead(request, i) PROVE FALSE
    BY DEF NoHead
  <2>1. PICK j \in 1..i - 1 : EndsLine(request, j)
    BY DEF EndsHead
  <2> QED BY <1>5, <2>1
<1>7. Chunk(k, k, 0, 0)'
  BY <1>0, <1>3, <1>5, <1>6, NextLine
<1>8. InLine'
  <2>1. Len(buf') = 0 /\ Len(buf') <= LineSize
    BY BuffersCount
  <2> QED BY <1>0, <1>1, <1>7, <2>1 DEF InLine
<1> QED BY <1>3, <1>4, <1>8 DEF ReadExactly

\* A line of the header ends: the head with it, if it is empty.
LEMMA HeaderLineKeeps ==
  ASSUME RequestInv, AtEnd, HeaderLine(buf), buf' = <<>>, peek' = peek,
         Consumed' = Consumed, request' = request
  PROVE  pc' \in {"header", "request"} /\ ReadExactly' /\ LineKept' /\ HeadFound'
<1>0. RequestTypes /\ StreamKept /\ pc = "header" /\ Len(buf) > 0 /\ ~peek
  BY DEF RequestInv, HeaderLine, AtEnd
<1>1. PICK s \in Nat, q \in Nat, e \in Nat, k \in Nat, n \in Nat :
        /\ k = Consumed /\ n + 1 = Len(buf) /\ buf[n + 1] = LF /\ n < LineSize
        /\ Chunk(s, e, q, n) /\ EndAt(e, k)
  <2>1. PICK s \in Nat, q \in Nat, e \in Nat : Chunk(s, e, q, Len(buf) - 1) /\ EndAt(e, Consumed)
    BY DEF AtEnd
  <2>2. Len(buf) \in Nat /\ Len(buf) > 0 /\ Len(buf) <= LineSize /\ LineSize \in Nat
    BY <1>0, RequestConstants DEF RequestTypes, AtEnd
  <2>3. Len(buf) - 1 \in Nat /\ (Len(buf) - 1) + 1 = Len(buf) /\ Len(buf) - 1 < LineSize
    BY <2>2
  <2>4. Consumed \in Nat
    BY <1>0 DEF StreamKept
  <2> QED BY <2>1, <2>3, <2>4 DEF AtEnd
<1>2. /\ e = s + q * LineSize + n /\ e <= Len(request) /\ Started(s) /\ Bare(s, e) /\ NoHead(s)
      /\ s > 0 \/ q > 0
  BY <1>0, <1>1 DEF Chunk
<1>3. q * LineSize \in Nat /\ (q > 0 => q * LineSize >= LineSize) /\ LineSize > 0 /\ LineSize \in Nat
  BY BuffersCount
<1>4. s <= e
  BY <1>2, <1>3
<1>5. /\ k > e /\ k \in 1..Len(request) /\ EndsLine(request, k)
      /\ \A i \in s + 1..k - 1 : ~EndsLine(request, i)
  BY <1>0, <1>1, <1>2, NoEndBetween, SMTT(30) DEF RequestTypes, EndAt
<1>6. EndsHead(request, k) <=> s = e /\ s > 0
  BY <1>0, <1>1, <1>2, <1>4, EmptyLineEnds DEF RequestTypes
<1>7. \A i \in 1..k - 1 : ~EndsHead(request, i)
  <2> TAKE i \in 1..k - 1
  <2>1. CASE i <= s
    BY <1>2, <2>1 DEF NoHead
  <2>2. CASE i > s
    <3>1. ~EndsLine(request, i)
      BY <1>5, <2>2
    <3> QED BY <3>1 DEF EndsHead
  <2> QED BY <2>1, <2>2
<1>8. LineKept'
  BY <1>0, SameRequest DEF HeaderLine, RequestInv, LineKept
<1>9. CASE n = 0
  <2>1. buf # <<>> /\ buf[1] = LF /\ pc' = "request"
    BY <1>0, <1>1, <1>9 DEF HeaderLine, RequestTypes
  <2>2. ASSUME LinesFit(request) PROVE k \in HeadEnds(request)
    <3>1. CASE q = 0
      <4>1. s = e /\ s > 0
        BY <1>2, <1>3, <1>9, <3>1
      <4> QED BY <1>0, <1>5, <1>6, <1>7, <4>1 DEF HeadEnds, RequestTypes
    <3>2. CASE q > 0
      <4>1. e - s = q * LineSize /\ e - s > 0
        BY <1>2, <1>3, <1>9, <3>2
      <4>2. Len(Text(request, s, k)) = e - s /\ Text(request, s, k) # <<>>
        <5>1. Len(Text(request, s, k)) = e - s
          BY <1>0, <1>1, <1>2, <1>4, LineText DEF RequestTypes
        <5> QED BY <4>1, <5>1
      <4>3. (e - s) % LineSize = 0
        BY <4>1, WholeBuffers
      <4> DEFINE ends == {0} \cup {i \in DOMAIN request : EndsLine(request, i)}
      <4>4. s \in ends /\ k \in ends /\ s < k /\ \A f \in ends : ~(s < f /\ f < k)
        <5>1. s \in ends
          BY <1>2 DEF Started
        <5>2. k \in ends
          BY <1>0, <1>5 DEF RequestTypes
        <5>3. s < k
          BY <1>4, <1>5
        <5>4. ASSUME NEW f \in ends, s < f, f < k PROVE FALSE
          <6>1. f \in DOMAIN request /\ EndsLine(request, f)
            BY <5>4
          <6>2. f \in s + 1..k - 1
            BY <1>0, <5>4, <6>1 DEF RequestTypes
          <6> QED BY <1>5, <6>1, <6>2
        <5> HIDE DEF ends
        <5> QED BY <5>1, <5>2, <5>3, <5>4
      <4>5. Text(request, s, k) = <<>> \/ Len(Text(request, s, k)) % LineSize # 0
        BY <2>2, <4>4 DEF LinesFit
      <4> QED BY <4>2, <4>3, <4>5
    <3> QED BY <3>1, <3>2
  <2>3. HeadFound'
    BY <1>1, <2>2, SameRequest DEF HeadFound
  <2> QED BY <1>8, <2>1, <2>3 DEF ReadExactly, Reading
<1>10. CASE n > 0
  <2>1. buf[1] # LF /\ pc' = "header"
    <3>1. buf[1] \notin {CR, LF}
      BY <1>1, <1>10, ChunkBare
    <3> QED BY <3>1 DEF HeaderLine
  <2>2. s # e
    BY <1>2, <1>3, <1>10
  <2>3. NoHead(k)
    BY <1>5, <1>6, <1>7, <2>2 DEF NoHead
  <2>4. Chunk(k, k, 0, 0)'
    BY <1>0, <1>5, <2>1, <2>3, NextLine
  <2>5. InLine'
    <3>1. Len(buf') = 0 /\ Len(buf') <= LineSize
      BY BuffersCount
    <3> QED BY <1>0, <1>1, <2>4, <3>1 DEF InLine
  <2> QED BY <1>8, <2>1, <2>5 DEF ReadExactly, HeadFound
<1> QED BY <1>9, <1>10

LEMMA GetLineKeeps ==
  ASSUME RequestInv, GetLine
  PROVE  RequestInv'
<1>1. /\ ~peek /\ (LineRead \/ EndOfStream) /\ (RequestLine(buf) \/ HeaderLine(buf))
      /\ buf' = <<>> /\ UNCHANGED <<request, closes, toCome, arrived, peek, answer>>
  BY DEF GetLine, client
<1>2. Reading
  BY <1>1 DEF RequestLine, HeaderLine, Reading
<1>3. RequestTypes /\ StreamKept /\ pc # "done" /\ answer = NoAnswer
  BY <1>2 DEF RequestInv, Reading
<1>4. Consumed' = Consumed
  BY <1>1 DEF Consumed
<1>5. StreamKept'
  BY <1>1, <1>3, <1>4 DEF StreamKept
<1>6. InLine \/ AtEnd \/ CutOff
  BY <1>1, <1>2 DEF RequestInv, ReadExactly, AtCR
<1>7. ASSUME InLine PROVE ~LineRead \/ Len(buf) = LineSize
  <2>1. SUFFICES ASSUME buf # <<>> PROVE buf[Len(buf)] # LF
    BY DEF LineRead, Last
  <2>2. Consumed \in Nat /\ Len(buf) \in Nat /\ Len(buf) > 0
    BY <1>3, <2>1 DEF StreamKept, RequestTypes
  <2>3. PICK s \in Nat, q \in Nat : Chunk(s, Consumed, q, Len(buf))
    BY <1>7 DEF InLine
  <2> QED BY <2>2, <2>3, ChunkBare
<1>8. /\ pc' \in {"header", "request", "done"} /\ ReadExactly' /\ LineKept'
      /\ HeadFound' \/ pc' # "request"
  <2>1. CASE InLine /\ Len(buf) = LineSize
    BY <1>1, <1>2, <1>4, <2>1, FullBufferKeeps
  <2>2. CASE (InLine \/ CutOff) /\ Len(buf) # LineSize
    <3>1. Len(buf) < LineSize
      <4>1. Len(buf) \in Nat /\ LineSize \in Nat /\ LineSize > 0
        BY <1>3, RequestConstants DEF RequestTypes
      <4>2. Len(buf) <= LineSize
        BY <2>2, <4>1 DEF InLine, CutOff
      <4> QED BY <2>2, <4>1, <4>2
    <3>2. EndOfStream
      <4>1. ~LineRead
        BY <1>7, <2>2 DEF CutOff, LineRead
      <4> QED BY <1>1, <4>1
    <3> QED BY <1>1, <1>2, <1>4, <2>2, <3>1, <3>2, EndOfStreamKeeps
  <2>3. CASE CutOff /\ Len(buf) = LineSize
    BY <2>3, BuffersCount DEF CutOff
  <2>4. CASE AtEnd /\ RequestLine(buf)
    BY <1>1, <1>4, <2>4, FirstLineKeeps
  <2>5. CASE AtEnd /\ HeaderLine(buf)
    BY <1>1, <1>4, <2>5, HeaderLineKeeps
  <2> QED BY <1>1, <1>6, <2>1, <2>2, <2>3, <2>4, <2>5
<1>9. RequestTypes'
  <2>1. line' \in Seq(Byte) /\ <<>> \in Seq(Byte)
    BY <1>1, <1>3 DEF RequestLine, HeaderLine, RequestTypes
  <2> QED BY <1>1, <1>3, <1>8, <2>1 DEF RequestTypes
<1>10. HeadFound'
  BY <1>8 DEF HeadFound
<1>11. AnswerFits'
  BY <1>1, <1>3 DEF AnswerFits
<1> QED BY <1>1, <1>3, <1>5, <1>8, <1>9, <1>10, <1>11 DEF RequestInv

-----------------------------------------------------------------------------
(* The answer. *)

\* The rest of the request, and what has arrived of it.
LEMMA RestOfRequest ==
  ASSUME RequestTypes, StreamKept, NEW k \in Nat, k = Consumed
  PROVE  /\ k <= Len(request) /\ k + Len(arrived) <= Len(request)
         /\ arrived \o toCome = SubSeq(request, k + 1, Len(request))
         /\ arrived = SubSeq(request, k + 1, k + Len(arrived))
<1>1. /\ Len(arrived) \in Nat /\ Len(toCome) \in Nat /\ Len(request) \in Nat
      /\ k + Len(arrived) + Len(toCome) = Len(request)
  BY DEF Consumed, RequestTypes
<1>2. /\ SubSeq(request, k + 1, Len(request)) \in Seq(Byte)
      /\ Len(SubSeq(request, k + 1, Len(request))) = Len(request) - k
      /\ \A i \in 1..(Len(request) - k) : SubSeq(request, k + 1, Len(request))[i] = request[k + i]
  <2>1. k <= Len(request) /\ Len(request) <= Len(request)
    BY <1>1
  <2> QED BY <1>1, <2>1, PartAt DEF RequestTypes
<1>3. /\ arrived \o toCome \in Seq(Byte) /\ Len(arrived \o toCome) = Len(arrived) + Len(toCome)
      /\ \A i \in 1..Len(arrived) : (arrived \o toCome)[i] = arrived[i]
      /\ \A i \in 1..Len(toCome) : (arrived \o toCome)[Len(arrived) + i] = toCome[i]
  BY JoinAt DEF RequestTypes
<1>4. ASSUME NEW i \in 1..Len(arrived \o toCome) PROVE (arrived \o toCome)[i] = request[k + i]
  <2>1. CASE i \in 1..Len(arrived)
    BY <1>3, <2>1 DEF StreamKept
  <2>2. CASE i > Len(arrived)
    <3>1. i - Len(arrived) \in 1..Len(toCome) /\ Len(arrived) + (i - Len(arrived)) = i
          /\ k + Len(arrived) + (i - Len(arrived)) = k + i
      BY <1>1, <1>3, <2>2
    <3>2. toCome[i - Len(arrived)] = request[k + Len(arrived) + (i - Len(arrived))]
      BY <3>1 DEF StreamKept
    <3>3. (arrived \o toCome)[Len(arrived) + (i - Len(arrived))] = toCome[i - Len(arrived)]
      BY <1>3, <3>1
    <3> QED BY <3>1, <3>2, <3>3
  <2> QED BY <1>1, <1>3, <2>1, <2>2
<1>5. arrived \o toCome = SubSeq(request, k + 1, Len(request))
  <2>1. Len(arrived \o toCome) = Len(request) - k
    BY <1>1, <1>3
  <2>2. \A i \in 1..Len(arrived \o toCome) :
          (arrived \o toCome)[i] = SubSeq(request, k + 1, Len(request))[i]
    BY <1>2, <1>4, <2>1
  <2> QED BY <1>2, <1>3, <2>1, <2>2, SameSequence
<1>6. arrived = SubSeq(request, k + 1, k + Len(arrived))
  <2>1. k + Len(arrived) \in Nat /\ k <= k + Len(arrived) /\ k + Len(arrived) <= Len(request)
        /\ (k + Len(arrived)) - k = Len(arrived)
    BY <1>1
  <2>2. /\ SubSeq(request, k + 1, k + Len(arrived)) \in Seq(Byte)
        /\ Len(SubSeq(request, k + 1, k + Len(arrived))) = Len(arrived)
        /\ \A i \in 1..Len(arrived) : SubSeq(request, k + 1, k + Len(arrived))[i] = request[k + i]
    <3>1. /\ SubSeq(request, k + 1, k + Len(arrived)) \in Seq(Byte)
          /\ Len(SubSeq(request, k + 1, k + Len(arrived))) = (k + Len(arrived)) - k
          /\ \A i \in 1..((k + Len(arrived)) - k) :
                 SubSeq(request, k + 1, k + Len(arrived))[i] = request[k + i]
      BY <2>1, PartAt DEF RequestTypes
    <3> QED BY <2>1, <3>1
  <2>3. \A i \in 1..Len(arrived) : arrived[i] = SubSeq(request, k + 1, k + Len(arrived))[i]
    BY <2>2 DEF StreamKept
  <2> QED BY <2>2, <2>3, SameSequence DEF RequestTypes
<1> QED BY <1>1, <1>5, <1>6

\* A POST is answered for what has arrived, and something has, unless the
\* client sent no more; what is not a POST for nothing of the body.
LEMMA HttpRequestKeeps ==
  ASSUME RequestInv, HttpRequest
  PROVE  RequestInv'
<1>1. /\ pc = "request" /\ pc' = "done" /\ UNCHANGED <<request, closes, toCome, peek, buf, line>>
      /\ IF Word(line) = <<"POST">>
         THEN /\ arrived # <<>> \/ EndOfStream
              /\ answer' = AnswerTo(line, arrived) /\ arrived' = <<>>
         ELSE answer' = AnswerTo(line, <<>>) /\ arrived' = arrived
  BY DEF HttpRequest, client
<1>2. RequestTypes /\ StreamKept /\ ~peek
  BY <1>1 DEF RequestInv, Reading
<1>3. PICK k \in Nat : k = Consumed
  BY <1>2 DEF StreamKept
<1>4. RequestTypes'
  <2>1. arrived' = arrived \/ arrived' = <<>>
    BY <1>1
  <2>2. arrived' \in Seq(Byte)
    <3>1. <<>> \in Seq(Byte)
      OBVIOUS
    <3> QED BY <1>2, <2>1, <3>1 DEF RequestTypes
  <2> QED BY <1>1, <1>2, <2>2 DEF RequestTypes
<1>5. StreamKept'
  <2>1. CASE arrived' = arrived
    BY <1>1, <1>2, <2>1 DEF StreamKept, Consumed
  <2>2. CASE arrived' = <<>>
    <3>1. Len(arrived') = 0 /\ Len(arrived) \in Nat /\ Len(toCome) \in Nat /\ Len(request) \in Nat
      BY <1>2, <2>2 DEF RequestTypes
    <3>2. Consumed' = k + Len(arrived)
      BY <1>1, <1>3, <3>1 DEF Consumed
    <3>3. \A i \in 1..Len(toCome) : toCome[i] = request[k + Len(arrived) + i]
      BY <1>2, <1>3 DEF StreamKept
    <3>4. \A i \in 1..Len(toCome) : k + Len(arrived) + i = k + Len(arrived) + 0 + i
      BY <3>1
    <3> QED BY <1>1, <2>2, <3>1, <3>2, <3>3, <3>4 DEF StreamKept
  <2> QED BY <1>1, <2>1, <2>2
<1>6. ReadExactly' /\ LineKept' /\ HeadFound'
  BY <1>1 DEF ReadExactly, Reading, LineKept, HeadFound
<1>7. ASSUME LinesFit(request), Len(StartLine(request)) <= LineSize
      PROVE  \E i \in HeadEnds(request), n \in 0..Len(request) :
               /\ n >= i /\ (n = i => n = Len(request) \/ Word(line) # <<"POST">>)
               /\ answer' = AnswerTo(StartLine(request), SubSeq(request, i + 1, n))
  <2>1. k \in HeadEnds(request)
    BY <1>1, <1>3, <1>7 DEF RequestInv, HeadFound
  <2>2. line = StartLine(request)
    <3>1. \E f \in FirstEnds(request) : TRUE
      <4>1. PICK j \in 1..k - 1 : EndsLine(request, j)
        BY <2>1 DEF HeadEnds, EndsHead
      <4>2. j \in DOMAIN request
        BY <1>2, <2>1 DEF HeadEnds, RequestTypes
      <4> DEFINE Ends == {i \in 1..k - 1 : EndsLine(request, i)}
      <4>3. PICK f \in Ends : \A i \in Ends : f <= i
        <5>1. Ends \in SUBSET Nat /\ Ends # {}
          BY <4>1
        <5> HIDE DEF Ends
        <5> QED BY <5>1, LeastOf
      <4>4. f \in FirstEnds(request)
        <5>1. f \in DOMAIN request /\ EndsLine(request, f)
          BY <1>2, <2>1, <4>3 DEF HeadEnds, RequestTypes
        <5>2. \A i \in 1..f - 1 : ~EndsLine(request, i)
          BY <4>3
        <5> QED BY <5>1, <5>2 DEF FirstEnds
      <4> QED BY <4>4
    <3> QED BY <1>1, <1>7, <3>1 DEF RequestInv, LineKept
  <2>3. k + Len(arrived) <= Len(request) /\ arrived = SubSeq(request, k + 1, k + Len(arrived))
        /\ Len(arrived) \in Nat /\ Len(request) \in Nat
    BY <1>2, <1>3, RestOfRequest DEF RequestTypes
  <2>4. CASE Word(line) = <<"POST">>
    <3>1. answer' = AnswerTo(StartLine(request), SubSeq(request, k + 1, k + Len(arrived)))
      BY <1>1, <2>2, <2>3, <2>4
    <3>2. ASSUME k + Len(arrived) = k PROVE k + Len(arrived) = Len(request)
      <4>1. arrived = <<>>
        BY <1>2, <2>3, <3>2 DEF RequestTypes
      <4>2. toCome = <<>>
        BY <1>1, <2>4, <4>1 DEF EndOfStream
      <4> QED BY <1>3, <2>3, <4>1, <4>2 DEF Consumed
    <3>3. k + Len(arrived) \in 0..Len(request) /\ k + Len(arrived) >= k
      BY <2>3
    <3> QED BY <2>1, <3>1, <3>2, <3>3
  <2>5. CASE Word(line) # <<"POST">>
    <3>1. SubSeq(request, k + 1, k) = <<>>
      <4>1. /\ SubSeq(request, k + 1, k) \in Seq(Byte)
            /\ Len(SubSeq(request, k + 1, k)) = k - k
        BY <1>2, <2>3, PartAt DEF RequestTypes
      <4> QED BY <4>1
    <3>2. answer' = AnswerTo(StartLine(request), SubSeq(request, k + 1, k))
      BY <1>1, <2>2, <2>5, <3>1
    <3>3. k \in 0..Len(request) /\ k >= k
      BY <2>3
    <3> QED BY <2>1, <2>5, <3>2, <3>3
  <2> QED BY <2>4, <2>5
<1>8. AnswerFits'
  BY <1>1, <1>7, SameRequest DEF AnswerFits
<1> QED BY <1>1, <1>2, <1>4, <1>5, <1>6, <1>8 DEF RequestInv

LEMMA RequestSteps == RequestInv /\ [RequestNext]_requestVars => RequestInv'
<1> SUFFICES ASSUME RequestInv, [RequestNext]_requestVars PROVE RequestInv'
  OBVIOUS
<1>1. CASE UNCHANGED requestVars
  <2>1. UNCHANGED <<request, toCome, arrived, pc, peek, buf, line, answer>>
    BY <1>1 DEF requestVars, client
  <2>2. Consumed' = Consumed
    BY <2>1 DEF Consumed
  <2>3. RequestTypes' /\ StreamKept'
    BY <2>1, <2>2 DEF RequestInv, RequestTypes, StreamKept
  <2>4. (InLine => InLine') /\ (AtCR => AtCR') /\ (AtEnd => AtEnd') /\ (CutOff => CutOff')
    BY <2>1, <2>2, SameChunk, SameRequest DEF InLine, AtCR, AtEnd, CutOff
  <2>5. ReadExactly' /\ LineKept' /\ HeadFound' /\ AnswerFits'
    BY <2>1, <2>2, <2>4, SameRequest
       DEF RequestInv, ReadExactly, Reading, LineKept, HeadFound, AnswerFits
  <2> QED BY <2>1, <2>3, <2>5 DEF RequestInv, Reading
<1>2. CASE Arrive
  BY <1>2, ArriveKeeps
<1>3. CASE RecvByte
  BY <1>3, RecvByteKeeps
<1>4. CASE PeekByte
  BY <1>4, PeekByteKeeps
<1>5. CASE GetLine
  BY <1>5, GetLineKeeps
<1>6. CASE HttpRequest
  BY <1>6, HttpRequestKeeps
<1> QED BY <1>1, <1>2, <1>3, <1>4, <1>5, <1>6 DEF RequestNext

\* However a request arrives, whatever ends its lines have and however long they
\* are, unless one fills the buffers exactly: http_request is called with the
\* head taken, to its first empty line, and nothing of the body.
THEOREM HeadReadExactly == RequestSpec => []HeadIsRead
<1>1. RequestInv => HeadIsRead
  <2> SUFFICES ASSUME RequestInv, pc = "request", LinesFit(request)
               PROVE  \E i \in HeadEnds(request) :
                        arrived \o toCome = SubSeq(request, i + 1, Len(request))
    BY DEF HeadIsRead
  <2>1. PICK k \in Nat : k = Consumed
    BY DEF RequestInv, StreamKept
  <2>2. k \in HeadEnds(request)
    BY <2>1 DEF RequestInv, HeadFound
  <2>3. arrived \o toCome = SubSeq(request, k + 1, Len(request))
    BY <2>1, RestOfRequest DEF RequestInv
  <2> QED BY <2>2, <2>3
<1> QED BY <1>1, RequestStarts, RequestSteps, PTL DEF RequestSpec

\* The answer is that to the first line and, for a POST, to what has arrived of
\* the body when it is read: something, unless nothing was sent.  It depends on
\* the pieces the request arrived in for nothing else.
THEOREM AnswerIsToRequest == RequestSpec => []AnswerFits
<1>1. RequestInv => AnswerFits
  BY DEF RequestInv
<1> QED BY <1>1, RequestStarts, RequestSteps, PTL DEF RequestSpec

-----------------------------------------------------------------------------
(* HttpRequest.  decode_str is defined from the end of the string, so that  *)
(* what it makes of a part is shown by going down from there.               *)

\* The provers cannot read the literal.
Space == " "

\* What three characters %xx stand for.
Meant(s, i) == CHOOSE b \in DOMAIN Code : Code[b] = hexit(s[i + 1]) * 16 + hexit(s[i + 2])

Digits16 == {"0", "1", "2", "3", "4", "5", "6", "7", "8", "9", "a", "b", "c", "d", "e", "f"}

\* What strings and names consist of.
Letter == Byte \cup {"%", "/", Space, "GET", "HTTP/1.1", "static"} \cup Digits16
          \cup DOMAIN Code \cup {CHOOSE b \in DOMAIN Code : Code[b] = v : v \in Int}

\* decode_str from each position on.
DecodesFrom(s, from) ==
  from = [i \in 1..Len(s) + 1 |->
            IF i > Len(s) THEN <<>>
            ELSE IF Escaped(s, i) THEN <<Meant(s, i)>> \o from[i + 3]
            ELSE <<s[i]>> \o from[i + 1]]

LEMMA JoinLetters == \A a, b \in Seq(Letter) : a \o b \in Seq(Letter)
OBVIOUS

Regroups(a, b, c) == (a \o b) \o c = a \o (b \o c)

LEMMA JoinAgain == \A a, b, c \in Seq(Letter) : Regroups(a, b, c)
BY DEF Regroups

LEMMA TailLetters ==
  ASSUME NEW q, q \in Seq(Letter), Len(q) > 0
  PROVE  /\ Tail(q) \in Seq(Letter) /\ Len(Tail(q)) = Len(q) - 1
         /\ \A i \in 1..Len(q) - 1 : Tail(q)[i] = q[i + 1]
OBVIOUS

LEMMA JoinNothing ==
  ASSUME NEW a, a \in Seq(Letter)
  PROVE  <<>> \o a = a /\ a \o <<>> = a /\ <<>> \in Seq(Letter)
OBVIOUS

LEMMA OneLetter ==
  ASSUME NEW b \in Letter
  PROVE  <<b>> \in Seq(Letter) /\ Len(<<b>>) = 1
OBVIOUS

LEMMA MeantLetter ==
  ASSUME NEW s \in Seq(Letter), NEW i \in 1..Len(s), Escaped(s, i)
  PROVE  Meant(s, i) \in Letter /\ i + 3 \in 1..Len(s) + 1
<1>1. ASSUME NEW x, isxdigit(x) PROVE hexit(x) \in Int
  <2>1. \E d \in 0..15 : x \in {hexDigits[d + 1], upper[d + 1]}
    <3>1. x \in {hexDigits[k] : k \in 1..16} \cup {upper[k] : k \in 1..16}
      BY <1>1 DEF isxdigit, ToSet, hexDigits, upper
    <3>2. \A k \in 1..16 : k - 1 \in 0..15 /\ (k - 1) + 1 = k
      OBVIOUS
    <3> QED BY <3>1, <3>2, ZenonT(30)
  <2>2. hexit(x) \in 0..15
    BY <2>1, Zenon DEF hexit
  <2> QED BY <2>2
<1>2. i + 2 <= Len(s) /\ isxdigit(s[i + 1]) /\ isxdigit(s[i + 2])
  BY DEF Escaped
<1>3. hexit(s[i + 1]) * 16 + hexit(s[i + 2]) \in Int
  BY <1>1, <1>2
<1>4. Meant(s, i) \in {CHOOSE b \in DOMAIN Code : Code[b] = v : v \in Int}
  BY <1>3 DEF Meant
<1>5. Meant(s, i) \in Letter
  BY <1>4 DEF Letter
<1>6. i + 3 \in 1..Len(s) + 1
  BY <1>2
<1> QED BY <1>5, <1>6

LEMMA DecodingExists ==
  ASSUME NEW s \in Seq(Letter)
  PROVE  \E from : from \in [1..Len(s) + 1 -> Seq(Letter)] /\ DecodesFrom(s, from)
<1> DEFINE n == Len(s)
           Here(i, f) == IF i > n THEN <<>>
                         ELSE IF Escaped(s, i) THEN <<Meant(s, i)>> \o f[i + 3]
                         ELSE <<s[i]>> \o f[i + 1]
           Down(k, f) == f \in [n + 1 - k..n + 1 -> Seq(Letter)] /\ \A i \in n + 1 - k..n + 1 : f[i] = Here(i, f)
           Bad == {k \in 0..n : ~ \E f : Down(k, f)}
<1>0. n \in Nat
  OBVIOUS
<1> HIDE DEF n
<1>1. Bad = {}
  <2> SUFFICES ASSUME Bad # {} PROVE FALSE
    OBVIOUS
  <2>1. PICK k \in Bad : \A l \in Bad : k <= l
    <3>1. Bad \in SUBSET Nat
      OBVIOUS
    <3> HIDE DEF Bad
    <3> QED BY <3>1, LeastOf
  <2>2. k # 0
    <3> DEFINE f == [i \in n + 1..n + 1 |-> <<>>]
    <3>1. f \in [n + 1..n + 1 -> Seq(Letter)]
      BY JoinNothing, <1>0
    <3>2. \A i \in n + 1..n + 1 : f[i] = Here(i, f)
      BY <1>0
    <3>3. n + 1 - 0 = n + 1
      BY <1>0
    <3>4. Down(0, f)
      BY <3>1, <3>2, <3>3
    <3> HIDE DEF f, Down
    <3> QED BY <2>1, <3>4
  <2>3. PICK m : m = n + 1 - k
    OBVIOUS
  <2>4. k \in 1..n /\ k - 1 \in 0..n /\ k - 1 \notin Bad /\ m \in 1..n /\ n + 1 - (k - 1) = m + 1
    <3>1. k \in 0..n
      BY <2>1
    <3>2. k \in 1..n /\ k - 1 \in 0..n /\ ~(k <= k - 1)
      BY <2>2, <3>1, <1>0
    <3>3. m \in 1..n /\ n + 1 - (k - 1) = m + 1
      BY <2>3, <3>2, <1>0
    <3> HIDE DEF Bad
    <3> QED BY <2>1, <3>2, <3>3
  <2>5. PICK f : Down(k - 1, f)
    <3> HIDE DEF Down
    <3> QED BY <2>4
  <2>6. f \in [m + 1..n + 1 -> Seq(Letter)] /\ \A i \in m + 1..n + 1 : f[i] = Here(i, f)
    BY <2>4, <2>5
  <2>7. PICK v : v = Here(m, f)
    OBVIOUS
  <2>8. v \in Seq(Letter)
    <3>1. CASE Escaped(s, m)
      <4>1. Meant(s, m) \in Letter /\ m + 3 \in m + 1..n + 1
        BY <2>4, <3>1, MeantLetter, <1>0 DEF n
      <4>2. f[m + 3] \in Seq(Letter)
        BY <2>6, <4>1
      <4> QED BY <2>4, <2>7, <3>1, <4>1, <4>2
    <3>2. CASE ~Escaped(s, m)
      <4>1. s[m] \in Letter /\ m + 1 \in m + 1..n + 1
        BY <2>4, <1>0 DEF n
      <4>2. f[m + 1] \in Seq(Letter)
        BY <2>6, <4>1
      <4> QED BY <2>4, <2>7, <3>2, <4>1, <4>2
    <3> QED BY <3>1, <3>2
  <2> DEFINE g == [i \in m..n + 1 |-> IF i = m THEN v ELSE f[i]]
  <2>9. g \in [m..n + 1 -> Seq(Letter)]
    BY <2>4, <2>6, <2>8
  <2>10. g[m] = v /\ \A i \in m + 1..n + 1 : g[i] = f[i]
    <3>1. m \in m..n + 1 /\ \A i \in m + 1..n + 1 : i \in m..n + 1 /\ i # m
      BY <2>4, <1>0
    <3> QED BY <3>1
  <2> HIDE DEF g
  <2>11. ASSUME NEW i \in m..n + 1 PROVE g[i] = Here(i, g)
    <3>1. CASE i > n
      <4>1. i \in m + 1..n + 1
        BY <2>4, <3>1, <1>0
      <4> QED BY <2>6, <2>10, <3>1, <4>1
    <3>2. CASE i <= n
      <4>1. i \in 1..n /\ i + 1 \in m + 1..n + 1
        BY <2>4, <3>2, <1>0
      <4>2. Escaped(s, i) => i + 3 \in m + 1..n + 1
        BY <4>1, MeantLetter, <2>4, <1>0 DEF n
      <4>3. g[i + 1] = f[i + 1] /\ (Escaped(s, i) => g[i + 3] = f[i + 3])
        BY <2>10, <4>1, <4>2
      <4>4. Here(i, g) = Here(i, f)
        BY <4>3, <3>2
      <4>5. g[i] = Here(i, f)
        <5>1. CASE i = m
          BY <5>1, <2>7, <2>10
        <5>2. CASE i # m
          <6>1. i \in m + 1..n + 1
            BY <5>2, <2>4
          <6> HIDE DEF Here
          <6> QED BY <6>1, <2>6, <2>10
        <5> HIDE DEF Here
        <5> QED BY <5>1, <5>2
      <4> HIDE DEF Here
      <4> QED BY <4>4, <4>5
    <3> QED BY <3>1, <3>2, <2>4, <1>0
  <2>12. Down(k, g)
    BY <2>3, <2>9, <2>11
  <2> HIDE DEF Down
  <2> QED BY <2>1, <2>12
<1>2. n \notin Bad /\ n \in 0..n
  <2> HIDE DEF Bad
  <2> QED BY <1>0, <1>1
<1>3. PICK f : Down(n, f)
  <2> HIDE DEF Down
  <2> QED BY <1>2
<1>4. f \in [1..n + 1 -> Seq(Letter)] /\ \A i \in 1..n + 1 : f[i] = Here(i, f)
  <2>1. n + 1 - n = 1
    BY <1>0
  <2> QED BY <1>3, <2>1
<1>5. f = [i \in 1..n + 1 |-> Here(i, f)]
  BY <1>4
<1>6. DecodesFrom(s, f)
  BY <1>5 DEF DecodesFrom, n
<1> QED BY <1>4, <1>6 DEF n

\* A set that reaches down from n + 1, as far as it holds all above.
LEMMA CountDown ==
  ASSUME NEW n \in Nat, NEW P, n + 1 \in P,
         \A i \in 1..n : (\A j \in i + 1..n + 1 : j \in P) => i \in P
  PROVE  \A i \in 1..n + 1 : i \in P
<1> DEFINE Bad == {k \in 0..n : n + 1 - k \notin P}
<1>1. Bad = {}
  <2> SUFFICES ASSUME Bad # {} PROVE FALSE
    OBVIOUS
  <2>1. PICK k \in Bad : \A l \in Bad : k <= l
    <3>1. Bad \in SUBSET Nat
      OBVIOUS
    <3> HIDE DEF Bad
    <3> QED BY <3>1, LeastOf
  <2>2. k \in 0..n /\ n + 1 - k \notin P
    BY <2>1
  <2>3. k # 0 /\ n + 1 - k \in 1..n
    BY <2>2
  <2>4. ASSUME NEW j \in (n + 1 - k) + 1..n + 1 PROVE j \in P
    <3>1. n + 1 - j \in 0..n /\ ~(k <= n + 1 - j) /\ n + 1 - (n + 1 - j) = j
      BY <2>2, <2>4
    <3>2. n + 1 - j \notin Bad
      <4> HIDE DEF Bad
      <4> QED BY <2>1, <3>1
    <3> QED BY <3>1, <3>2
  <2> QED BY <2>2, <2>3, <2>4
<1>2. ASSUME NEW i \in 1..n + 1 PROVE i \in P
  <2>1. n + 1 - i \in 0..n /\ n + 1 - (n + 1 - i) = i
    OBVIOUS
  <2>2. n + 1 - i \notin Bad
    BY <1>1
  <2> QED BY <2>1, <2>2
<1> QED BY <1>2

LEMMA CountUp ==
  ASSUME NEW n \in Nat, NEW P, 0 \in P,
         \A i \in 1..n : i - 1 \in P => i \in P
  PROVE  \A i \in 0..n : i \in P
<1> DEFINE Bad == {k \in 0..n : k \notin P}
<1>1. Bad = {}
  <2> SUFFICES ASSUME Bad # {} PROVE FALSE
    OBVIOUS
  <2>1. PICK k \in Bad : \A l \in Bad : k <= l
    <3>1. Bad \in SUBSET Nat
      OBVIOUS
    <3> HIDE DEF Bad
    <3> QED BY <3>1, LeastOf
  <2>2. k \in 0..n /\ k \notin P
    BY <2>1
  <2>3. k \in 1..n /\ k - 1 \in 0..n /\ ~(k <= k - 1)
    BY <2>2
  <2>4. k - 1 \notin Bad
    <3> HIDE DEF Bad
    <3> QED BY <2>1, <2>3
  <2>5. k - 1 \in P
    BY <2>3, <2>4
  <2> QED BY <2>2, <2>3, <2>5
<1> QED BY <1>1

\* decode_str from position i on, in terms of what follows.
Decoder(s, from) ==
  /\ from \in [1..Len(s) + 1 -> Seq(Letter)] /\ from[Len(s) + 1] = <<>>
  /\ \A i \in 1..Len(s) :
       from[i] = IF Escaped(s, i) THEN <<Meant(s, i)>> \o from[i + 3] ELSE <<s[i]>> \o from[i + 1]

LEMMA Decodes ==
  ASSUME NEW s \in Seq(Letter)
  PROVE  \E from : Decoder(s, from) /\ decode_str(s) = from[1]
<1> DEFINE n == Len(s)
           c == CHOOSE f : DecodesFrom(s, f)
<1>1. PICK f : f \in [1..Len(s) + 1 -> Seq(Letter)] /\ DecodesFrom(s, f)
  BY DecodingExists
<1>2. DecodesFrom(s, c)
  BY <1>1
<1>3. decode_str(s) = c[1]
  BY DEF decode_str, DecodesFrom, Meant
<1> HIDE DEF c
<1>4. PICK P : P = {i \in 1..n + 1 : f[i] = c[i]}
  OBVIOUS
<1>5. n \in Nat /\ n + 1 \in 1..n + 1
  OBVIOUS
<1>6. \A i \in 1..n + 1 :
        /\ f[i] = IF i > n THEN <<>> ELSE IF Escaped(s, i) THEN <<Meant(s, i)>> \o f[i + 3] ELSE <<s[i]>> \o f[i + 1]
        /\ c[i] = IF i > n THEN <<>> ELSE IF Escaped(s, i) THEN <<Meant(s, i)>> \o c[i + 3] ELSE <<s[i]>> \o c[i + 1]
  BY <1>1, <1>2 DEF DecodesFrom
<1>7. n + 1 \in P
  <2>1. n + 1 > n
    BY <1>5
  <2> QED BY <1>4, <1>5, <1>6, <2>1
<1>8. ASSUME NEW i \in 1..n, \A j \in i + 1..n + 1 : j \in P PROVE i \in P
  <2>1. i \in 1..n + 1 /\ ~(i > n) /\ i + 1 \in i + 1..n + 1 /\ (Escaped(s, i) => i + 3 \in i + 1..n + 1)
    BY MeantLetter, <1>5
  <2>2. c[i + 1] = f[i + 1] /\ (Escaped(s, i) => c[i + 3] = f[i + 3])
    BY <1>4, <1>8, <2>1
  <2>3. c[i] = f[i]
    BY <1>6, <2>1, <2>2
  <2> QED BY <1>4, <2>1, <2>3
<1>9. \A i \in 1..n + 1 : i \in P
  <2> HIDE DEF n
  <2> QED BY <1>5, <1>7, <1>8, CountDown
<1>10. \A i \in 1..n + 1 : c[i] = f[i]
  BY <1>4, <1>9
<1>11. f[1] = c[1]
  BY <1>10, <1>5
<1>12. Decoder(s, f)
  <2>1. \A i \in 1..Len(s) : i \in 1..n + 1 /\ ~(i > n)
    BY <1>5
  <2>2. f[Len(s) + 1] = <<>>
    <3>1. n + 1 > n
      BY <1>5
    <3> QED BY <1>5, <1>6, <3>1
  <2> QED BY <1>1, <1>6, <2>1, <2>2 DEF Decoder
<1> QED BY <1>3, <1>11, <1>12

LEMMA DecodesToLetters ==
  ASSUME NEW s \in Seq(Letter)
  PROVE  decode_str(s) \in Seq(Letter)
<1>1. PICK from : Decoder(s, from) /\ decode_str(s) = from[1]
  BY Decodes
<1>2. 1 \in 1..Len(s) + 1
  OBVIOUS
<1> QED BY <1>1, <1>2 DEF Decoder

LEMMA Letters ==
  /\ "%" \in Letter /\ "/" \in Letter /\ Space \in Letter /\ "GET" \in Letter
  /\ "HTTP/1.1" \in Letter /\ "static" \in Letter /\ LF \in Letter
  /\ \A b \in Digits16 : b \in Letter
  /\ \A b \in Byte : b \in Letter
<1>1. LF \in Byte
  BY DEF Byte
<1> QED BY <1>1 DEF Letter

\* Where letters of a and t are in s.
Joins(s, a, t) ==
  /\ s \in Seq(Letter) /\ Len(s) = Len(a) + Len(t)
  /\ \A i \in 1..Len(a) : s[i] = a[i]
  /\ \A i \in 1..Len(t) : s[Len(a) + i] = t[i]

LEMMA LettersAt ==
  ASSUME NEW a \in Seq(Letter), NEW t \in Seq(Letter)
  PROVE  Joins(a \o t, a, t)
BY DEF Joins

\* What a decoder makes of the end of a string does not depend on what is before.
LEMMA DecodesEnd ==
  ASSUME NEW a \in Seq(Letter), NEW t \in Seq(Letter),
         NEW s, Joins(s, a, t), NEW f, Decoder(s, f), NEW g, Decoder(t, g)
  PROVE  f[Len(a) + 1] = g[1]
<1>2. PICK m, n : m = Len(a) /\ n = Len(t)
  OBVIOUS
<1>3. /\ m \in Nat /\ n \in Nat /\ Len(s) = m + n
      /\ s \in Seq(Letter) /\ \A i \in 1..n : s[m + i] = t[i]
  BY <1>2 DEF Joins
<1>4. /\ f[m + n + 1] = <<>>
      /\ \A i \in 1..m + n :
           f[i] = IF Escaped(s, i) THEN <<Meant(s, i)>> \o f[i + 3] ELSE <<s[i]>> \o f[i + 1]
  BY <1>3 DEF Decoder
<1>5. /\ g[n + 1] = <<>>
      /\ \A i \in 1..n :
           g[i] = IF Escaped(t, i) THEN <<Meant(t, i)>> \o g[i + 3] ELSE <<t[i]>> \o g[i + 1]
  BY <1>2 DEF Decoder
<1>6. PICK P : P = {i \in 1..n + 1 : f[m + i] = g[i]}
  OBVIOUS
<1>7. n + 1 \in P
  <2>1. m + (n + 1) = m + n + 1 /\ n + 1 \in 1..n + 1
    BY <1>3
  <2> QED BY <1>4, <1>5, <1>6, <2>1
<1>8. ASSUME NEW i \in 1..n, \A j \in i + 1..n + 1 : j \in P PROVE i \in P
  <2>1. /\ m + i \in 1..m + n /\ i \in 1..n + 1 /\ s[m + i] = t[i]
        /\ m + i + 1 = m + (i + 1) /\ m + i + 2 = m + (i + 2) /\ m + i + 3 = m + (i + 3)
        /\ m + i + 2 <= m + n <=> i + 2 <= n
    BY <1>3
  <2>2. i + 2 <= n => /\ i + 1 \in 1..n /\ i + 2 \in 1..n
                      /\ s[m + i + 1] = t[i + 1] /\ s[m + i + 2] = t[i + 2]
    BY <1>3, <2>1
  <2>3. Escaped(s, m + i) <=> Escaped(t, i)
    BY <1>2, <1>3, <2>1, <2>2 DEF Escaped
  <2>4. Escaped(t, i) => Meant(s, m + i) = Meant(t, i) /\ i + 3 \in i + 1..n + 1
    <3>1. Escaped(t, i) => i + 2 <= n
      BY <1>2 DEF Escaped
    <3> QED BY <1>3, <2>2, <3>1 DEF Meant
  <2>5. i + 1 \in i + 1..n + 1
    BY <1>3
  <2>6. f[m + i + 1] = g[i + 1] /\ (Escaped(t, i) => f[m + i + 3] = g[i + 3])
    BY <1>6, <1>8, <2>1, <2>4, <2>5
  <2>7. f[m + i] = g[i]
    <3>1. f[m + i] = IF Escaped(s, m + i) THEN <<Meant(s, m + i)>> \o f[m + i + 3] ELSE <<s[m + i]>> \o f[m + i + 1]
      BY <1>4, <2>1
    <3>2. g[i] = IF Escaped(t, i) THEN <<Meant(t, i)>> \o g[i + 3] ELSE <<t[i]>> \o g[i + 1]
      BY <1>5
    <3> QED BY <2>1, <2>3, <2>4, <2>6, <3>1, <3>2
  <2> QED BY <1>6, <2>1, <2>7
<1>9. \A i \in 1..n + 1 : i \in P
  BY <1>3, <1>7, <1>8, CountDown
<1>10. 1 \in P
  BY <1>3, <1>9
<1> QED BY <1>2, <1>6, <1>10

\* One that is no escape at its start.
LEMMA DecodesPlain ==
  ASSUME NEW b \in Letter, b # "%", NEW t \in Seq(Letter)
  PROVE  decode_str(<<b>> \o t) = <<b>> \o decode_str(t)
<1>1. PICK a : a = <<b>>
  OBVIOUS
<1>2. a \in Seq(Letter) /\ Len(a) = 1 /\ a[1] = b
  BY <1>1
<1>3. PICK s : s = a \o t /\ Joins(s, a, t)
  BY <1>2, LettersAt
<1>4. s \in Seq(Letter) /\ Len(s) = 1 + Len(t) /\ s[1] = b
  <2>1. 1 \in 1..Len(a)
    BY <1>2
  <2> QED BY <1>2, <1>3, <2>1 DEF Joins
<1>5. PICK f : Decoder(s, f) /\ decode_str(s) = f[1]
  BY <1>4, Decodes
<1>6. PICK g : Decoder(t, g) /\ decode_str(t) = g[1]
  BY Decodes
<1>7. f[Len(a) + 1] = g[1]
  <2> QED BY <1>2, <1>3, <1>4, <1>5, <1>6, DecodesEnd
<1>8. f[1] = <<s[1]>> \o f[1 + 1]
  <2>1. 1 \in 1..Len(s) /\ ~Escaped(s, 1)
    BY <1>4 DEF Escaped
  <2> QED BY <1>5, <2>1 DEF Decoder
<1> QED BY <1>1, <1>2, <1>3, <1>4, <1>5, <1>6, <1>7, <1>8

\* An escape.
LEMMA DecodesEscape ==
  ASSUME NEW a \in Seq(Letter), Len(a) = 3, Escaped(a, 1), NEW t \in Seq(Letter)
  PROVE  decode_str(a \o t) = <<Meant(a, 1)>> \o decode_str(t)
<1>3. PICK s : s = a \o t /\ Joins(s, a, t)
  BY LettersAt
<1>4. s \in Seq(Letter) /\ Len(s) = 3 + Len(t) /\ s[1] = a[1] /\ s[2] = a[2] /\ s[3] = a[3]
  <2>1. 1 \in 1..Len(a) /\ 2 \in 1..Len(a) /\ 3 \in 1..Len(a)
    OBVIOUS
  <2> QED BY <1>3, <2>1 DEF Joins
<1>5. PICK f : Decoder(s, f) /\ decode_str(s) = f[1]
  BY <1>4, Decodes
<1>6. PICK g : Decoder(t, g) /\ decode_str(t) = g[1]
  BY Decodes
<1>7. f[Len(a) + 1] = g[1]
  <2> QED BY <1>3, <1>4, <1>5, <1>6, DecodesEnd
<1>8. f[1] = <<Meant(s, 1)>> \o f[1 + 3] /\ Meant(s, 1) = Meant(a, 1)
  <2>1. Len(t) \in Nat
    OBVIOUS
  <2>2. /\ a[1] = "%" /\ isxdigit(a[1 + 1]) /\ isxdigit(a[1 + 2])
        /\ s[1 + 1] = a[1 + 1] /\ s[1 + 2] = a[1 + 2]
    BY <1>4 DEF Escaped
  <2>3. 1 \in 1..Len(s) /\ Escaped(s, 1)
    BY <1>4, <2>1, <2>2 DEF Escaped
  <2>4. f[1] = <<Meant(s, 1)>> \o f[1 + 3]
    BY <1>5, <2>3 DEF Decoder
  <2> QED BY <2>2, <2>4 DEF Meant
<1>9. Len(a) + 1 = 1 + 3
  OBVIOUS
<1>10. f[1 + 3] = g[1]
  BY <1>7, <1>9
<1> QED BY <1>3, <1>5, <1>6, <1>8, <1>10

LEMMA SlashNoDigit == ~isxdigit("/")
<1>1. \A k \in 1..16 : hexDigits[k] # "/" /\ upper[k] # "/"
  BY DEF hexDigits, upper
<1>2. DOMAIN hexDigits = 1..16 /\ DOMAIN upper = 1..16
  BY DEF hexDigits, upper
<1> QED BY <1>1, <1>2 DEF isxdigit, ToSet

\* No escape reaches over a slash.
LEMMA DecodesBehindSlash ==
  ASSUME NEW a \in Seq(Letter), Len(a) > 0, a[Len(a)] = "/", NEW t \in Seq(Letter)
  PROVE  decode_str(a \o t) = decode_str(a) \o decode_str(t)
<1>1. PICK s : s = a \o t /\ Joins(s, a, t)
  BY LettersAt
<1>2. PICK m, n : m = Len(a) /\ n = Len(t)
  OBVIOUS
<1>3. /\ m \in Nat /\ n \in Nat /\ Len(s) = m + n /\ s \in Seq(Letter)
      /\ \A i \in 1..m : s[i] = a[i]
  BY <1>1, <1>2 DEF Joins
<1>4. PICK f : Decoder(s, f) /\ decode_str(s) = f[1]
  BY <1>3, Decodes
<1>5. PICK g : Decoder(t, g) /\ decode_str(t) = g[1]
  BY Decodes
<1>6. PICK h : Decoder(a, h) /\ decode_str(a) = h[1]
  BY Decodes
<1>7. f[m + 1] = g[1] /\ g[1] \in Seq(Letter)
  <2>1. f[Len(a) + 1] = g[1]
    BY <1>1, <1>3, <1>4, <1>5, DecodesEnd
  <2>2. 1 \in 1..Len(t) + 1
    OBVIOUS
  <2> QED BY <1>2, <1>5, <2>1, <2>2 DEF Decoder
<1>8. PICK P : P = {i \in 1..m + 1 : f[i] = h[i] \o g[1]}
  OBVIOUS
<1>9. m + 1 \in P
  <2>1. h[m + 1] = <<>> /\ m + 1 \in 1..m + 1
    BY <1>2, <1>3, <1>6 DEF Decoder
  <2> QED BY <1>7, <1>8, <2>1, JoinNothing
<1>10. ~isxdigit("/")
  BY SlashNoDigit
<1>11. ASSUME NEW i \in 1..m, \A j \in i + 1..m + 1 : j \in P PROVE i \in P
  <2>1. i \in 1..m + n /\ i \in 1..m + 1 /\ s[i] = a[i] /\ i + 1 \in i + 1..m + 1
    BY <1>3
  <2>2. i + 2 <= m => i + 1 \in 1..m /\ i + 2 \in 1..m /\ i + 3 \in i + 1..m + 1
    BY <1>3
  <2>3. i + 2 > m => ~Escaped(a, i) /\ ~Escaped(s, i)
    <3>1. ASSUME i = m PROVE s[i] # "%" /\ a[i] # "%"
      BY <1>2, <2>1, <3>1
    <3>2. ASSUME i + 1 = m PROVE ~isxdigit(s[i + 1]) /\ ~isxdigit(a[i + 1])
      <4>1. s[i + 1] = "/" /\ a[i + 1] = "/"
        BY <1>2, <1>3, <3>2
      <4> QED BY <1>10, <4>1
    <3>3. i + 2 > m => i = m \/ i + 1 = m
      BY <1>3
    <3> QED BY <3>1, <3>2, <3>3 DEF Escaped
  <2>4. /\ Escaped(s, i) <=> Escaped(a, i)
        /\ Escaped(a, i) => Meant(s, i) = Meant(a, i) /\ i + 3 \in i + 1..m + 1
    <3>1. CASE i + 2 > m
      BY <2>3, <3>1
    <3>2. CASE i + 2 <= m
      <4>1. s[i + 1] = a[i + 1] /\ s[i + 2] = a[i + 2] /\ i + 2 <= m + n
        BY <1>3, <2>2, <3>2
      <4> QED BY <1>2, <1>3, <2>1, <2>2, <3>2, <4>1 DEF Escaped, Meant
    <3> QED BY <1>3, <3>1, <3>2
  <2>5. f[i + 1] = h[i + 1] \o g[1] /\ (Escaped(a, i) => f[i + 3] = h[i + 3] \o g[1])
    BY <1>8, <1>11, <2>1, <2>4
  <2>6. /\ h[i + 1] \in Seq(Letter) /\ (Escaped(a, i) => h[i + 3] \in Seq(Letter))
    <3>1. \A j \in i + 1..m + 1 : j \in 1..m + 1
      BY <1>3
    <3>2. \A j \in 1..m + 1 : h[j] \in Seq(Letter)
      BY <1>2, <1>6 DEF Decoder
    <3> QED BY <2>1, <2>4, <3>1, <3>2
  <2>7. f[i] = IF Escaped(s, i) THEN <<Meant(s, i)>> \o f[i + 3] ELSE <<s[i]>> \o f[i + 1]
    BY <1>3, <1>4, <2>1 DEF Decoder
  <2>8. h[i] = IF Escaped(a, i) THEN <<Meant(a, i)>> \o h[i + 3] ELSE <<a[i]>> \o h[i + 1]
    BY <1>2, <1>6 DEF Decoder
  <2>9. CASE Escaped(a, i)
    <3>1. PICK b : b = <<Meant(a, i)>>
      OBVIOUS
    <3>2. b \in Seq(Letter)
      BY <1>2, <2>9, <3>1, MeantLetter, OneLetter
    <3>3. (b \o h[i + 3]) \o g[1] = b \o (h[i + 3] \o g[1])
      <4>1. PICK u, v : u = h[i + 3] /\ v = g[1]
        OBVIOUS
      <4>2. u \in Seq(Letter) /\ v \in Seq(Letter)
        BY <1>7, <2>6, <2>9, <3>2, <4>1
      <4>3. (b \o u) \o v = b \o (u \o v)
        <5>1. Regroups(b, u, v)
          BY <3>2, <4>2, JoinAgain
        <5> QED BY <5>1 DEF Regroups
      <4> QED BY <4>1, <4>3
    <3>4. f[i] = b \o f[i + 3] /\ h[i] = b \o h[i + 3]
      BY <2>4, <2>7, <2>8, <2>9, <3>1
    <3>5. f[i] = h[i] \o g[1]
      BY <2>5, <2>9, <3>3, <3>4
    <3> QED BY <1>8, <2>1, <3>5
  <2>10. CASE ~Escaped(a, i)
    <3>1. PICK b : b = <<a[i]>>
      OBVIOUS
    <3>2. b \in Seq(Letter)
      <4>1. a[i] \in Letter
        BY <1>2
      <4> QED BY <3>1, <4>1, OneLetter
    <3>3. (b \o h[i + 1]) \o g[1] = b \o (h[i + 1] \o g[1])
      <4>1. PICK u, v : u = h[i + 1] /\ v = g[1]
        OBVIOUS
      <4>2. u \in Seq(Letter) /\ v \in Seq(Letter)
        BY <1>7, <2>6, <3>2, <4>1
      <4>3. (b \o u) \o v = b \o (u \o v)
        <5>1. Regroups(b, u, v)
          BY <3>2, <4>2, JoinAgain
        <5> QED BY <5>1 DEF Regroups
      <4> QED BY <4>1, <4>3
    <3>4. f[i] = b \o f[i + 1] /\ h[i] = b \o h[i + 1]
      BY <2>1, <2>4, <2>7, <2>8, <2>10, <3>1
    <3>5. f[i] = h[i] \o g[1]
      BY <2>5, <3>3, <3>4
    <3> QED BY <1>8, <2>1, <3>5
  <2> QED BY <2>9, <2>10
<1>12. \A i \in 1..m + 1 : i \in P
  BY <1>3, <1>9, <1>11, CountDown
<1>13. f[1] = h[1] \o g[1]
  <2>1. 1 \in 1..m + 1
    BY <1>3
  <2> QED BY <1>8, <1>12, <2>1
<1> QED BY <1>1, <1>4, <1>5, <1>6, <1>13

\* A byte that encode_str can write.
Encodable(b) == b \in Letter /\ (b \in Plain \/ b \in DOMAIN Code)

CodesTell ==
  /\ "%" \notin Plain
  /\ \A b, c \in DOMAIN Code : Code[b] = Code[c] => b = c

\* What encode_str writes for a byte.
Written(b) == IF b \in Plain THEN <<b>> ELSE Escape(b)

LEMMA HexDigits ==
  ASSUME NEW d \in 0..15
  PROVE  isxdigit(hexDigits[d + 1]) /\ hexit(hexDigits[d + 1]) = d /\ hexDigits[d + 1] \in Letter
         /\ hexDigits[d + 1] # Space
<1>1. d + 1 \in 1..16 /\ hexDigits[d + 1] \in ToSet(hexDigits)
  BY DEF ToSet, hexDigits
<1>2. \A e \in 0..15 : hexDigits[d + 1] \in {hexDigits[e + 1], upper[e + 1]} <=> e = d
  BY DEF hexDigits, upper
<1>3. hexit(hexDigits[d + 1]) = d
  BY <1>2 DEF hexit
<1>4. hexDigits[d + 1] \in Digits16
  <2>1. \A k \in 1..16 : hexDigits[k] \in Digits16
    BY DEF hexDigits, Digits16
  <2> QED BY <1>1, <2>1
<1>5. hexDigits[d + 1] # Space
  BY <1>4 DEF Digits16, Space
<1> QED BY <1>1, <1>3, <1>4, <1>5, Letters DEF isxdigit

LEMMA DecodesByte ==
  ASSUME CodesTell, NEW b, Encodable(b), NEW t \in Seq(Letter)
  PROVE  /\ Written(b) \in Seq(Letter) /\ decode_str(Written(b) \o t) = <<b>> \o decode_str(t)
         /\ Len(Written(b)) \in Nat \ {0}
<1>1. CASE b \in Plain
  <2>1. b \in Letter /\ b # "%"
    BY <1>1 DEF Encodable, CodesTell
  <2> QED BY <1>1, <2>1, DecodesPlain, OneLetter DEF Written
<1>2. CASE b \notin Plain
  <2>1. b \in DOMAIN Code /\ Code[b] \in 0..255
    BY <1>2, RequestConstants DEF Encodable
  <2>2. PICK h, l : h = Code[b] \div 16 /\ l = Code[b] % 16
    OBVIOUS
  <2>3. h \in 0..15 /\ l \in 0..15 /\ h * 16 + l = Code[b]
    <3>1. PICK c : c = Code[b]
      OBVIOUS
    <3>2. c \in 0..255 /\ h = c \div 16 /\ l = c % 16
      BY <2>1, <2>2, <3>1
    <3>3. h \in Int /\ l \in 0..15 /\ c = 16 * h + l /\ c \in 0..255
      BY <3>2
    <3>4. h \in 0..15 /\ h * 16 + l = c
      BY <3>3
    <3> QED BY <3>1, <3>3, <3>4
  <2>4. PICK x, y : x = hexDigits[h + 1] /\ y = hexDigits[l + 1]
    OBVIOUS
  <2>5. /\ isxdigit(x) /\ hexit(x) = h /\ x \in Letter
        /\ isxdigit(y) /\ hexit(y) = l /\ y \in Letter
    BY <2>3, <2>4, HexDigits
  <2>6. PICK a : a = <<"%", x, y>>
    OBVIOUS
  <2>7. Written(b) = a
    BY <1>2, <2>2, <2>4, <2>6 DEF Written, Escape
  <2>8. a \in Seq(Letter) /\ Len(a) = 3 /\ a[1] = "%" /\ a[2] = x /\ a[3] = y
    <3>1. "%" \in Letter
      BY Letters
    <3> QED BY <2>5, <2>6, <3>1
  <2>9. Escaped(a, 1)
    BY <2>5, <2>8 DEF Escaped
  <2>10. Meant(a, 1) = b
    <3>1. Meant(a, 1) = CHOOSE c \in DOMAIN Code : Code[c] = Code[b]
      BY <2>3, <2>5, <2>8 DEF Meant
    <3> QED BY <2>1, <3>1 DEF CodesTell
  <2> QED BY <2>7, <2>8, <2>9, <2>10, DecodesEscape
<1> QED BY <1>1, <1>2

-----------------------------------------------------------------------------
(* encode_str and what decode_str makes of it. *)

\* A name encode_str can write, so that its words stay one word of the request.
Linkable(n) ==
  /\ n \in Seq(Letter) /\ Len(n) > 0
  /\ \A i \in 1..Len(n) : Encodable(n[i])

Unspaced == Letter \ {Space}

\* FlattenSeq, from one sequence to the next.
Flattens(parts, flat) ==
  flat = [i \in 1..Len(parts) |-> IF i = 1 THEN parts[i] ELSE flat[i - 1] \o parts[i]]

LEMMA FlattensTo ==
  ASSUME NEW S, NEW parts \in Seq(Seq(S)), Len(parts) > 0
  PROVE  \E flat : /\ flat \in [1..Len(parts) -> Seq(S)]
                   /\ flat[1] = parts[1] /\ \A i \in 2..Len(parts) : flat[i] = flat[i - 1] \o parts[i]
                   /\ FlattenSeq(parts) = flat[Len(parts)]
<1> DEFINE Upto(k, f) == f \in [1..k -> Seq(S)] /\ f[1] = parts[1] /\ \A i \in 2..k : f[i] = f[i - 1] \o parts[i]
           c == CHOOSE f : Flattens(parts, f)
<1>1. PICK n \in Nat : n = Len(parts) /\ n > 0
  OBVIOUS
<1>2. \A i \in 1..n : parts[i] \in Seq(S)
  BY <1>1
<1>3. PICK P : P = {k \in 0..n : k = 0 \/ \E f : Upto(k, f)}
  OBVIOUS
<1>4. ASSUME NEW k \in 1..n, k - 1 \in P PROVE k \in P
  <2>1. CASE k = 1
    <3> DEFINE g == [i \in 1..1 |-> parts[1]]
    <3>1. g \in [1..1 -> Seq(S)] /\ g[1] = parts[1]
      BY <1>1, <1>2
    <3>2. Upto(1, g)
      BY <3>1
    <3> HIDE DEF g, Upto
    <3> QED BY <1>1, <1>3, <2>1, <3>2
  <2>2. CASE k # 1
    <3>1. PICK f : Upto(k - 1, f)
      <4>1. k - 1 # 0
        BY <2>2
      <4> HIDE DEF Upto
      <4> QED BY <1>3, <1>4, <4>1
    <3>2. f \in [1..k - 1 -> Seq(S)] /\ f[1] = parts[1] /\ \A i \in 2..k - 1 : f[i] = f[i - 1] \o parts[i]
      BY <3>1
    <3> DEFINE g == [i \in 1..k |-> IF i = k THEN f[k - 1] \o parts[k] ELSE f[i]]
    <3>3. f[k - 1] \o parts[k] \in Seq(S)
      <4>1. f[k - 1] \in Seq(S) /\ parts[k] \in Seq(S)
        BY <1>2, <2>2, <3>2
      <4> QED BY <4>1
    <3>4. g \in [1..k -> Seq(S)]
      BY <3>2, <3>3
    <3>5. g[k] = f[k - 1] \o parts[k] /\ \A i \in 1..k - 1 : g[i] = f[i]
      <4>1. k \in 1..k /\ \A i \in 1..k - 1 : i \in 1..k /\ i # k
        BY <1>1
      <4> QED BY <4>1
    <3> HIDE DEF g
    <3>6. ASSUME NEW i \in 2..k PROVE g[i] = g[i - 1] \o parts[i]
      <4>1. i - 1 \in 1..k - 1
        OBVIOUS
      <4>2. CASE i = k
        BY <3>5, <4>1, <4>2
      <4>3. CASE i # k
        <5>1. i \in 2..k - 1 /\ i \in 1..k - 1
          BY <4>3
        <5> QED BY <3>2, <3>5, <4>1, <5>1
      <4> QED BY <4>2, <4>3
    <3>7. g[1] = parts[1]
      <4>1. 1 \in 1..k - 1
        BY <2>2
      <4> QED BY <3>2, <3>5, <4>1
    <3>8. Upto(k, g)
      BY <3>4, <3>6, <3>7
    <3> HIDE DEF Upto
    <3> QED BY <1>1, <1>3, <3>8
  <2> QED BY <2>1, <2>2
<1>5. 0 \in P
  BY <1>1, <1>3
<1>6. \A k \in 0..n : k \in P
  BY <1>4, <1>5, CountUp
<1>7. PICK f : Upto(n, f)
  <2>1. n \in P /\ n # 0
    BY <1>1, <1>6
  <2> HIDE DEF Upto
  <2> QED BY <1>3, <2>1
<1>8. f \in [1..n -> Seq(S)] /\ f[1] = parts[1] /\ \A i \in 2..n : f[i] = f[i - 1] \o parts[i]
  BY <1>7
<1>9. \A i \in 1..n : f[i] = IF i = 1 THEN parts[i] ELSE f[i - 1] \o parts[i]
  <2>1. \A i \in 1..n : i = 1 \/ i \in 2..n
    OBVIOUS
  <2> QED BY <1>8, <2>1
<1>10. Flattens(parts, f)
  BY <1>1, <1>8, <1>9 DEF Flattens
<1>11. Flattens(parts, c)
  BY <1>10
<1>12. FlattenSeq(parts) = c[n]
  BY <1>1 DEF FlattenSeq, Flattens
<1> HIDE DEF c
<1>13. \A i \in 1..n : c[i] = IF i = 1 THEN parts[i] ELSE c[i - 1] \o parts[i]
  BY <1>1, <1>11 DEF Flattens
<1>14. PICK Q : Q = {k \in 0..n : k = 0 \/ c[k] = f[k]}
  OBVIOUS
<1>15. ASSUME NEW k \in 1..n, k - 1 \in Q PROVE k \in Q
  <2>1. CASE k = 1
    BY <1>8, <1>13, <1>14, <2>1
  <2>2. CASE k # 1
    <3>1. c[k - 1] = f[k - 1] /\ k \in 2..n /\ k \in 0..n
      <4>1. k - 1 # 0 /\ k \in 2..n /\ k \in 0..n
        BY <1>1, <2>2
      <4> QED BY <1>14, <1>15, <4>1
    <3>2. c[k] = c[k - 1] \o parts[k] /\ f[k] = f[k - 1] \o parts[k]
      BY <1>8, <1>13, <2>2, <3>1
    <3> QED BY <1>14, <3>1, <3>2
  <2> QED BY <2>1, <2>2
<1>16. \A k \in 0..n : k \in Q
  <2>1. 0 \in Q
    BY <1>1, <1>14
  <2> QED BY <1>15, <2>1, CountUp
<1>17. c[n] = f[n]
  BY <1>1, <1>14, <1>16
<1> QED BY <1>1, <1>8, <1>12, <1>17

LEMMA WrittenUnspaced ==
  ASSUME CodesTell, Space \notin Plain, NEW b, Encodable(b)
  PROVE  Written(b) \in Seq(Unspaced)
<1>1. CASE b \in Plain
  <2>1. b \in Unspaced
    BY <1>1 DEF Encodable, Unspaced
  <2>2. Written(b) = <<b>>
    BY <1>1 DEF Written
  <2> QED BY <2>1, <2>2
<1>2. CASE b \notin Plain
  <2>1. b \in DOMAIN Code /\ Code[b] \in 0..255
    BY <1>2, RequestConstants DEF Encodable
  <2>2. PICK h, l : h = Code[b] \div 16 /\ l = Code[b] % 16
    OBVIOUS
  <2>3. h \in 0..15 /\ l \in 0..15
    <3>1. PICK c : c = Code[b]
      OBVIOUS
    <3>2. c \in 0..255 /\ h = c \div 16 /\ l = c % 16
      BY <2>1, <2>2, <3>1
    <3>3. h \in Int /\ l \in 0..15 /\ c = 16 * h + l /\ c \in 0..255
      BY <3>2
    <3>4. h \in 0..15
      BY <3>3
    <3> QED BY <3>3, <3>4
  <2>4. PICK x, y : x = hexDigits[h + 1] /\ y = hexDigits[l + 1]
    OBVIOUS
  <2>5. x \in Unspaced /\ y \in Unspaced
    BY <2>3, <2>4, HexDigits DEF Unspaced
  <2>6. "%" \in Unspaced
    <3>1. "%" # Space
      BY DEF Space
    <3>2. "%" \in Letter
      BY Letters
    <3> QED BY <3>1, <3>2, Zenon DEF Unspaced
  <2>7. Written(b) = <<"%", x, y>>
    BY <1>2, <2>2, <2>4 DEF Written, Escape
  <2>8. <<"%", x, y>> \in Seq(Unspaced)
    BY <2>5, <2>6
  <2> QED BY <2>7, <2>8
<1> QED BY <1>1, <1>2

\* decode_str undoes encode_str, whatever stands behind.
LEMMA EncodeDecode ==
  ASSUME CodesTell, Space \notin Plain, NEW n, Linkable(n), NEW t \in Seq(Letter)
  PROVE  /\ encode_str(n) \in Seq(Unspaced)
         /\ decode_str(encode_str(n) \o t) = n \o decode_str(t)
<1> DEFINE parts == [i \in DOMAIN n |-> IF n[i] \in Plain THEN <<n[i]>> ELSE Escape(n[i])]
<1>0. n \in Seq(Letter)
  BY DEF Linkable
<1>1. PICK m \in Nat : m = Len(n) /\ m > 0 /\ DOMAIN n = 1..m
  <2>1. Len(n) \in Nat /\ Len(n) > 0 /\ DOMAIN n = 1..Len(n)
    BY <1>0 DEF Linkable
  <2> QED BY <2>1
<1>2. \A i \in 1..m : Encodable(n[i]) /\ n[i] \in Letter
  BY <1>1 DEF Linkable, Encodable
<1>3. \A i \in 1..m : parts[i] = Written(n[i])
  BY <1>1 DEF Written
<1>4. encode_str(n) = FlattenSeq(parts)
  BY DEF encode_str
<1>5. DOMAIN parts = 1..m
  BY <1>1
<1>6. parts = [i \in 1..m |-> parts[i]]
  BY <1>5
<1> HIDE DEF parts
<1>7. \A i \in 1..m : parts[i] \in Seq(Unspaced)
  BY <1>2, <1>3, WrittenUnspaced
<1>8. parts \in Seq(Seq(Unspaced)) /\ Len(parts) = m
  <2>1. parts = [i \in 1..m |-> parts[i]] /\ m \in Nat
    BY <1>1, <1>6
  <2> QED BY <1>7, <2>1
<1>9. PICK flat : /\ flat \in [1..m -> Seq(Unspaced)]
                  /\ flat[1] = parts[1] /\ \A i \in 2..m : flat[i] = flat[i - 1] \o parts[i]
                  /\ FlattenSeq(parts) = flat[m]
  <2>1. Len(parts) > 0
    BY <1>1, <1>8
  <2>2. PICK flat : /\ flat \in [1..Len(parts) -> Seq(Unspaced)]
                    /\ flat[1] = parts[1] /\ \A i \in 2..Len(parts) : flat[i] = flat[i - 1] \o parts[i]
                    /\ FlattenSeq(parts) = flat[Len(parts)]
    BY <1>8, <2>1, FlattensTo
  <2> QED BY <1>8, <2>2
<1>10. \A i \in 1..m : flat[i] \in Seq(Letter) /\ parts[i] \in Seq(Letter)
  <2>1. ASSUME NEW q \in Seq(Unspaced) PROVE q \in Seq(Letter)
    <3>1. \A b \in Unspaced : b \in Letter
      BY DEF Unspaced
    <3>2. \A i \in 1..Len(q) : q[i] \in Unspaced
      OBVIOUS
    <3>3. \A i \in 1..Len(q) : q[i] \in Letter
      BY <3>1, <3>2
    <3>4. Len(q) \in Nat /\ q = [i \in 1..Len(q) |-> q[i]]
      OBVIOUS
    <3> QED BY <3>3, <3>4
  <2> QED BY <1>7, <1>9, <2>1
<1>11. PICK P : P = {k \in 0..m : k = 0 \/ \A r \in Seq(Letter) :
                       decode_str(flat[k] \o r) = SubSeq(n, 1, k) \o decode_str(r)}
  OBVIOUS
<1>12. ASSUME NEW k \in 1..m, NEW r \in Seq(Letter)
       PROVE  decode_str(parts[k] \o r) = <<n[k]>> \o decode_str(r)
  BY <1>2, <1>3, DecodesByte
<1>13. ASSUME NEW k \in 1..m, k - 1 \in P PROVE k \in P
  <2>1. CASE k = 1
    <3>1. SubSeq(n, 1, k) = <<n[1]>>
      <4>1. SubSeq(n, 1, 1) = [i \in 1..1 |-> n[i]]
        BY <1>0, <1>1
      <4>2. [i \in 1..1 |-> n[i]] = <<n[1]>>
        OBVIOUS
      <4> QED BY <2>1, <4>1, <4>2
    <3>2. \A q \in Seq(Letter) : decode_str(flat[k] \o q) = SubSeq(n, 1, k) \o decode_str(q)
      BY <1>9, <1>12, <2>1, <3>1
    <3> QED BY <1>1, <1>11, <3>2
  <2>2. CASE k # 1
    <3>1. k \in 2..m /\ k - 1 \in 1..m /\ k \in 0..m /\ k - 1 # 0
      BY <1>1, <2>2
    <3>2. ASSUME NEW r \in Seq(Letter)
          PROVE  decode_str(flat[k] \o r) = SubSeq(n, 1, k) \o decode_str(r)
      <4>1. PICK a, p : a = flat[k - 1] /\ p = parts[k]
        OBVIOUS
      <4>2. a \in Seq(Letter) /\ p \in Seq(Letter) /\ p \o r \in Seq(Letter)
        <5>1. a \in Seq(Letter) /\ p \in Seq(Letter)
          BY <1>10, <3>1, <4>1
        <5> QED BY <5>1, JoinLetters, Zenon
      <4>3. flat[k] \o r = a \o (p \o r)
        <5>1. flat[k] = a \o p
          BY <1>9, <3>1, <4>1
        <5>2. (a \o p) \o r = a \o (p \o r)
          <6>1. Regroups(a, p, r)
            BY <4>2, JoinAgain
          <6> QED BY <6>1 DEF Regroups
        <5> QED BY <5>1, <5>2
      <4>4. decode_str(a \o (p \o r)) = SubSeq(n, 1, k - 1) \o decode_str(p \o r)
        BY <1>11, <1>13, <3>1, <4>1, <4>2
      <4>5. decode_str(p \o r) = <<n[k]>> \o decode_str(r)
        BY <1>12, <4>1
      <4>6. SubSeq(n, 1, k) = SubSeq(n, 1, k - 1) \o <<n[k]>>
        BY <1>0, <1>1, <3>1
      <4>7. PICK x, y, z : x = SubSeq(n, 1, k - 1) /\ y = <<n[k]>> /\ z = decode_str(r)
        OBVIOUS
      <4>8. x \in Seq(Letter) /\ y \in Seq(Letter) /\ z \in Seq(Letter)
        <5>1. SubSeq(n, 1, k - 1) \in Seq(Letter)
          BY <1>0, <1>1, <3>1
        <5>2. <<n[k]>> \in Seq(Letter)
          BY <1>2, OneLetter
        <5> QED BY <4>7, <5>1, <5>2, DecodesToLetters
      <4>9. (x \o y) \o z = x \o (y \o z)
        <5>1. Regroups(x, y, z)
          BY <4>8, JoinAgain
        <5> QED BY <5>1 DEF Regroups
      <4> QED BY <4>3, <4>4, <4>5, <4>6, <4>7, <4>9
    <3> QED BY <1>11, <3>1, <3>2
  <2> QED BY <2>1, <2>2
<1>14. \A k \in 0..m : k \in P
  <2>1. 0 \in P /\ m \in Nat
    BY <1>1, <1>11
  <2> QED BY <1>13, <2>1, CountUp
<1>15. decode_str(flat[m] \o t) = SubSeq(n, 1, m) \o decode_str(t)
  <2>1. m \in P /\ m # 0
    <3>1. m \in 0..m /\ m # 0
      BY <1>1
    <3> QED BY <1>14, <3>1
  <2> QED BY <1>11, <2>1
<1>16. SubSeq(n, 1, m) = n
  BY <1>0, <1>1
<1>17. flat[m] \in Seq(Unspaced)
  <2>1. m \in 1..m
    BY <1>1
  <2> QED BY <1>9, <2>1
<1> QED BY <1>4, <1>9, <1>15, <1>16, <1>17

-----------------------------------------------------------------------------
(* The words of a request line. *)

\* What is skipped before a word.
White == {Space, CR, LF}

LEMMA WhiteIs ==
  /\ \A s : Word(s) = SubSeq(s, 1, Before(s, Space))
  /\ \A s : NextWords(s) =
       LET rest == SubSeq(s, Before(s, Space) + 1, Len(s))
           first == SelectInSeq(rest, LAMBDA c : c \notin White)
       IN  IF first = 0 THEN <<>> ELSE SubSeq(rest, first, Len(rest))
BY Zenon DEF White, Space, Word, NextWords

LEMMA FirstSelected ==
  ASSUME NEW s, Len(s) \in Nat, NEW I, I = {i \in 1..Len(s) : s[i] \notin White}
  PROVE  /\ I = {} => SelectInSeq(s, LAMBDA c : c \notin White) = 0
         /\ I # {} => /\ SelectInSeq(s, LAMBDA c : c \notin White) \in I
                      /\ \A i \in I : SelectInSeq(s, LAMBDA c : c \notin White) <= i
<1>1. SelectInSeq(s, LAMBDA c : c \notin White) = IF I # {} THEN Min(I) ELSE 0
  BY DEF SelectInSeq
<1>2. ASSUME I # {} PROVE Min(I) \in I /\ \A i \in I : Min(I) <= i
  <2>1. I \in SUBSET Nat
    OBVIOUS
  <2>2. \E m \in I : \A i \in I : m <= i
    BY <1>2, <2>1, LeastOf
  <2> QED BY <2>2 DEF Min
<1> QED BY <1>1, <1>2

LEMMA BeforeIs ==
  ASSUME NEW s, s \in Seq(Letter), NEW b
  PROVE  /\ Before(s, b) \in 0..Len(s)
         /\ \A i \in 1..Before(s, b) : s[i] # b
         /\ Before(s, b) < Len(s) => s[Before(s, b) + 1] = b
<1>1. PICK n : n = Len(s) /\ n \in Nat /\ DOMAIN s = 1..n
  OBVIOUS
<1>2. PICK I : I = {i \in 1..n : s[i] = b}
  OBVIOUS
<1>3. b \in ToSet(s) <=> I # {}
  BY <1>1, <1>2 DEF ToSet
<1>4. SelectInSeq(s, LAMBDA c : c = b) = IF I # {} THEN Min(I) ELSE 0
  BY <1>1, <1>2 DEF SelectInSeq
<1>5. CASE I = {}
  <2>1. Before(s, b) = n
    BY <1>1, <1>3, <1>5 DEF Before
  <2> QED BY <1>1, <1>2, <1>5, <2>1
<1>6. CASE I # {}
  <2>1. I \in SUBSET Nat
    BY <1>2
  <2>2. \E m \in I : \A i \in I : m <= i
    BY <1>6, <2>1, LeastOf
  <2>3. Min(I) \in I /\ \A i \in I : Min(I) <= i
    BY <2>2 DEF Min
  <2>4. Before(s, b) = Min(I) - 1
    BY <1>3, <1>4, <1>6 DEF Before
  <2>5. PICK m : m = Min(I)
    OBVIOUS
  <2>6. m \in 1..n /\ s[m] = b /\ (\A i \in I : m <= i) /\ Before(s, b) = m - 1
    BY <1>2, <2>3, <2>4, <2>5
  <2>7. \A i \in 1..m - 1 : s[i] # b
    <3>1. ASSUME NEW i \in 1..m - 1 PROVE s[i] # b
      <4>1. i \in 1..n /\ ~(m <= i)
        BY <1>1, <2>6
      <4> QED BY <1>2, <2>6, <4>1
    <3> QED BY <3>1
  <2>8. m - 1 \in 0..n /\ m - 1 + 1 = m
    BY <1>1, <2>6
  <2> QED BY <1>1, <2>6, <2>7, <2>8
<1> QED BY <1>5, <1>6

LEMMA BeforeAt ==
  ASSUME NEW s, s \in Seq(Letter), NEW b, NEW k \in 0..Len(s),
         \A i \in 1..k : s[i] # b, k < Len(s) => s[k + 1] = b
  PROVE  Before(s, b) = k
<1>1. PICK m : m = Before(s, b)
  OBVIOUS
<1>2. m \in 0..Len(s) /\ (\A i \in 1..m : s[i] # b) /\ (m < Len(s) => s[m + 1] = b)
  BY <1>1, BeforeIs
<1>3. ASSUME m < k PROVE FALSE
  <2>1. m < Len(s) /\ m + 1 \in 1..k
    BY <1>2, <1>3
  <2> QED BY <1>2, <2>1
<1>4. ASSUME k < m PROVE FALSE
  <2>1. k < Len(s) /\ k + 1 \in 1..m
    BY <1>2, <1>4
  <2> QED BY <1>2, <2>1
<1>5. m \in Nat /\ k \in Nat
  BY <1>2
<1> QED BY <1>1, <1>3, <1>4, <1>5

\* The word that stands before a space.
LEMMA WordOf ==
  ASSUME NEW a \in Seq(Unspaced), NEW u \in Seq(Letter)
  PROVE  /\ Word(a \o <<Space>> \o u) = a
         /\ Before(a \o <<Space>> \o u, Space) = Len(a)
<1>1. PICK t : t = <<Space>> \o u
  OBVIOUS
<1>2. a \in Seq(Letter) /\ (\A i \in 1..Len(a) : a[i] \in Unspaced) /\ Len(a) \in Nat
  <2>1. \A b \in Unspaced : b \in Letter
    BY DEF Unspaced
  <2>2. \A i \in 1..Len(a) : a[i] \in Unspaced
    OBVIOUS
  <2>3. Len(a) \in Nat /\ a = [i \in 1..Len(a) |-> a[i]]
    OBVIOUS
  <2>4. \A i \in 1..Len(a) : a[i] \in Letter
    BY <2>1, <2>2
  <2> QED BY <2>2, <2>3, <2>4
<1>3. t \in Seq(Letter) /\ Len(t) = 1 + Len(u) /\ t[1] = Space /\ Len(u) \in Nat
  <2>1. Space \in Letter
    BY Letters
  <2> QED BY <1>1, <2>1
<1>4. (a \o <<Space>>) \o u = a \o t
  <2>1. <<Space>> \in Seq(Letter)
    BY Letters
  <2>2. PICK c : c = <<Space>>
    OBVIOUS
  <2>3. (a \o c) \o u = a \o (c \o u)
    <3>1. Regroups(a, c, u)
      BY <1>2, <2>1, <2>2, JoinAgain
    <3> QED BY <3>1 DEF Regroups
  <2> QED BY <1>1, <2>2, <2>3
<1>5. PICK s : s = a \o t /\ Joins(s, a, t)
  BY <1>2, <1>3, LettersAt
<1>6. /\ s \in Seq(Letter) /\ Len(s) = Len(a) + Len(t)
      /\ \A i \in 1..Len(a) : s[i] = a[i]
      /\ s[Len(a) + 1] = Space
  <2>1. 1 \in 1..Len(t)
    BY <1>3
  <2> QED BY <1>3, <1>5, <2>1 DEF Joins
<1>7. Before(s, Space) = Len(a)
  <2>1. Len(a) \in 0..Len(s)
    BY <1>2, <1>3, <1>6
  <2>2. \A i \in 1..Len(a) : s[i] # Space
    BY <1>2, <1>6 DEF Unspaced
  <2> QED BY <1>6, <2>1, <2>2, BeforeAt
<1>8. SubSeq(s, 1, Len(a)) = a
  <2>1. SubSeq(s, 1, Len(a)) = [i \in 1..Len(a) |-> s[i]]
    <3>1. Len(a) <= Len(s)
      BY <1>2, <1>3, <1>6
    <3> QED BY <1>2, <1>6, <3>1
  <2>2. a = [i \in 1..Len(a) |-> a[i]]
    BY <1>2
  <2> QED BY <1>6, <2>1, <2>2
<1> QED BY <1>4, <1>5, <1>7, <1>8, WhiteIs

LEMMA WordEnds ==
  ASSUME NEW s, s \in Seq(Letter)
  PROVE  /\ Word(s) \in Seq(Unspaced) /\ Len(Word(s)) <= Len(s)
         /\ \A i \in 1..Len(Word(s)) : Word(s)[i] = s[i]
<1>1. PICK m : m = Before(s, Space)
  OBVIOUS
<1>2. m \in 0..Len(s) /\ \A i \in 1..m : s[i] # Space
  BY <1>1, BeforeIs
<1>3. Word(s) = SubSeq(s, 1, m)
  BY <1>1, WhiteIs
<1>4. Len(s) \in Nat /\ \A i \in 1..Len(s) : s[i] \in Letter
  OBVIOUS
<1>5. SubSeq(s, 1, m) = [i \in 1..m |-> s[i]]
  BY <1>2, <1>4
<1>6. m \in Nat /\ m <= Len(s) /\ \A i \in 1..m : s[i] \in Unspaced
  BY <1>2, <1>4 DEF Unspaced
<1>7. PICK w : w = [i \in 1..m |-> s[i]]
  OBVIOUS
<1>8. w \in Seq(Unspaced) /\ Len(w) = m /\ \A i \in 1..m : w[i] = s[i]
  BY <1>6, <1>7
<1> QED BY <1>3, <1>5, <1>6, <1>7, <1>8

\* The second word starts with a byte that is not white.
LEMMA NextStarts ==
  ASSUME NEW s, s \in Seq(Letter), NextWords(s) # <<>>
  PROVE  NextWords(s) \in Seq(Letter) /\ Len(NextWords(s)) > 0 /\ NextWords(s)[1] \notin White
<1>1. PICK m : m = Before(s, Space)
  OBVIOUS
<1>2. m \in 0..Len(s) /\ Len(s) \in Nat
  BY <1>1, BeforeIs
<1>3. PICK r : r = SubSeq(s, m + 1, Len(s))
  OBVIOUS
<1>4. r \in Seq(Letter)
  BY <1>2, <1>3
<1>5. PICK I : I = {i \in 1..Len(r) : r[i] \notin White}
  OBVIOUS
<1>6. PICK k : k = SelectInSeq(r, LAMBDA c : c \notin White)
  OBVIOUS
<1>7. NextWords(s) = IF k = 0 THEN <<>> ELSE SubSeq(r, k, Len(r))
  BY <1>1, <1>3, <1>6, WhiteIs
<1>8. (I = {} => k = 0) /\ (I # {} => k \in I)
  <2>1. Len(r) \in Nat
    BY <1>4
  <2> QED BY <1>5, <1>6, <2>1, FirstSelected
<1>9. k \in I
  BY <1>7, <1>8
<1>10. k \in 1..Len(r) /\ r[k] \notin White
  BY <1>5, <1>9
<1>11. NextWords(s) = SubSeq(r, k, Len(r))
  BY <1>7, <1>10
<1>12. PICK v : v = SubSeq(r, k, Len(r))
  OBVIOUS
<1>13. v \in Seq(Letter) /\ Len(v) = Len(r) - k + 1 /\ v[1] = r[k]
  BY <1>4, <1>10, <1>12
<1>14. Len(v) > 0
  BY <1>4, <1>10, <1>13
<1> QED BY <1>10, <1>11, <1>12, <1>13, <1>14

\* What stands behind a space is the next word.
LEMMA NextOf ==
  ASSUME NEW a \in Seq(Unspaced), NEW u \in Seq(Letter), Len(u) > 0, u[1] \notin White
  PROVE  NextWords(a \o <<Space>> \o u) = u
<1>1. PICK s : s = a \o <<Space>> \o u
  OBVIOUS
<1>2. PICK m, n : m = Len(a) /\ n = Len(u)
  OBVIOUS
<1>3. m \in Nat /\ n \in Nat /\ n > 0
  BY <1>2
<1>4. Before(s, Space) = m
  BY <1>1, <1>2, WordOf
<1>5. /\ Len(s) = m + 1 + n /\ s[m + 1] = Space /\ \A i \in 1..n : s[m + 1 + i] = u[i]
  <2>1. a \in Seq(Letter)
    <3>1. \A b \in Unspaced : b \in Letter
      BY DEF Unspaced
    <3>2. \A i \in 1..Len(a) : a[i] \in Unspaced
      OBVIOUS
    <3>3. Len(a) \in Nat /\ a = [i \in 1..Len(a) |-> a[i]]
      OBVIOUS
    <3>4. \A i \in 1..Len(a) : a[i] \in Letter
      BY <3>1, <3>2
    <3> QED BY <3>3, <3>4
  <2>2. PICK c : c = <<Space>>
    OBVIOUS
  <2>3. c \in Seq(Letter) /\ Len(c) = 1 /\ c[1] = Space
    BY <2>2, Letters
  <2>4. PICK e : e = a \o c /\ Joins(e, a, c)
    BY <2>1, <2>3, LettersAt
  <2>5. e \in Seq(Letter) /\ Len(e) = m + 1 /\ e[m + 1] = Space
    <3>1. 1 \in 1..Len(c)
      BY <2>3
    <3> QED BY <1>2, <2>3, <2>4, <3>1 DEF Joins
  <2>6. PICK f : f = e \o u /\ Joins(f, e, u)
    BY <2>5, LettersAt
  <2>7. m + 1 \in 1..Len(e)
    BY <1>3, <2>5
  <2>8. Len(f) = m + 1 + n /\ f[m + 1] = Space /\ \A i \in 1..n : f[m + 1 + i] = u[i]
    BY <1>2, <2>5, <2>6, <2>7 DEF Joins
  <2> QED BY <1>1, <2>2, <2>4, <2>6, <2>8
<1>6. PICK r : r = SubSeq(s, m + 1, Len(s))
  OBVIOUS
<1>7. r = [i \in 1..n + 1 |-> s[m + i]]
  <2>1. Len(s) - (m + 1) + 1 = n + 1 /\ \A i \in 1..n + 1 : m + 1 + i - 1 = m + i
    BY <1>3, <1>5
  <2> QED BY <1>3, <1>5, <1>6, <2>1
<1>8. Len(r) = n + 1 /\ r[1] = Space /\ \A i \in 1..n : r[i + 1] = u[i]
  <2>1. \A i \in 1..n : i + 1 \in 1..n + 1 /\ m + (i + 1) = m + 1 + i
    BY <1>3
  <2>2. 1 \in 1..n + 1 /\ n + 1 \in Nat
    BY <1>3
  <2> QED BY <1>5, <1>7, <2>1, <2>2
<1>9. PICK I : I = {i \in 1..Len(r) : r[i] \notin White}
  OBVIOUS
<1>10. 2 \in I /\ 1 \notin I /\ I \in SUBSET (1..n + 1)
  <2>1. 2 \in 1..Len(r) /\ r[2] = u[1]
    <3>1. 1 \in 1..n /\ 1 + 1 = 2 /\ 2 \in 1..n + 1
      BY <1>3
    <3> QED BY <1>8, <3>1
  <2>2. Space \in White
    BY DEF White
  <2> QED BY <1>8, <1>9, <2>1, <2>2
<1>11. PICK k : k = SelectInSeq(r, LAMBDA c : c \notin White)
  OBVIOUS
<1>12. k = 2
  <2>1. k \in I /\ k <= 2
    <3>1. Len(r) \in Nat /\ I # {}
      BY <1>3, <1>8, <1>10
    <3> QED BY <1>9, <1>10, <1>11, <3>1, FirstSelected
  <2> QED BY <1>3, <1>10, <2>1
<1>13. NextWords(s) = SubSeq(r, 2, Len(r))
  <2>1. NextWords(s) = IF k = 0 THEN <<>> ELSE SubSeq(r, k, Len(r))
    BY <1>4, <1>6, <1>11, WhiteIs
  <2> QED BY <1>12, <2>1
<1>14. SubSeq(r, 2, n + 1) = [i \in 1..n |-> r[i + 1]]
  <2>1. n + 1 - 2 + 1 = n /\ \A i \in 1..n : 2 + i - 1 = i + 1
    BY <1>3
  <2> QED BY <1>3, <1>7, <2>1
<1>15. u = [i \in 1..n |-> u[i]]
  BY <1>2
<1> QED BY <1>1, <1>8, <1>13, <1>14, <1>15

-----------------------------------------------------------------------------
(* Listings and the requests their links make. *)

LEMMA NamesLinkable ==
  /\ CodesTell /\ Space \notin Plain
  /\ \A f \in DOMAIN Disk :
       /\ f \in Seq(Letter) /\ f # <<>> /\ f[Len(f)] # "/"
       /\ f[1] = "static" => \A i \in 2..Len(f) : Encodable(f[i])
<1>1. CodesTell /\ Space \notin Plain
  BY Zenon, LinkableNames DEF CodesTell, Space
<1>2. ASSUME NEW f \in DOMAIN Disk
      PROVE  /\ f \in Seq(STRING) /\ f # <<>> /\ f[Len(f)] # "/"
             /\ f[1] = "static" => \A i \in 2..Len(f) : f[i] \in Plain \cup DOMAIN Code
  BY Zenon, LinkableNames DEF Last
<1>3. ASSUME NEW f \in DOMAIN Disk
      PROVE  /\ f \in Seq(Letter)
             /\ f[1] = "static" => \A i \in 2..Len(f) : Encodable(f[i])
  <2>1. \A b \in STRING : b \in Letter
    BY DEF Letter, Byte
  <2>2. f \in Seq(STRING)
    BY <1>2
  <2>3. Len(f) \in Nat /\ f = [i \in 1..Len(f) |-> f[i]] /\ \A i \in 1..Len(f) : f[i] \in STRING
    BY <2>2
  <2>4. \A i \in 1..Len(f) : f[i] \in Letter
    BY <2>1, <2>3
  <2>5. f \in Seq(Letter)
    BY <2>3, <2>4
  <2>6. \A i \in 2..Len(f) : i \in 1..Len(f)
    BY <2>3
  <2> QED BY <1>2, <2>4, <2>5, <2>6 DEF Encodable
<1> QED BY <1>1, <1>2, <1>3

LEMMA Unspace ==
  ASSUME NEW q \in Seq(Unspaced)
  PROVE  q \in Seq(Letter)
<1>1. \A b \in Unspaced : b \in Letter
  BY DEF Unspaced
<1>2. \A i \in 1..Len(q) : q[i] \in Unspaced
  OBVIOUS
<1>3. \A i \in 1..Len(q) : q[i] \in Letter
  BY <1>1, <1>2
<1>4. Len(q) \in Nat /\ q = [i \in 1..Len(q) |-> q[i]]
  OBVIOUS
<1> QED BY <1>3, <1>4

\* A sequence that ends with a slash.
Slashed(q) == Len(q) > 0 /\ q[Len(q)] = "/"

LEMMA SlashedBehind ==
  ASSUME NEW b \in Letter, NEW u \in Seq(Letter), Slashed(u) \/ (u = <<>> /\ b = "/")
  PROVE  Slashed(<<b>> \o u)
<1>1. PICK q : q = <<b>> \o u
  OBVIOUS
<1>2. Len(q) = 1 + Len(u) /\ q[1] = b /\ \A i \in 1..Len(u) : q[1 + i] = u[i]
  BY <1>1
<1>3. CASE Slashed(u)
  <2>1. Len(u) \in 1..Len(u) /\ Len(q) > 0
    BY <1>2, <1>3 DEF Slashed
  <2> QED BY <1>1, <1>2, <1>3, <2>1 DEF Slashed
<1>4. CASE u = <<>> /\ b = "/"
  BY <1>1, <1>2, <1>4 DEF Slashed
<1> QED BY <1>3, <1>4

LEMMA DecodesSlashed ==
  ASSUME NEW a \in Seq(Letter), Slashed(a)
  PROVE  Slashed(decode_str(a))
<1>1. PICK m \in Nat : m = Len(a) /\ m > 0 /\ a[m] = "/"
  BY DEF Slashed
<1>2. PICK f : Decoder(a, f) /\ decode_str(a) = f[1]
  BY Decodes
<1>3. PICK P : P = {i \in 1..m + 1 : i = m + 1 \/ Slashed(f[i])}
  OBVIOUS
<1>4. m + 1 \in P
  BY <1>1, <1>3
<1>5. f[m + 1] = <<>> /\ \A i \in 1..m + 1 : f[i] \in Seq(Letter)
  BY <1>1, <1>2 DEF Decoder
<1>6. ASSUME NEW i \in 1..m, \A j \in i + 1..m + 1 : j \in P PROVE i \in P
  <2>1. f[i] = IF Escaped(a, i) THEN <<Meant(a, i)>> \o f[i + 3] ELSE <<a[i]>> \o f[i + 1]
    BY <1>1, <1>2 DEF Decoder
  <2>2. i \in 1..m + 1
    BY <1>1
  <2>3. CASE Escaped(a, i)
    <3>1. i + 2 <= m /\ isxdigit(a[i + 2]) /\ Meant(a, i) \in Letter
      BY <1>1, <2>3, MeantLetter DEF Escaped
    <3>2. i + 2 # m
      BY <1>1, <3>1, SlashNoDigit
    <3>3. i + 3 \in i + 1..m + 1 /\ i + 3 # m + 1 /\ i + 3 \in 1..m + 1
      BY <1>1, <3>1, <3>2
    <3>4. Slashed(f[i + 3]) /\ f[i + 3] \in Seq(Letter)
      BY <1>3, <1>5, <1>6, <3>3
    <3>5. Slashed(f[i])
      BY <2>1, <2>3, <3>1, <3>4, SlashedBehind
    <3> QED BY <1>3, <2>2, <3>5
  <2>4. CASE ~Escaped(a, i)
    <3>1. i + 1 \in i + 1..m + 1 /\ i + 1 \in 1..m + 1
      BY <1>1
    <3>2. i + 1 = m + 1 => f[i + 1] = <<>> /\ a[i] = "/"
      <4>1. i + 1 = m + 1 => i = m
        BY <1>1
      <4> QED BY <1>1, <1>5, <4>1
    <3>3. i + 1 # m + 1 => Slashed(f[i + 1])
      BY <1>3, <1>6, <3>1
    <3>4. a[i] \in Letter /\ f[i + 1] \in Seq(Letter)
      BY <1>1, <1>5, <3>1
    <3>5. Slashed(f[i])
      BY <2>1, <2>4, <3>2, <3>3, <3>4, SlashedBehind
    <3> QED BY <1>3, <2>2, <3>5
  <2> QED BY <2>3, <2>4
<1>7. \A i \in 1..m + 1 : i \in P
  BY <1>4, <1>6, CountDown
<1>8. 1 \in P /\ 1 # m + 1
  BY <1>1, <1>7
<1> QED BY <1>2, <1>3, <1>8

\* A path that ends with a slash, and the directory that send_dir is given.
LEMMA DirectoryOf ==
  ASSUME NEW p \in Seq(Letter), Slashed(p), NEW d, d = <<"static">> \o Tail(p)
  PROVE  /\ d \in Seq(Letter) /\ Len(d) = Len(p) /\ d[1] = "static"
         /\ \A i \in 2..Len(p) : d[i] = p[i]
         /\ Within(d) = d
<1>1. Len(p) \in Nat /\ Len(p) > 0 /\ p[Len(p)] = "/"
  BY DEF Slashed
<1>2. PICK t : t = Tail(p)
  OBVIOUS
<1>3. t \in Seq(Letter) /\ Len(t) = Len(p) - 1 /\ \A i \in 1..Len(t) : t[i] = p[i + 1]
  BY <1>1, <1>2
<1>4. PICK c : c = <<"static">>
  OBVIOUS
<1>5. c \in Seq(Letter) /\ Len(c) = 1 /\ c[1] = "static"
  BY <1>4, Letters
<1>6. Joins(d, c, t)
  BY <1>2, <1>3, <1>4, <1>5, LettersAt
<1>7. d \in Seq(Letter) /\ Len(d) = Len(p) /\ d[1] = "static"
  <2>1. 1 \in 1..Len(c)
    BY <1>5
  <2> QED BY <1>1, <1>3, <1>5, <1>6, <2>1 DEF Joins
<1>8. ASSUME NEW i \in 2..Len(p) PROVE d[i] = p[i]
  <2>1. i - 1 \in 1..Len(t) /\ 1 + (i - 1) = i /\ (i - 1) + 1 = i
    BY <1>1, <1>3
  <2>2. d[1 + (i - 1)] = t[i - 1]
    BY <1>5, <1>6, <2>1 DEF Joins
  <2> QED BY <1>3, <2>1, <2>2
<1>9. Last(d) \in {"/", "static"}
  <2>1. CASE Len(p) = 1
    BY <1>7, <2>1 DEF Last
  <2>2. CASE Len(p) # 1
    <3>1. Len(p) \in 2..Len(p)
      BY <1>1, <2>2
    <3> QED BY <1>1, <1>7, <1>8, <3>1 DEF Last
  <2> QED BY <2>1, <2>2
<1>10. Within(d) = d
  BY <1>9 DEF Within
<1> QED BY <1>7, <1>8, <1>10

\* An entry of a listing.
LEMMA EntryIs ==
  ASSUME NEW d \in Seq(Letter), Len(d) > 0, d[1] = "static", Within(d) = d, NEW n \in Entries(d)
  PROVE  /\ n \in Seq(Letter) /\ Linkable(n) /\ \A i \in 1..Len(n) : n[i] # "/"
         /\ d \o n \in DOMAIN Disk
<1>1. PICK g \in DOMAIN Disk : IsPrefix(d, g) /\ n = SubSeq(g, Len(d) + 1, Len(g))
  BY DEF Entries
<1>2. n # <<>> /\ "/" \notin ToSet(n)
  BY DEF Entries
<1>3. g \in Seq(Letter) /\ (g[1] = "static" => \A i \in 2..Len(g) : Encodable(g[i]))
  BY <1>1, NamesLinkable
<1>4. PICK k, l : k = Len(d) /\ l = Len(g)
  OBVIOUS
<1>5. k \in Nat /\ l \in Nat /\ k > 0 /\ k <= l /\ SubSeq(d, 1, k) = SubSeq(g, 1, k)
  BY <1>1, <1>3, <1>4 DEF IsPrefix
<1>6. \A i \in 1..k : d[i] = g[i]
  <2>1. SubSeq(d, 1, k) = [i \in 1..k |-> d[i]]
    BY <1>4, <1>5
  <2>2. SubSeq(g, 1, k) = [i \in 1..k |-> g[i]]
    BY <1>3, <1>4, <1>5
  <2>3. PICK u, v : u = [i \in 1..k |-> d[i]] /\ v = [i \in 1..k |-> g[i]]
    OBVIOUS
  <2>4. u = v /\ \A i \in 1..k : u[i] = d[i] /\ v[i] = g[i]
    BY <1>5, <2>1, <2>2, <2>3
  <2> QED BY <2>4
<1>7. n = [i \in 1..l - k |-> g[k + i]]
  <2>1. l - (k + 1) + 1 = l - k /\ \A i \in 1..l - k : (k + 1) + i - 1 = k + i
    BY <1>5
  <2>2. SubSeq(g, k + 1, l) = [i \in 1..l - k |-> g[k + i]]
    BY <1>3, <1>4, <1>5, <2>1
  <2> QED BY <1>1, <1>4, <2>2
<1>8. \A i \in 1..l - k : g[k + i] \in Letter /\ k + i \in 2..l
  <2>1. \A i \in 1..l - k : k + i \in 1..l /\ k + i \in 2..l
    BY <1>5
  <2> QED BY <1>3, <1>4, <2>1
<1>9. n \in Seq(Letter) /\ Len(n) = l - k /\ \A i \in 1..l - k : n[i] = g[k + i]
  <2>1. l - k \in Nat
    BY <1>5
  <2> QED BY <1>7, <1>8, <2>1
<1>10. \A i \in 1..Len(n) : n[i] # "/"
  BY <1>2, <1>9 DEF ToSet
<1>11. Linkable(n)
  <2>1. Len(n) > 0
    BY <1>2, <1>9
  <2>2. g[1] = "static"
    <3>1. 1 \in 1..k
      BY <1>5
    <3> QED BY <1>6, <3>1
  <2>3. \A i \in 1..Len(n) : Encodable(n[i])
    BY <1>3, <1>4, <1>8, <1>9, <2>2
  <2> QED BY <1>9, <2>1, <2>3 DEF Linkable
<1>12. d \o n = g
  <2>1. PICK s : s = d \o n /\ Joins(s, d, n)
    BY <1>9, LettersAt
  <2>2. s \in Seq(Letter) /\ Len(s) = l
    BY <1>4, <1>5, <1>9, <2>1 DEF Joins
  <2>3. ASSUME NEW i \in 1..l PROVE s[i] = g[i]
    <3>1. CASE i <= k
      <4>1. i \in 1..k
        BY <3>1
      <4> QED BY <1>4, <1>6, <2>1, <4>1 DEF Joins
    <3>2. CASE ~(i <= k)
      <4>1. i - k \in 1..l - k /\ k + (i - k) = i
        BY <1>5, <3>2
      <4>2. s[k + (i - k)] = n[i - k]
        BY <1>4, <1>9, <2>1, <4>1 DEF Joins
      <4> QED BY <1>9, <4>1, <4>2
    <3> QED BY <3>1, <3>2
  <2>4. s = [i \in 1..l |-> s[i]] /\ g = [i \in 1..l |-> g[i]]
    BY <1>3, <1>4, <2>2
  <2> QED BY <2>1, <2>3, <2>4
<1> QED BY <1>1, <1>9, <1>10, <1>11, <1>12

\* The slash behind the link of a directory.
Slash(t) == t \in {<<>>, <<"/">>}

LEMMA SlashDecodes ==
  ASSUME NEW t, Slash(t)
  PROVE  t \in Seq(Unspaced) /\ t \in Seq(Letter) /\ decode_str(t) = t
<1>1. decode_str(<<>>) = <<>>
  <2>1. <<>> \in Seq(Letter) /\ Len(<<>>) = 0
    OBVIOUS
  <2>2. PICK e : e = <<>>
    OBVIOUS
  <2>3. PICK f : Decoder(e, f) /\ decode_str(e) = f[1]
    BY <2>1, <2>2, Decodes
  <2> QED BY <2>1, <2>2, <2>3 DEF Decoder
<1>2. "/" \in Letter /\ "/" # "%" /\ "/" \in Unspaced
  <2>1. "/" # Space
    BY DEF Space
  <2>2. "/" \in Letter
    BY Letters
  <2> QED BY <2>1, <2>2, Zenon DEF Unspaced
<1>3. <<>> \in Seq(Letter)
  OBVIOUS
<1>4. decode_str(<<"/">> \o <<>>) = <<"/">> \o <<>>
  BY <1>1, <1>2, <1>3, DecodesPlain
<1>5. <<"/">> \o <<>> = <<"/">> /\ <<"/">> \in Seq(Letter) /\ <<"/">> \in Seq(Unspaced)
  BY <1>2
<1>6. <<>> \in Seq(Unspaced)
  OBVIOUS
<1>7. CASE t = <<>>
  BY <1>1, <1>3, <1>6, <1>7
<1>8. CASE t = <<"/">>
  BY <1>4, <1>5, <1>8
<1> QED BY <1>7, <1>8 DEF Slash

\* A GET for what stands between the spaces.
LEMMA GetIs ==
  ASSUME NEW a \in Seq(Unspaced), Len(a) > 0, a[1] \notin White,
         NEW l, l = <<"GET", Space>> \o a \o <<Space, "HTTP/1.1", LF>>
  PROVE  Word(l) = <<"GET">> /\ Path(l) = decode_str(a)
<1>1. PICK g : g = <<"GET">>
  OBVIOUS
<1>2. PICK s : s = <<Space>>
  OBVIOUS
<1>3. PICK h : h = <<"HTTP/1.1", LF>>
  OBVIOUS
<1>4. g \in Seq(Letter) /\ s \in Seq(Letter) /\ h \in Seq(Letter)
  BY <1>1, <1>2, <1>3, Letters
<1>5. g \in Seq(Unspaced)
  <2>1. "GET" # Space
    BY DEF Space
  <2>2. "GET" \in Letter
    BY Letters
  <2>3. "GET" \in Unspaced
    BY <2>1, <2>2, Zenon DEF Unspaced
  <2> QED BY <1>1, <2>3
<1>6. a \in Seq(Letter)
  BY Unspace
<1>7. <<"GET", Space>> = g \o s /\ <<Space, "HTTP/1.1", LF>> = s \o h
  BY <1>1, <1>2, <1>3
<1>8. PICK u : u = a \o s \o h
  OBVIOUS
<1>9. /\ u \in Seq(Letter) /\ Len(u) > 0 /\ u[1] = a[1] /\ u = a \o (s \o h)
  <2>1. s \o h \in Seq(Letter) /\ (a \o s) \o h = a \o (s \o h)
    <3>1. s \o h \in Seq(Letter)
      BY <1>4, JoinLetters, Zenon
    <3>2. (a \o s) \o h = a \o (s \o h)
      <4>1. Regroups(a, s, h)
        BY <1>4, <1>6, JoinAgain
      <4> QED BY <4>1 DEF Regroups
    <3> QED BY <3>1, <3>2
  <2>2. PICK t : t = s \o h
    OBVIOUS
  <2>3. Joins(a \o t, a, t)
    BY <1>6, <2>1, <2>2, LettersAt
  <2>4. Len(a) \in Nat /\ Len(t) \in Nat /\ 1 \in 1..Len(a)
    BY <1>6, <2>1, <2>2
  <2>5. Joins(u, a, t)
    BY <1>8, <2>1, <2>2, <2>3
  <2> QED BY <1>8, <2>1, <2>4, <2>5 DEF Joins
<1>10. l = g \o s \o u
  <2>1. PICK c, d : c = g \o s /\ d = s \o h
    OBVIOUS
  <2>2. c \in Seq(Letter) /\ d \in Seq(Letter)
    BY <1>4, <2>1, JoinLetters, Zenon
  <2>3. (c \o a) \o d = c \o (a \o d)
    <3>1. Regroups(c, a, d)
      BY <1>6, <2>2, JoinAgain
    <3> QED BY <3>1 DEF Regroups
  <2> QED BY <1>7, <1>9, <2>1, <2>3
<1>11. Word(l) = g /\ NextWords(l) = u
  <2>1. Word(l) = g
    BY <1>2, <1>5, <1>9, <1>10, WordOf
  <2>2. NextWords(l) = u
    BY <1>2, <1>5, <1>9, <1>10, NextOf
  <2> QED BY <2>1, <2>2
<1>12. Word(u) = a
  BY <1>2, <1>4, <1>8, WordOf
<1> QED BY <1>1, <1>11, <1>12 DEF Path

\* What the answer to a path that leads below ./static/ is.
Served(q, file) == file = <<"static">> \o Tail(q)
Below(q) == q # <<"/">> /\ q # <<"/", "api", "/", "check">>
Asks(l, q) == Word(l) = <<"GET">> /\ Path(l) = q

LEMMA GetBelow ==
  ASSUME NEW q, Below(q), NEW l, Asks(l, q), NEW file, Served(q, file)
  PROVE  AnswerTo(l, <<>>) =
           IF Stat(file) = {} \/ file = NotFound THEN SendFile(404, NotFound)
           ELSE IF \E d \in Stat(file) : Disk[d] = Directory THEN SendDir(file)
           ELSE SendFile(IF file = NotImplemented THEN 501 ELSE 200, file)
<1>1. Word(l) # <<"POST">>
  <2>1. <<"GET">>[1] # <<"POST">>[1]
    OBVIOUS
  <2> QED BY <2>1 DEF Asks
<1>2. AnswerTo(l, <<>>) = AnswerGet(q)
  BY <1>1 DEF AnswerTo, Asks
<1> QED BY <1>2 DEF AnswerGet, Below, Served

\* What a listing is the answer to.
LEMMA ListingIs ==
  ASSUME NEW l, NEW body, AnswerTo(l, body).what = "directory",
         Disk[Index] # Directory, Disk[DataText] # Directory
  PROVE  /\ AnswerTo(l, body) = SendDir(<<"static">> \o Tail(Path(l)))
         /\ Path(l) # <<"/">>
<1>1. ASSUME NEW s, NEW f PROVE SendFile(s, f).what = "file" /\ SendFile(s, f).content = f
  BY DEF SendFile, SendHead
<1>2. Word(l) # <<"POST">>
  <2>1. SUFFICES ASSUME Word(l) = <<"POST">> PROVE AnswerTo(l, body).what # "directory"
    OBVIOUS
  <2>2. AnswerTo(l, body) = AnswerPost(Path(l), body)
    BY <2>1 DEF AnswerTo
  <2>3. AnswerPost(Path(l), body).what \in {"file", "echo"}
    BY <1>1 DEF AnswerPost, SendHead
  <2> QED BY <2>2, <2>3
<1>3. Word(l) = <<"GET">>
  <2>1. SUFFICES ASSUME Word(l) # <<"GET">> PROVE AnswerTo(l, body).what # "directory"
    OBVIOUS
  <2>2. AnswerTo(l, body) = SendFile(501, NotImplemented)
    BY <1>2, <2>1 DEF AnswerTo
  <2> QED BY <1>1, <2>2
<1>4. AnswerTo(l, body) = AnswerGet(Path(l))
  BY <1>2, <1>3 DEF AnswerTo
<1>5. PICK p : p = Path(l)
  OBVIOUS
<1>6. PICK file : file = IF p = <<"/">> THEN Index
                         ELSE IF p = <<"/", "api", "/", "check">> THEN DataText
                         ELSE <<"static">> \o Tail(p)
  OBVIOUS
<1>7. AnswerGet(p) = IF Stat(file) = {} \/ file = NotFound THEN SendFile(404, NotFound)
                     ELSE IF \E d \in Stat(file) : Disk[d] = Directory THEN SendDir(file)
                     ELSE SendFile(IF file = NotImplemented THEN 501 ELSE 200, file)
  BY <1>6 DEF AnswerGet
<1>8. (\E d \in Stat(file) : Disk[d] = Directory) /\ AnswerGet(p) = SendDir(file)
  BY <1>1, <1>4, <1>5, <1>7
<1>9. file \notin {Index, DataText}
  <2>1. Index \in DOMAIN Disk /\ DataText \in DOMAIN Disk
    BY RequestConstants
  <2> QED BY <1>8, <2>1 DEF Stat
<1> QED BY <1>4, <1>5, <1>6, <1>8, <1>9

\* Only data.txt is /api/check, and the files behind fixed paths are files.
FixedPaths ==
  /\ Disk[Index] # Directory /\ Disk[DataText] # Directory
  /\ <<"static", "api", "/", "check">> \notin DOMAIN Disk

LEMMA FourLetters ==
  ASSUME NEW q \in Seq(Letter), Len(q) = 4
  PROVE  q = <<q[1], q[2], q[3], q[4]>>
OBVIOUS

\* An entry's path is no fixed one.
LEMMA EntryPath ==
  ASSUME FixedPaths, NEW p \in Seq(Letter), Slashed(p),
         NEW d, Served(p, d),
         NEW n \in Seq(Letter), Len(n) > 0, \A i \in 1..Len(n) : n[i] # "/", d \o n \in DOMAIN Disk,
         NEW t, Slash(t), NEW q, q = p \o (n \o t)
  PROVE  Below(q) /\ Served(q, (d \o n) \o t)
<1>1. /\ d \in Seq(Letter) /\ Len(d) = Len(p) /\ d[1] = "static"
      /\ \A i \in 2..Len(p) : d[i] = p[i]
  BY DirectoryOf DEF Served
<1>2. t \in Seq(Letter) /\ Len(t) \in 0..1
  <2>1. t \in Seq(Letter)
    BY SlashDecodes
  <2>2. CASE t = <<>>
    BY <2>1, <2>2
  <2>3. CASE t = <<"/">>
    BY <2>1, <2>3
  <2> QED BY <2>2, <2>3 DEF Slash
<1>3. PICK k, m : k = Len(p) /\ m = Len(n)
  OBVIOUS
<1>4. k \in Nat /\ m \in Nat /\ k > 0 /\ m > 0 /\ p[k] = "/"
  BY <1>3 DEF Slashed
<1>5. PICK u : u = n \o t /\ Joins(u, n, t)
  BY <1>2, LettersAt
<1>6. u \in Seq(Letter) /\ Len(u) = m + Len(t) /\ \A i \in 1..m : u[i] = n[i]
  BY <1>3, <1>5 DEF Joins
<1>7. q = p \o u /\ Joins(q, p, u)
  BY <1>5, <1>6, LettersAt
<1>8. /\ q \in Seq(Letter) /\ Len(q) = k + m + Len(t)
      /\ \A i \in 1..k : q[i] = p[i]
      /\ \A i \in 1..m : q[k + i] = n[i]
  <2>1. q \in Seq(Letter) /\ Len(q) = k + (m + Len(t)) /\ \A i \in 1..k : q[i] = p[i]
    BY <1>3, <1>6, <1>7 DEF Joins
  <2>2. \A i \in 1..m : i \in 1..Len(u)
    BY <1>2, <1>4, <1>6
  <2>3. \A i \in 1..m : q[k + i] = n[i]
    BY <1>3, <1>6, <1>7, <2>2 DEF Joins
  <2>4. k + (m + Len(t)) = k + m + Len(t)
    BY <1>2, <1>4
  <2> QED BY <2>1, <2>3, <2>4
<1>9. q # <<"/">>
  <2>1. Len(<<"/">>) = 1
    OBVIOUS
  <2>2. Len(q) > 1
    BY <1>2, <1>4, <1>8
  <2> QED BY <2>1, <2>2
<1>10. q # <<"/", "api", "/", "check">>
  <2> SUFFICES ASSUME q = <<"/", "api", "/", "check">> PROVE FALSE
    OBVIOUS
  <2>1. Len(q) = 4 /\ q[1] = "/" /\ q[2] = "api" /\ q[3] = "/" /\ q[4] = "check"
    OBVIOUS
  <2>2. k \in 1..3 /\ m \in 1..3
    BY <1>2, <1>4, <1>8, <2>1
  <2>3. CASE k = 1
    <3>1. m # 1
      <4>1. PICK e : e = Len(t)
        OBVIOUS
      <4>2. e \in 0..1 /\ k + m + e = 4
        BY <1>2, <1>8, <2>1, <4>1
      <4>3. k + e # 3
        BY <2>3, <4>2
      <4> QED BY <2>2, <2>3, <4>2, <4>3
    <3>2. 2 \in 1..m /\ k + 2 = 3
      BY <2>2, <2>3, <3>1
    <3>3. n[2] = "/"
      BY <1>8, <2>1, <3>2
    <3> QED BY <1>3, <3>2, <3>3
  <2>4. CASE k = 2
    <3>1. q[2] = "/"
      <4>1. 2 \in 1..k
        BY <2>4
      <4> QED BY <1>4, <1>8, <2>4, <4>1
    <3> QED BY <2>1, <3>1
  <2>5. CASE k = 3
    <3>1. m = 1 /\ 1 \in 1..m
      BY <1>2, <1>8, <2>1, <2>2, <2>5
    <3>2. n[1] = "check"
      BY <1>8, <2>1, <2>5, <3>1
    <3>3. d[2] = "api" /\ d[3] = "/" /\ Len(d) = 3
      <4>1. 2 \in 2..Len(p) /\ 3 \in 2..Len(p) /\ 2 \in 1..k /\ 3 \in 1..k
        BY <1>3, <2>5
      <4> QED BY <1>1, <1>3, <1>8, <2>1, <2>5, <4>1
    <3>4. PICK w : w = d \o n /\ Joins(w, d, n)
      BY <1>1, LettersAt
    <3>5. w \in Seq(Letter) /\ Len(w) = 4
      <4>1. w \in Seq(Letter) /\ Len(w) = Len(d) + Len(n)
        BY <3>4 DEF Joins
      <4>2. Len(d) = 3 /\ Len(n) = 1
        BY <1>3, <3>1, <3>3
      <4>3. 3 + 1 = 4
        OBVIOUS
      <4> QED BY <4>1, <4>2, <4>3
    <3>6. w[1] = "static" /\ w[2] = "api" /\ w[3] = "/" /\ w[4] = "check"
      <4>1. 1 \in 1..Len(d) /\ 2 \in 1..Len(d) /\ 3 \in 1..Len(d)
        BY <3>3
      <4>2. w[1] = d[1] /\ w[2] = d[2] /\ w[3] = d[3]
        BY <3>4, <4>1 DEF Joins
      <4>3. w[3 + 1] = n[1]
        BY <1>3, <3>1, <3>3, <3>4 DEF Joins
      <4> QED BY <1>1, <3>2, <3>3, <4>2, <4>3
    <3>7. w = <<"static", "api", "/", "check">>
      BY <3>5, <3>6, FourLetters
    <3> QED BY <3>4, <3>7 DEF FixedPaths
  <2> QED BY <2>2, <2>3, <2>4, <2>5
<1>11. <<"static">> \o Tail(q) = (d \o n) \o t
  <2>1. Len(q) > 0
    BY <1>2, <1>4, <1>8
  <2>2. PICK c, r, s : c = <<"static">> /\ r = Tail(p) /\ s = Tail(q)
    OBVIOUS
  <2>3. c \in Seq(Letter) /\ r \in Seq(Letter)
    <3>1. c \in Seq(Letter)
      BY <2>2, Letters
    <3>2. r \in Seq(Letter)
      BY <1>3, <1>4, <2>2
    <3> QED BY <3>1, <3>2
  <2>4. s = r \o u
    <3>1. Len(p) > 0 /\ p # <<>>
      BY <1>3, <1>4
    <3>2. /\ r \in Seq(Letter) /\ Len(r) = k - 1 /\ \A i \in 1..k - 1 : r[i] = p[i + 1]
      BY <1>3, <1>4, <2>2
    <3>3. /\ s \in Seq(Letter) /\ Len(s) = k + m + Len(t) - 1
          /\ \A i \in 1..k + m + Len(t) - 1 : s[i] = q[i + 1]
      <4>1. q \in Seq(Letter) /\ Len(q) > 0 /\ s = Tail(q)
        BY <1>8, <2>1, <2>2
      <4>2. /\ s \in Seq(Letter) /\ Len(s) = Len(q) - 1
            /\ \A i \in 1..Len(q) - 1 : s[i] = q[i + 1]
        BY <4>1, TailLetters
      <4>3. Len(q) - 1 = k + m + Len(t) - 1
        BY <1>2, <1>4, <1>8
      <4> QED BY <4>2, <4>3, Zenon
    <3>4. PICK v : v = r \o u /\ Joins(v, r, u)
      BY <1>6, <3>2, LettersAt
    <3>5. v \in Seq(Letter) /\ Len(v) = k + m + Len(t) - 1
      BY <1>2, <1>4, <1>6, <3>2, <3>4 DEF Joins
    <3>6. ASSUME NEW i \in 1..k + m + Len(t) - 1 PROVE s[i] = v[i]
      <4>1. CASE i <= k - 1
        <5>1. i \in 1..k - 1 /\ i + 1 \in 1..k
          BY <1>4, <4>1
        <5> QED BY <1>8, <3>2, <3>3, <3>4, <5>1 DEF Joins
      <4>2. CASE ~(i <= k - 1)
        <5>1. PICK j \in Int : j = i - (k - 1)
          BY <1>4
        <5>2. j \in 1..m + Len(t) /\ (k - 1) + j = i /\ k + j = i + 1
          BY <1>2, <1>4, <4>2, <5>1
        <5>3. v[(k - 1) + j] = u[j]
          BY <1>6, <3>2, <3>4, <5>2 DEF Joins
        <5>4. q[k + j] = u[j]
          BY <1>3, <1>6, <1>7, <5>2 DEF Joins
        <5> QED BY <3>3, <5>2, <5>3, <5>4
      <4> QED BY <4>1, <4>2
    <3>7. s = [i \in 1..k + m + Len(t) - 1 |-> s[i]] /\ v = [i \in 1..k + m + Len(t) - 1 |-> v[i]]
      BY <3>3, <3>5
    <3>8. s = v
      BY <3>6, <3>7
    <3> QED BY <3>4, <3>8
  <2>5. c \o (r \o u) = (c \o r) \o u
    <3>1. Regroups(c, r, u)
      BY <1>6, <2>3, JoinAgain
    <3> QED BY <3>1 DEF Regroups
  <2>6. d \o (n \o t) = (d \o n) \o t
    <3>1. Regroups(d, n, t)
      BY <1>1, <1>2, JoinAgain
    <3> QED BY <3>1 DEF Regroups
  <2> QED BY <1>5, <2>2, <2>4, <2>5, <2>6 DEF Served
<1> QED BY <1>9, <1>10, <1>11 DEF Below, Served

\* The names stat finds.
LEMMA StatName ==
  ASSUME NEW f \in DOMAIN Disk
  PROVE  Stat(f) = {f} /\ f \o <<"/">> \notin DOMAIN Disk
         /\ (Disk[f] = Directory => Stat(f \o <<"/">>) = {f})
<1>1. PICK c : c = <<"/">>
  OBVIOUS
<1>2. c \in Seq(Letter) /\ Len(c) = 1 /\ c[1] = "/"
  BY <1>1, Letters
<1>3. ASSUME NEW d \in DOMAIN Disk
      PROVE  /\ d \in Seq(Letter) /\ Len(d) \in Nat /\ Len(d) > 0 /\ d[Len(d)] # "/"
             /\ d \o c \in Seq(Letter) /\ Len(d \o c) = Len(d) + 1 /\ (d \o c)[Len(d) + 1] = "/"
             /\ \A i \in 1..Len(d) : (d \o c)[i] = d[i]
  <2>1. d \in Seq(Letter) /\ d # <<>> /\ d[Len(d)] # "/"
    BY NamesLinkable
  <2>2. Len(d) \in Nat /\ Len(d) > 0
    BY <2>1
  <2>3. Joins(d \o c, d, c)
    BY <1>2, <2>1, LettersAt
  <2>4. 1 \in 1..Len(c)
    BY <1>2
  <2> QED BY <1>2, <2>1, <2>2, <2>3, <2>4 DEF Joins
<1>4. f \o c \notin DOMAIN Disk
  <2> SUFFICES ASSUME f \o c \in DOMAIN Disk PROVE FALSE
    OBVIOUS
  <2>1. (f \o c)[Len(f \o c)] # "/"
    BY <1>3
  <2> QED BY <1>3, <2>1
<1>5. ASSUME NEW d \in DOMAIN Disk, f \o c = d \o c PROVE d = f
  <2>1. Len(d) = Len(f)
    <3>1. Len(f) + 1 = Len(d) + 1
      BY <1>3, <1>5
    <3> QED BY <1>3, <3>1
  <2>2. \A i \in 1..Len(f) : d[i] = f[i]
    BY <1>3, <1>5, <2>1
  <2>3. f = [i \in 1..Len(f) |-> f[i]] /\ d = [i \in 1..Len(d) |-> d[i]]
    <3>1. f \in Seq(Letter) /\ d \in Seq(Letter)
      BY <1>3
    <3> QED BY <3>1
  <2> QED BY <2>1, <2>2, <2>3
<1>6. Stat(f) = {f}
  BY DEF Stat
<1>7. Disk[f] = Directory => Stat(f \o c) = {f}
  <2>1. Stat(f \o c) = {d \in DOMAIN Disk : Disk[d] = Directory /\ f \o c = d \o c}
    BY <1>1, <1>4 DEF Stat
  <2> QED BY <1>5, <2>1
<1> QED BY <1>1, <1>4, <1>6, <1>7

LEMMA FrontJoined ==
  ASSUME NEW S, NEW x \in Seq(S), NEW y \in Seq(S), Len(x) > 0
  PROVE  x \o y \in Seq(S) /\ Len(x \o y) > 0 /\ (x \o y)[1] = x[1]
<1>1. Len(x) \in Nat /\ Len(y) \in Nat /\ 1 \in 1..Len(x)
  OBVIOUS
<1>2. x \o y \in Seq(S) /\ Len(x \o y) = Len(x) + Len(y)
  OBVIOUS
<1>3. (x \o y)[1] = x[1]
  BY <1>1
<1> QED BY <1>1, <1>2, <1>3

\* The request line for a link k in the listing of path b.
LinkLine(b, k, l) == l = <<"GET", Space>> \o b \o k \o <<Space, "HTTP/1.1", LF>>

\* l gets the entry n of directory d.
Leads(d, n, l) ==
  IF Disk[Within(d) \o n] = Directory
  THEN AnswerTo(l, <<>>) = SendDir(Append(Within(d) \o n, "/"))
  ELSE AnswerTo(l, <<>>).what = "file" /\ AnswerTo(l, <<>>).content = Within(d) \o n

\* The answer to a link.
LEMMA LinkLeads ==
  ASSUME FixedPaths, NEW b \in Seq(Unspaced), Slashed(b), b[1] \notin White,
         NEW d, Served(decode_str(b), d), NEW n \in Entries(d),
         NEW l, LinkLine(b, Link(d, n), l)
  PROVE  Leads(d, n, l)
<1>1. b \in Seq(Letter) /\ Len(b) > 0
  BY Unspace DEF Slashed
<1>2. PICK p : p = decode_str(b)
  OBVIOUS
<1>3. p \in Seq(Letter) /\ Slashed(p)
  BY <1>1, <1>2, DecodesToLetters, DecodesSlashed
<1>4. d \in Seq(Letter) /\ Len(d) > 0 /\ d[1] = "static" /\ Within(d) = d
  <2>1. d \in Seq(Letter) /\ Len(d) = Len(p) /\ d[1] = "static" /\ Within(d) = d
    BY <1>2, <1>3, DirectoryOf DEF Served
  <2> QED BY <1>3, <2>1 DEF Slashed
<1>5. /\ n \in Seq(Letter) /\ Linkable(n) /\ \A i \in 1..Len(n) : n[i] # "/"
      /\ d \o n \in DOMAIN Disk
  BY <1>4, EntryIs
<1>6. PICK t : t = IF Disk[d \o n] = Directory THEN <<"/">> ELSE <<>>
  OBVIOUS
<1>7. Slash(t) /\ t \in Seq(Unspaced) /\ t \in Seq(Letter) /\ decode_str(t) = t
  <2>1. Slash(t)
    BY <1>6 DEF Slash
  <2> QED BY <2>1, SlashDecodes
<1>8. PICK e : e = encode_str(n)
  OBVIOUS
<1>9. e \in Seq(Unspaced) /\ decode_str(e \o t) = n \o t
  <2>1. CodesTell /\ Space \notin Plain
    BY NamesLinkable
  <2> QED BY <1>5, <1>7, <1>8, <2>1, EncodeDecode
<1>10. Link(d, n) = e \o t
  BY <1>4, <1>6, <1>8 DEF Link
<1>11. PICK a : a = b \o (e \o t)
  OBVIOUS
<1>12. e \o t \in Seq(Unspaced) /\ e \o t \in Seq(Letter)
  <2>1. ASSUME NEW x \in Seq(Unspaced), NEW y \in Seq(Unspaced) PROVE x \o y \in Seq(Unspaced)
    OBVIOUS
  <2>2. e \o t \in Seq(Unspaced)
    BY <1>7, <1>9, <2>1
  <2> QED BY <2>2, Unspace
<1>13. a \in Seq(Unspaced) /\ Len(a) > 0 /\ a[1] \notin White
  <2>1. a \in Seq(Unspaced) /\ Len(a) > 0 /\ a[1] = b[1]
    BY <1>1, <1>11, <1>12, FrontJoined
  <2> QED BY <2>1
<1>14. decode_str(a) = p \o (n \o t)
  <2>1. b[Len(b)] = "/"
    BY DEF Slashed
  <2> QED BY <1>1, <1>2, <1>9, <1>11, <1>12, <2>1, DecodesBehindSlash
<1>15. l = <<"GET", Space>> \o a \o <<Space, "HTTP/1.1", LF>>
  <2>1. PICK g : g = <<"GET", Space>>
    OBVIOUS
  <2>2. g \in Seq(Letter)
    BY <2>1, Letters
  <2>3. (g \o b) \o (e \o t) = g \o (b \o (e \o t))
    <3>1. Regroups(g, b, e \o t)
      BY <1>1, <1>12, <2>2, JoinAgain
    <3> QED BY <3>1 DEF Regroups
  <2> QED BY <1>10, <1>11, <2>1, <2>3 DEF LinkLine
<1>16. Word(l) = <<"GET">> /\ Path(l) = decode_str(a)
  BY <1>13, <1>15, GetIs
<1>17. PICK q : q = p \o (n \o t)
  OBVIOUS
<1>18. Below(q) /\ Served(q, (d \o n) \o t)
  <2>1. Len(n) > 0
    BY <1>5 DEF Linkable
  <2>2. Served(p, d)
    BY <1>2
  <2> QED BY <1>3, <1>5, <1>7, <1>17, <2>1, <2>2, EntryPath
<1>19. PICK f \in DOMAIN Disk : f = d \o n
  BY <1>5
<1>20. Stat(f) = {f} /\ f \o <<"/">> \notin DOMAIN Disk
       /\ (Disk[f] = Directory => Stat(f \o <<"/">>) = {f})
  BY StatName
<1>21. AnswerTo(l, <<>>) =
         IF Stat(f \o t) = {} \/ f \o t = NotFound THEN SendFile(404, NotFound)
         ELSE IF \E x \in Stat(f \o t) : Disk[x] = Directory THEN SendDir(f \o t)
         ELSE SendFile(IF f \o t = NotImplemented THEN 501 ELSE 200, f \o t)
  <2>1. Asks(l, q)
    BY <1>14, <1>16, <1>17 DEF Asks
  <2>2. PICK g : g = f \o t
    OBVIOUS
  <2>3. Served(q, g)
    BY <1>18, <1>19, <2>2
  <2>5. AnswerTo(l, <<>>) =
          IF Stat(g) = {} \/ g = NotFound THEN SendFile(404, NotFound)
          ELSE IF \E x \in Stat(g) : Disk[x] = Directory THEN SendDir(g)
          ELSE SendFile(IF g = NotImplemented THEN 501 ELSE 200, g)
    BY <1>18, <2>1, <2>3, GetBelow
  <2> QED BY <2>2, <2>5
<1>22. CASE Disk[f] = Directory
  <2>1. t = <<"/">>
    BY <1>6, <1>19, <1>22
  <2>2. f \o t # NotFound
    <3>1. NotFound \in DOMAIN Disk
      BY RequestConstants
    <3> QED BY <1>20, <2>1, <3>1
  <2>3. Stat(f \o t) = {f}
    BY <1>20, <1>22, <2>1
  <2>4. AnswerTo(l, <<>>) = SendDir(f \o t)
    BY <1>21, <1>22, <2>2, <2>3
  <2>5. f \o <<"/">> = Append(f, "/")
    <3>1. f \in Seq(Letter)
      BY NamesLinkable
    <3> QED BY <3>1
  <2> QED BY <1>4, <1>19, <1>22, <2>1, <2>4, <2>5 DEF Leads
<1>23. CASE Disk[f] # Directory
  <2>1. f \o t = f
    <3>1. t = <<>>
      BY <1>6, <1>19, <1>23
    <3>2. f \in Seq(Letter)
      BY NamesLinkable
    <3> QED BY <3>1, <3>2, JoinNothing
  <2>2. ~ \E x \in Stat(f) : Disk[x] = Directory
    BY <1>20, <1>23
  <2>3. Stat(f) # {}
    BY <1>20
  <2>4. ASSUME NEW s, NEW g PROVE SendFile(s, g).what = "file" /\ SendFile(s, g).content = g
    BY DEF SendFile, SendHead
  <2>5. AnswerTo(l, <<>>).what = "file" /\ AnswerTo(l, <<>>).content = f
    <3>1. CASE f = NotFound
      BY <1>21, <2>1, <2>4, <3>1
    <3>2. CASE f # NotFound
      <4>1. AnswerTo(l, <<>>) = SendFile(IF f = NotImplemented THEN 501 ELSE 200, f)
        BY <1>21, <2>1, <2>2, <2>3, <3>2
      <4> QED BY <2>4, <4>1
    <3> QED BY <3>1, <3>2
  <2> QED BY <1>4, <1>19, <1>23, <2>5 DEF Leads
<1> QED BY <1>22, <1>23

\* The answer is to the request line, which does not change any more.
AnswersLine ==
  /\ pc # "done" => answer = NoAnswer
  /\ answer # NoAnswer => \E body : answer = AnswerTo(line, body)

LEMMA LineAnswered == RequestSpec => [](line \in Seq(Byte) /\ AnswersLine)
<1>1. RequestInit => AnswersLine
  BY DEF RequestInit, AnswersLine
<1>2. AnswersLine /\ [RequestNext]_requestVars => AnswersLine'
  <2> SUFFICES ASSUME AnswersLine, [RequestNext]_requestVars PROVE AnswersLine'
    OBVIOUS
  <2>1. CASE UNCHANGED <<pc, line, answer>>
    BY <2>1 DEF AnswersLine
  <2>2. CASE GetLine
    BY <2>2 DEF AnswersLine, GetLine, RequestLine, HeaderLine
  <2>3. CASE HttpRequest
    <3>1. /\ pc' = "done" /\ line' = line
          /\ answer' = AnswerTo(line, arrived) \/ answer' = AnswerTo(line, <<>>)
      BY <2>3 DEF HttpRequest
    <3> QED BY <3>1 DEF AnswersLine
  <2> QED BY <2>1, <2>2, <2>3 DEF RequestNext, Arrive, RecvByte, PeekByte, requestVars
<1>3. RequestInv => line \in Seq(Byte)
  BY DEF RequestInv, RequestTypes
<1> QED BY <1>1, <1>2, <1>3, RequestStarts, RequestSteps, PTL DEF RequestSpec

\* The request line has a path: without one, sscanf leaves path as it is.
HasPath == NextWords(line) # <<>>

LEMMA LinksAre ==
  LinksLead <=>
    (pc = "done" /\ answer # NoAnswer /\ answer.what = "directory" =>
       \A entry \in answer.content :
         LET base == Word(NextWords(line))
             file == AnswerTo(<<"GET", Space>> \o base \o entry[2] \o <<Space, "HTTP/1.1", LF>>, <<>>)
             name == Within(<<"static">> \o Tail(decode_str(base))) \o entry[1]
         IN  Last(base) = "/" =>
               IF Disk[name] = Directory THEN file = SendDir(Append(name, "/"))
               ELSE file.what = "file" /\ file.content = name)
BY Zenon DEF LinksLead, Space

\* Whatever the names below ./static/ are, every link in a listing of a path that
\* ends with "/" gets the entry it stands for: encode_str writes what decode_str,
\* behind sscanf, reads back.
THEOREM ListingsLead ==
  ASSUME FixedPaths
  PROVE  RequestSpec => [](HasPath => LinksLead)
<1>1. line \in Seq(Byte) /\ AnswersLine /\ HasPath => LinksLead
  <2> SUFFICES ASSUME line \in Seq(Byte), AnswersLine, HasPath,
                      answer # NoAnswer, answer.what = "directory",
                      NEW entry \in answer.content,
                      NEW b, b = Word(NextWords(line)), Last(b) = "/",
                      NEW d, d = <<"static">> \o Tail(decode_str(b)),
                      NEW l, l = <<"GET", Space>> \o b \o entry[2] \o <<Space, "HTTP/1.1", LF>>
               PROVE  IF Disk[Within(d) \o entry[1]] = Directory
                      THEN AnswerTo(l, <<>>) = SendDir(Append(Within(d) \o entry[1], "/"))
                      ELSE /\ AnswerTo(l, <<>>).what = "file"
                           /\ AnswerTo(l, <<>>).content = Within(d) \o entry[1]
    BY LinksAre
  <2>1. line \in Seq(Letter)
    <3>1. \A c \in Byte : c \in Letter
      BY Letters
    <3>2. Len(line) \in Nat /\ line = [i \in 1..Len(line) |-> line[i]]
          /\ \A i \in 1..Len(line) : line[i] \in Byte
      OBVIOUS
    <3>3. \A i \in 1..Len(line) : line[i] \in Letter
      BY <3>1, <3>2
    <3> QED BY <3>2, <3>3
  <2>2. PICK u : u = NextWords(line)
    OBVIOUS
  <2>3. u \in Seq(Letter) /\ Len(u) > 0 /\ u[1] \notin White
    BY <2>1, <2>2, NextStarts DEF HasPath
  <2>4. b \in Seq(Unspaced) /\ \A i \in 1..Len(b) : b[i] = u[i]
    BY <2>2, <2>3, WordEnds
  <2>5. Len(b) > 0
    <3>1. PICK m : m = Before(u, Space)
      OBVIOUS
    <3>2. m \in 0..Len(u) /\ (m < Len(u) => u[m + 1] = Space)
      BY <2>3, <3>1, BeforeIs
    <3>3. m # 0
      <4>1. Space \in White
        BY DEF White
      <4>2. 0 + 1 = 1
        OBVIOUS
      <4> QED BY <2>3, <3>2, <4>1, <4>2
    <3>4. b = SubSeq(u, 1, m)
      BY <2>2, <3>1, WhiteIs
    <3> QED BY <2>3, <3>2, <3>3, <3>4
  <2>6. Slashed(b) /\ b[1] \notin White
    <3>1. 1 \in 1..Len(b)
      BY <2>4, <2>5
    <3> QED BY <2>3, <2>4, <2>5, <3>1 DEF Slashed, Last
  <2>7. answer = SendDir(d)
    <3>1. PICK body : answer = AnswerTo(line, body)
      BY DEF AnswersLine
    <3>2. Path(line) = decode_str(b)
      BY DEF Path
    <3> QED BY <3>1, <3>2, ListingIs DEF FixedPaths
  <2>8. PICK n \in Entries(d) : entry = <<n, Link(d, n)>>
    BY <2>7 DEF SendDir, SendHead
  <2>9. entry[1] = n /\ entry[2] = Link(d, n)
    BY <2>8
  <2>10. LinkLine(b, Link(d, n), l) /\ Served(decode_str(b), d)
    BY <2>9 DEF LinkLine, Served
  <2>11. Leads(d, n, l)
    BY <2>4, <2>6, <2>8, <2>10, LinkLeads
  <2> QED BY <2>9, <2>11 DEF Leads
<1> QED BY <1>1, LineAnswered, PTL
=============================================================================
