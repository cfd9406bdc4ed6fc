----------------------------- MODULE HttpServer -----------------------------
(***************************************************************************)
(* The web server of Lab2: the accept loop of main, the thread pool and    *)
(* the HttpCon slots.  Requests[fd] is the slot of descriptor fd; it keeps *)
(* m_socketfd, which is fd or -1.  The accept loop fills a slot and queues *)
(* a pointer to it; a worker takes the pointer and serves the slot until   *)
(* it closes the descriptor, whose number the kernel may then give to the  *)
(* next connection while the worker is still in HttpCon::close.            *)
(*                                                                         *)
(* Every access of the threads to shared memory is a step of its own;      *)
(* m_user_cnt++ and -- are a load and a store, as nothing makes them       *)
(* atomic.  A peer sends nothing and closes ("silent"), sends a request    *)
(* and reads the answer ("request"), closes in the middle of the header    *)
(* ("cut"), or closes while the answer is sent ("gone").                   *)
(***************************************************************************)
EXTENDS Integers, Sequences, FiniteSets

CONSTANTS
  Workers,      \* the threads of the pool
  Conns,        \* the connections clients open
  Fds,          \* the descriptors the kernel has for them
  MaxRequests,  \* max_requests of the pool, 512 in main
  MaxUsers,     \* MAX_REQUESTS of main.cpp, 1024
  NoConn

ASSUME FdsAssumption == Fds \subseteq Nat \ {0}
ASSUME WorkersAssumption == IsFiniteSet(Workers)
ASSUME LimitsAssumption == MaxRequests \in Nat /\ MaxUsers \in Nat
ASSUME NoConnAssumption == NoConn \notin Conns

NoFd == -1
Peers == {"silent", "request", "cut", "gone"}

VARIABLES
  up,      \* the process has not called exit
  peer,    \* what the client of a connection does
  conn,    \* how far a connection has come
  open,    \* the kernel: the connection a descriptor refers to
  slot,    \* Requests[fd].m_socketfd
  users,   \* HttpCon::m_user_cnt
  queue,   \* m_workqueue, the descriptors of the slots pointed to
  sem,     \* m_poolSem
  main,    \* the accept loop: where it is, fd_client, the loaded m_user_cnt
  work     \* a worker: where it is, the slot of its request, the same load

vars == <<up, peer, conn, open, slot, users, queue, sem, main, work>>

Init ==
  /\ up = TRUE
  /\ peer \in [Conns -> Peers]
  /\ conn = [c \in Conns |-> "waiting"]
  /\ open = [f \in Fds |-> NoConn]
  /\ slot = [f \in Fds |-> NoFd]
  /\ users = 0
  /\ queue = <<>>
  /\ sem = 0
  /\ main = [at |-> "epoll", fd |-> NoFd, reg |-> 0]
  /\ work = [w \in Workers |-> [at |-> "sem", fd |-> NoFd, reg |-> 0]]

-----------------------------------------------------------------------------
(* The accept loop. *)

MainAt(here, there) == up /\ main.at = here /\ main' = [main EXCEPT !.at = there]

(* accept: the kernel gives the lowest free descriptor. *)
Accept(c) ==
  /\ up /\ main.at = "epoll"
  /\ conn[c] = "waiting"
  /\ \E f \in Fds :
       /\ open[f] = NoConn
       /\ \A g \in Fds : g < f => open[g] # NoConn
       /\ open' = [open EXCEPT ![f] = c]
       /\ main' = [main EXCEPT !.at = "limit", !.fd = f]
  /\ conn' = [conn EXCEPT ![c] = "accepted"]
  /\ UNCHANGED <<up, peer, slot, users, queue, sem, work>>

Refuse ==
  /\ MainAt("limit", "epoll")
  /\ users >= MaxUsers
  /\ conn' = [conn EXCEPT ![open[main.fd]] = "refused"]
  /\ open' = [open EXCEPT ![main.fd] = NoConn]
  /\ UNCHANGED <<up, peer, slot, users, queue, sem, work>>

Admit ==
  /\ MainAt("limit", "init")
  /\ users < MaxUsers
  /\ UNCHANGED <<up, peer, conn, open, slot, users, queue, sem, work>>

InitSlot ==
  /\ MainAt("init", "load")
  /\ slot' = [slot EXCEPT ![main.fd] = main.fd]
  /\ UNCHANGED <<up, peer, conn, open, users, queue, sem, work>>

LoadUsers ==
  /\ up /\ main.at = "load"
  /\ main' = [main EXCEPT !.at = "store", !.reg = users]
  /\ UNCHANGED <<up, peer, conn, open, slot, users, queue, sem, work>>

StoreUsers ==
  /\ MainAt("store", "append")
  /\ users' = main.reg + 1
  /\ UNCHANGED <<up, peer, conn, open, slot, queue, sem, work>>

(* ThreadPool::append; main ignores that it returned false. *)
LooseFull == Len(queue) > MaxRequests + 1
Full == Len(queue) > MaxRequests

AppendRequest ==
  /\ MainAt("append", "post")
  /\ ~ Full
  /\ queue' = Append(queue, main.fd)
  /\ UNCHANGED <<up, peer, conn, open, slot, users, sem, work>>

AppendFails ==
  /\ MainAt("append", "epoll")
  /\ Full
  /\ UNCHANGED <<up, peer, conn, open, slot, users, queue, sem, work>>

ForgottenPost == sem
Posted == sem + 1

Post ==
  /\ MainAt("post", "epoll")
  /\ sem' = Posted
  /\ UNCHANGED <<up, peer, conn, open, slot, users, queue, work>>

-----------------------------------------------------------------------------
(* A worker. *)

WorkerAt(w, here, there) ==
  up /\ work[w].at = here /\ work' = [work EXCEPT ![w].at = there]

TakeSem(w) ==
  /\ WorkerAt(w, "sem", "pop")
  /\ sem > 0
  /\ sem' = sem - 1
  /\ UNCHANGED <<up, peer, conn, open, slot, users, queue, main>>

Unpopped == queue
Popped == Tail(queue)

PopRequest(w) ==
  /\ up /\ work[w].at = "pop"
  /\ queue # <<>>
  /\ work' = [work EXCEPT ![w].at = "line", ![w].fd = Head(queue)]
  /\ queue' = Popped
  /\ UNCHANGED <<up, peer, conn, open, slot, users, sem, main>>

(* The client a worker reaches through m_socketfd; "none" when recv and    *)
(* send fail with EBADF.                                                   *)
Reached(w) == LET f == slot[work[w].fd] IN IF f \in Fds THEN open[f] ELSE NoConn
Client(w)  == IF Reached(w) = NoConn THEN "none" ELSE peer[Reached(w)]

(* get_line returned 0: nothing came, or the descriptor is bad. *)
NoLine(w) ==
  /\ WorkerAt(w, "line", "test")
  /\ Client(w) \in {"none", "silent"}
  /\ UNCHANGED <<up, peer, conn, open, slot, users, queue, sem, main>>

FirstLine(w) ==
  /\ WorkerAt(w, "line", "header")
  /\ Client(w) \notin {"none", "silent"}
  /\ UNCHANGED <<up, peer, conn, open, slot, users, queue, sem, main>>

(* The loop to the empty line.  get_line returns 0 at the end of the       *)
(* stream and on a bad descriptor, never -1: without an empty line the     *)
(* loop has no way out and the worker stays here.                          *)
EndOfHeader(w) ==
  /\ WorkerAt(w, "header", "respond")
  /\ Client(w) \notin {"none", "cut"}
  /\ UNCHANGED <<up, peer, conn, open, slot, users, queue, sem, main>>

Respond(w) ==
  /\ WorkerAt(w, "respond", "delete")
  /\ Client(w) # "none"
  /\ conn' = [conn EXCEPT ![Reached(w)] = "answered"]
  /\ UNCHANGED <<up, peer, open, slot, users, queue, sem, main>>

(* A send that fails with neither EAGAIN nor EINTR calls exit(1). *)
SendFails(w) ==
  /\ WorkerAt(w, "respond", "respond")
  /\ Client(w) \in {"none", "gone"}
  /\ up' = FALSE
  /\ UNCHANGED <<peer, conn, open, slot, users, queue, sem, main>>

(* delete_event(m_epollfd, m_socketfd): close, with the m_socketfd of now. *)
Closed(w) ==
  IF slot[work[w].fd] \in Fds THEN [open EXCEPT ![slot[work[w].fd]] = NoConn] ELSE open

(* After an answer the slot keeps m_socketfd and m_user_cnt its count. *)
AlsoCloses == "test"
AfterDelete == "sem"

DeleteEvent(w) ==
  /\ WorkerAt(w, "delete", AfterDelete)
  /\ open' = Closed(w)
  /\ UNCHANGED <<up, peer, conn, slot, users, queue, sem, main>>

(* HttpCon::close. *)
CloseNothing(w) ==
  /\ WorkerAt(w, "test", "sem")
  /\ slot[work[w].fd] = NoFd
  /\ UNCHANGED <<up, peer, conn, open, slot, users, queue, sem, main>>

TestSocket(w) ==
  /\ WorkerAt(w, "test", "close")
  /\ slot[work[w].fd] # NoFd
  /\ UNCHANGED <<up, peer, conn, open, slot, users, queue, sem, main>>

CloseSocket(w) ==
  /\ WorkerAt(w, "close", "reset")
  /\ open' = Closed(w)
  /\ UNCHANGED <<up, peer, conn, slot, users, queue, sem, main>>

ResetSlot(w) ==
  /\ WorkerAt(w, "reset", "load")
  /\ slot' = [slot EXCEPT ![work[w].fd] = NoFd]
  /\ UNCHANGED <<up, peer, conn, open, users, queue, sem, main>>

LoadToDecrease(w) ==
  /\ up /\ work[w].at = "load"
  /\ work' = [work EXCEPT ![w].at = "store", ![w].reg = users]
  /\ UNCHANGED <<up, peer, conn, open, slot, users, queue, sem, main>>

StoreDecreased(w) ==
  /\ WorkerAt(w, "store", "sem")
  /\ users' = work[w].reg - 1
  /\ UNCHANGED <<up, peer, conn, open, slot, queue, sem, main>>

-----------------------------------------------------------------------------

(* main's loop *)
AcceptLoop ==
  \/ \E c \in Conns : Accept(c)
  \/ Refuse \/ Admit \/ InitSlot \/ LoadUsers \/ StoreUsers
  \/ AppendRequest \/ AppendFails \/ Post

(* ThreadPool::run *)
Worker(w) ==
  \/ TakeSem(w) \/ PopRequest(w)
  \/ NoLine(w) \/ FirstLine(w) \/ EndOfHeader(w)
  \/ Respond(w) \/ SendFails(w) \/ DeleteEvent(w)
  \/ CloseNothing(w) \/ TestSocket(w) \/ CloseSocket(w) \/ ResetSlot(w)
  \/ LoadToDecrease(w) \/ StoreDecreased(w)

Next == AcceptLoop \/ \E w \in Workers : Worker(w)

Spec == Init /\ [][Next]_vars

(* The scheduler runs every thread that can run, and peers do not stall:   *)
(* what they send, or the end of their stream, arrives.                    *)
Fairness == WF_vars(AcceptLoop) /\ \A w \in Workers : WF_vars(Worker(w))

FairSpec == Spec /\ Fairness

-----------------------------------------------------------------------------
(* Properties. *)

(* Every variable keeps its type; the queue holds one request more than    *)
(* max_requests at most.                                                   *)
TypeOK ==
  /\ up \in BOOLEAN
  /\ peer \in [Conns -> Peers]
  /\ conn \in [Conns -> {"waiting", "accepted", "refused", "answered"}]
  /\ open \in [Fds -> Conns \cup {NoConn}]
  /\ slot \in [Fds -> Fds \cup {NoFd}]
  /\ users \in Int
  /\ queue \in Seq(Fds) /\ Len(queue) <= MaxRequests + 1
  /\ sem \in Nat
  /\ main \in [at : {"epoll", "limit", "init", "load", "store", "append", "post"},
               fd : Fds \cup {NoFd}, reg : Int]
  /\ main.at # "epoll" => main.fd \in Fds
  /\ work \in [Workers ->
       [at : {"sem", "pop", "line", "header", "respond", "delete",
              "test", "close", "reset", "load", "store"},
        fd : Fds \cup {NoFd}, reg : Int]]
  /\ \A w \in Workers : work[w].at \notin {"sem", "pop"} => work[w].fd \in Fds

(* The semaphore never runs ahead of the queue: append pushes before it    *)
(* posts, so a worker that sem_wait let through finds a request, although  *)
(* the mutex is taken only after that and other workers pop meanwhile.     *)
Popping == {w \in Workers : work[w].at = "pop"}

SemBacked ==
  Len(queue) = sem + Cardinality(Popping) + (IF main.at = "post" THEN 1 ELSE 0)

(* The uses of a slot that are going to touch its descriptor: main fills   *)
(* it, a worker serves it and has not closed the descriptor.               *)
Filling    == main.at \in {"limit", "init", "load", "store", "append"}
Serving(w) == work[w].at \in {"line", "header", "respond", "delete", "test", "close"}

(* A descriptor is filled, queued or served in one place at a time, and    *)
(* open as long: the kernel never reuses its number under a request that   *)
(* is still queued or served.                                              *)
OwnedOnce ==
  /\ \A i, j \in DOMAIN queue : queue[i] = queue[j] => i = j
  /\ \A v, w \in Workers : Serving(v) /\ Serving(w) /\ work[v].fd = work[w].fd => v = w
  /\ \A i \in DOMAIN queue :
       /\ open[queue[i]] # NoConn
       /\ \A w \in Workers : Serving(w) => queue[i] # work[w].fd
       /\ Filling => queue[i] # main.fd
  /\ \A w \in Workers : Serving(w) =>
       /\ open[work[w].fd] # NoConn
       /\ Filling => work[w].fd # main.fd
  /\ Filling => open[main.fd] # NoConn

(* A connection whose client sent a request is closed only after its       *)
(* answer, or right after accept because there are too many users: no      *)
(* worker closes a descriptor that has gone to another client.             *)
ClosedAfterAnswer ==
  [][\A f \in Fds :
       open[f] # NoConn /\ open'[f] = NoConn =>
         peer[open[f]] = "silent" \/ conn'[open[f]] \in {"refused", "answered"}]_vars

(* When every client sends a whole request, every request the pool took is *)
(* answered and its connection closed: no post is lost, no worker sleeps   *)
(* beside a full queue.                                                    *)
TakenIsAnswered ==
  (\A c \in Conns : peer[c] = "request") =>
    \A f \in Fds : (\E i \in DOMAIN queue : queue[i] = f) ~> open[f] = NoConn

(* A connection is refused only while the pool has work: with every worker *)
(* waiting and nothing queued there are threads for it.                    *)
RefusesOnlyWhenBusy ==
  [][(\E c \in Conns : conn[c] # "refused" /\ conn'[c] = "refused") =>
       queue # <<>> \/ \E w \in Workers : work[w].at # "sem"]_vars

=============================================================================
