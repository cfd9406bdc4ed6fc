# Verification of CloudComputingLabs

TLA+ models of the three programs in this repository, with the TLC runs that
check them on small instances and the TLAPS proofs that carry the most important
results to every instance:

* **Lab 3**, a replicated key-value store: servers with leader election and log
  replication after the manner of Raft, and a router between the user and them;
* **Lab 1**, a sudoku solver: a pipeline of threads around four solving
  algorithms;
* **Lab 2**, a web server with a pool of threads.

The models are written from the code. Where a comment or a document says
something else, the code was followed and the difference is listed under
[Findings](#findings). Every definition that stands for code is listed with its
lines in `PROJECT.json` under `map`; paths below are relative to `src/`.

## 1. The system

### 1.1 Lab 3 server (`Lab3/final2/DistributedKvStore-Server`)

One process, one thread, an epoll loop (`RedisServer::serverRun`) and a SIGALRM
handler (`serverCron`) that may run between any two instructions of the loop.

| Part | State | Operations | Talks to |
|---|---|---|---|
| Connections (`RedisClient`, `Net.cpp`) | slot per descriptor, buffers, `cmd`, `argv`, `clientType`; what epoll is armed for; the batch of events not served yet | accept, `initClient`, `clientRead`, `runCommand`, `clientWrite`, `closeClient`, `connectServer` | sockets; one-shot arming: after a read nothing is read until the answer is written; the timer closes the leader's connection |
| Membership (`slaveof`, `beMy`, `otherFollower`) | `serverType`, `numsServer`, tables of leader, follower and user connections | `connectServer`, `clientTypeChanged`, the three commands | other servers; the router starts it |
| Election | `term`, `tickets`, `flag_election`, `numsServer`, timeouts | `serverCron`, `election`, `electionResult`, APPLY, VOTE, `beMy follower` | other servers; the timer starts it |
| Replication | `oldCmds` (the log, texts of packets), `store` | `set`, `del`, `flushDb`, SYN, ACK, heartbeat | followers |
| RESP (`SinglePC.cpp`) | none of its own; the log holds texts of it | `encodeResp`, `decodeResp`, `strtok` at `*`, `heartBeat_send` | all of the above; the router has the same functions |

What is hard here: the timer lands inside handlers and changes the state they
have already tested; several packets come back from one `read()` and only the
last one is answered; a packet is logged as the text of the *first* packet of
its read; a read may end anywhere in the stream; an event is served by its
descriptor, which may have been closed and given out again since `epoll_wait`;
answers are late, lost or belong to an earlier campaign; connections close in the
middle of everything and shrink the number majorities are taken of; servers join
while others join, stop or come back.

What makes it correct: one vote per server and term; tickets that stand for real
votes; one leader per term; terms that only grow; followers that execute the
leader's commands in order, once each; stores that agree when logs do; a mesh
that completes with each pair of servers connected once and counted once; packets
that are run once and in order, in the name of who sent them, and answers that go
to who asked; no connection that is forgotten by epoll; words that survive
encoding, log and decoding untorn.

### 1.2 Lab 3 router (`Lab3/final2/DistributedKvStore-Client2`)

One thread and an epoll loop over standard input and the connections to the
servers. State: the slots by descriptor, `leaderClient`, `curClient` and the map
`followerClients`. The user connects it to servers, sets the current server and
the leader, and types commands, which go to the leader (`set`, `del`,
`flushDb`), to any follower (`get`) or to the current server (the others). A
server that wins an election says `beMy`. Hard: pointers into slots whose
descriptors are reused, and a map keyed by a name that outlives its connection.
Correct: no pointer dangles, each connection has one role, commands never go to
a server the user did not choose, a server that stopped is dropped.

### 1.3 Lab 1 (`Lab1/src/Sudoku`)

`main.cc` runs a thread that reads file names, a producer that puts puzzles in a
ring, and `n_pthread` consumers that take them, solve them and print them in the
order of the input; three mutexes and `n_pthread + 3` condition variables. Hard:
wake-ups sent without the mutex, turns modulo `n_pthread`, a full and an empty
ring. Correct: the output is complete and in order, and the threads end.

The solvers (`sudoku_basic.cc`, `sudoku_min_arity.cc`,
`sudoku_min_arity_cache.cc`, `sudoku_dancing_links.cc`) are sequential searches
over state that a retreat has to restore exactly: the order of the blank cells,
tables of what is still possible, or the doubly linked mesh of an exact-cover
problem. Correct: the state is restored whatever was tried before, and the
verdict is right. The pipeline calls only the dancing links.

### 1.4 Lab 2 (`Lab2/src`)

An accept loop (`main.cpp`) fills a slot per descriptor (`HttpCon::init`) and
appends it to the queue of a `ThreadPool`; workers wait on a semaphore, take a
slot and `process` it: parse, answer, close the descriptor. Hard: the kernel may
give a descriptor out again as soon as it is closed, while the worker that closed
it is still in the slot; `m_user_cnt` is shared without a lock; the semaphore is
posted after the queue's mutex is released; and parsing is a chain of single
`recv`s, `sscanf`s and offsets, with lines of exactly the buffer's size and
requests that come in pieces. Correct: a descriptor is served by one thread at a
time, nobody closes another client's descriptor, each queued request is answered;
the header is read up to the empty line and no further, each request gets one
answer that says what is sent, and the links of a listing lead to the files.

### 1.5 Not modelled

* **Utilities** of Labs 1 and 2: the clock, checks of the command line.
* **Lab 3 first client** and the older copies in `Lab3/DistributedKvStore-*`,
  `main_save.c`, `cmd_save.c`, `src/main.cc`: earlier versions and drafts.
* **Lab 4** holds a README and no code.

## 2. Modules

| Module | Models | Extends or instantiates |
|---|---|---|
| `KvMembership`, `KvMembershipProofs` | how the mesh of servers forms, and theorems about it | |
| `KvElection`, `KvElectionProofs` | leader election on the mesh, and theorems about it | |
| `KvReplication` | commands, log, heartbeats, change of leader | `ReplicatedLog` |
| `KvReplicationProofs` | theorems: types, refinement, what a change of leader keeps | `KvReplication` |
| `ReplicatedLog` | abstract: replicas copy one growing sequence in order | |
| `KvConnections` | epoll loop, slots, arming, the timer's `closeClient` | |
| `KvConnectionsProofs` | theorems: types, `cmd`, order of packets, answers, arming | `KvConnections` |
| `RespStream` | bytes between router and server, and to followers | |
| `UserRouter` | the router | |
| `RouterProofs` | theorems about the router and the bytes | `UserRouter`, `RespStream` |
| `SudokuPipeline`, `SudokuPipelineProofs` | the threads of Lab 1, and theorems about them | |
| `SudokuBoard` | boards, neighbours, what solved means | |
| `DancingLinks`, `SudokuSearch` | the exact-cover solver; the three others | `SudokuBoard` |
| `SudokuSolvers` | one call of any of the four | both, by `INSTANCE` |
| `SudokuSolversProofs` | theorems about the three searches and the dancing links | `SudokuSolvers` |
| `HttpServer` | accept loop and pool | |
| `HttpRequest` | one call of `process`: parsing and answering | |
| `HttpProofs` | theorems about the two | `HttpServer`, `HttpRequest` |
| `MC...` | constants for TLC | the module they are named after |

The parts of the Lab 3 server meet in the mesh: `KvMembership` leads to the
state `KvElection!Mesh` and `KvReplication!InitAfter` start from (its
`MeshCompletes` says so). `KvElection` says who can win; `KvReplication` looks at
what winning does to the data and lets any follower give its leader up
(`CronFollower`) and any candidate win (`CronCandidate`), whether the leader stopped
or is only slow: neither asks for votes, and neither looks whether somebody leads.
Election and replication share nothing else: votes do not look at the log (one of the
findings), and heartbeats matter to the election only through the timeouts they
prevent, which the model lets fire at any tick. All three take for granted what
`KvConnections` and `RespStream` examine below them: that the packets of a
connection are run once and in order and answered where they came from, and that
a packet decodes to the words it was made of. Both hold with exceptions, which are
findings: a descriptor given out again under a pending event, and a read that ends
inside a packet.

### 2.1 How state and actions correspond to the code

**`KvElection`.** Variables carry the names of the fields of `RedisServer`;
`wire[s][p]` is a TCP stream, `reply[s][p]` the armed `bufferWrite`, `handler[s]`
the batch `runCommand` splits. The timer (`CronFollower`, `CronCandidate`) is a
signal handler that nothing masks: it may land in the middle of a command handler.
So the handlers of APPLY and VOTE take a step for each access to `term` and
`tickets` it can come between: `Test`, then `AdoptTerm` (the assignment) and
`ApplyResponse` (the answer, which names the term of that moment), or
`VoteResponse` (`tickets++`, which loads before it stores). `FinishPacket` arms the
answer to the last packet of a batch and forgets the others. `granted` and
`campaigned` are history, and so is `torn`: the campaigns that started while a
handler of the same server had passed its test and not acted yet.

**`KvReplication`.** A packet is a list of headers (SYN, ACK, beMy) and a
command; a log entry is such a packet, so a follower's entry, which is the text
of a SYN, has headers of its own, and sending it on nests them
(`synResponseCommand` unwraps argument lists by calling the next handler).
`Logged` is `string(bufferRead)`: `strtok` has ended it after the first packet of
the read. A replayed `flushDb` leaves `argv` shorter than `argc` says, so whether
`runCommand` answers is undefined: `SynNext` allows both. `requests[s]` is the
router's connection to `s`: it sends to a server that leads, and no handler asks
whether it still does, so a leader that was given up goes on executing what reaches
it. A leader that is given up is told by a closed connection (`CloseClient`, `ReadEnd`) and by nothing
else.

**`KvMembership`.** A connection is the number it was made as; `clientType[s][i]`
is what an end takes it for, `leaderClients` and `followerClients` the tables,
keyed by the name of a connection (the address connected to, or the address it
came from), with the semantics of `emplace` and `erase`. `todo` is the rest of
the list `otherFollowerCommand` works through, one `connect` a step. The answer
to `beMy leader` is put on the wire at once: nothing is read from that connection
before it is written.

**`KvConnections`.** The kernel's side is `conn` (who is at the other end of a
descriptor), `armed` (what epoll watches it for), `stream` and `end`; the server's
is `Clients`, `nums_Client` and the tables. `EpollWait` takes all events that are
ready into `batch` and disarms their descriptors; the loop serves them in any
order, one action each (`Accept`, `ReadData`, `ReadNothing`, `ReadFails`,
`ClientWrite`), by descriptor, whoever has it by then. `runCommand` is one action
to look a command up (`FindCommand`), one to call it (`Call`, `ConnectServer`,
`ConnectFails`) for each packet, and `ArmAgain`. `CronFollower`, the timer, may
come between any two. A packet says who sent it, as which, and of which kind: the
kinds are what the code tells apart when it answers. Each `slaveof` makes a
connection (`Link`), also while another one is there; all lead to the same server
and have its name, so `emplace` ignores the second in the table (`Emplaced`), and
closing either erases the entry of that name (`Erased`). `got`, `ran` and `stale`
are history; `stale` are the peers that were given a descriptor while an event of
the connection before was still in the batch or being served.

**`RespStream`.** A byte is a character, or a word no test looks into.
`EncodeResp`, `DecodeResp` (`NextByte` applied to byte after byte) and `Strtok`
(`NextPieces` likewise) are recursive functions; `ClientRead(n)` takes any number of the bytes that have arrived, up to
a buffer, and runs each piece. `RunPiece` is the table of commands that touch
the store, `flushDb` and the commands that show something among them; those that
make connections or come from other servers (`Elsewhere`) belong to the other
modules. `armed` is what epoll waits for after a read: a last packet whose second
word is `onetime` arms no answer, whoever typed it. The log holds texts, and `HeartBeatSend` builds the
packet for a follower as the code does: it encodes one with a question mark for
each word, cuts these off again and puts the text there.

**`UserRouter`.** One action per event of the loop. Descriptors are numbers and
the lowest free one is given out. A read takes any number of packets that have
arrived and looks at the first alone.

**`SudokuPipeline`.** A critical section that keeps its mutex is one step; where
a flag is set without the mutex its reader holds, the reader's test and wait are
two. `SpuriousWakeup` lets any wait return.

**`DancingLinks`, `SudokuSearch`.** A call of `solve` is a frame; entering it,
trying a guess, undoing it and returning are the steps. `mesh` is the array of
nodes with a function for each link, built by `Dance` as the constructor does;
`Cover` and `Uncover` walk it in the code's order (`Chain` is a walk round a ring,
`Applied` a loop over what it visits). `MeshExact` says of every link where it should
lead, without walking.

**`HttpServer`.** `main` and each worker have a program counter; `m_user_cnt++`
and `--` are a load and a store; a descriptor number (`Fds`) is given out again
as soon as it is closed, while `slot` keeps what the last `init` or `close` left.
What a client does is one of four kinds: a whole request, silence and an early
close, an early close within the header, a reset while it is answered.

**`HttpRequest`.** What a worker does between `HttpServer!Take` and the close of
the descriptor. A byte is a character, or a word that no test of the code looks
into. What the client has sent and not been read is `stream`; it arrives in any
pieces, and each `recv` of `get_line` (with its `MSG_PEEK` after a carriage
return), each round of the header loop and the `read` of a body is an action.
The answer is a record: its status, what its header says of type and length, what
`send_file`, `send_dir` or the echo puts behind it. Reading at the end of the
stream, where `process` spins, is a stutter.

## 3. What the runs check

Runs that pass (`http_server` checks its module's `TypeOK` too; those of
`KvElection`, `KvReplication`, `KvMembership`, `KvConnections`, `UserRouter`,
`SudokuPipeline` and `HttpServer` are proved):

| Run | Question | Properties |
|---|---|---|
| `kv_membership` | Does the mesh form when servers join at once, and one stops and comes back? | `CountsServers` (numsServer is exact), `OneConnection`, `TablesLead` (tables and connections match), `MeshCompletes` |
| `kv_election` | Are votes, tickets and leaders consistent, under a leader that may stop and with several candidates for one voter, with the timer inside handlers? | `OneVoteUnlessTorn`, `TicketsBacked`, `OneYesPerTerm`, `CampaignLeadersUnique` |
| `kv_replication` | In the steady state, without a change of leader: does replication implement `ReplicatedLog`, and do followers catch up? | `ReplicatesLog` (refinement), `FollowersCatchUp` |
| `kv_failover` | What survives when a follower gives its leader up, dead or alive? | `TakeoverAgrees`, `OnePlace` |
| `kv_connections` | Whose packets are run, whose answers sent, whom does epoll forget? | `RunOnce`, `AnswersOwn`, `OneShot`, `CmdAlive`, `LatestAnswered` |
| `resp_stream` | What becomes of words on their way through encodings, reads and log? | `RunsSegments`, `EntryReplays`, `AnswersFit` |
| `user_router` | Do the router's pointers stay sound? | `PointersOpen`, `CurIsChosen`, `OneRole`, `StoppedIsDropped` |
| `sudoku_pipeline` | Is everything printed, in order? | `OrderedOutput`, `RingHoldsRest`, `TurnIsAwake`, `AllPrinted` |
| `sudoku_solvers` | Is state restored, and the verdict right? | `MeshExact`, `SpacesSplit`, `CacheExact`, `VerdictRight` |
| `http_request` | Is a request read, judged and answered for what it is? | `HeadIsRead`, `AnswerFits`, `LinksLead` |
| `http_server` | Is each descriptor owned once and each request answered? | `SemBacked`, `OwnedOnce`, `ClosedAfterAnswer`, `TakenIsAnswered` |

The run `kv_election_two_leaders` finds a statement of the repository violated
(`OneLeaderPerTerm`); see [Findings](#findings).

Every property of a passing run has a mutant in `PROJECT.json`: a plausible slip
in a mapped definition under which TLC finds the property violated.

### 3.1 Bounds, and why they are enough

* **Election.** Three servers, batches of two packets, two packets in flight per
  direction, one crash, the timer anywhere. Under a leader with three servers a voter
  never sees two candidates (the third server is the leader), so the run also starts
  from the three servers left of a mesh of four (`start`). Under a leader campaigns
  reach term 2 (a campaign, its retry and the other server's), in the mesh left
  behind term 1 (`MCTerms`: all three campaign in the same term, which is what is
  asked of it), 2 for the two leaders. Servers that start alike are symmetric.
  `CampaignLeadersUnique` is a statement about such small meshes: with four
  servers it fails ([Findings](#findings)). The other three are proved for every
  mesh (section 4).
* **Replication.** One key with two values tells orders apart. Two writes make a
  log with a gap possible; `kv_replication` has a write and a `flushDb`, batches
  of three and both fairness and undefined answers, no crash and nobody who gives up
  the leader (`MaxCrashes = 0`, `MaxTimeouts = 0`). `kv_failover` has three servers,
  one of which may stop, one follower that may give its leader up and win at any
  time, and at most two unread packets in the mesh (`MCLoad`); with `MaxInFlight = 0`
  the timer sends no heartbeat there, so the packets are the ones that commands and
  `beMy` cause. With heartbeats (`MaxInFlight = 1`) it passes too, on 3.4 million
  states in five minutes. `MCOneLoop` is a reduction: while a server works through
  a batch only it moves; the steps of the others commute with its own.
* **Membership.** A leader and two servers that join at once; one of them stops at
  any point, with what it wrote arriving or lost, and is started again.
  `MaxConns = 7` is more than such a run makes, so it never blocks a connect.
* **Connections.** Two users and two connections to the server to follow on three
  descriptors: a descriptor can be closed, given to another and given out again, and
  connections and failed connects together may use them up. Three packets in all,
  two of them `slaveof` at most, and one connection that ends: enough for two packets
  in one read, an old event on a new connection, a second `slaveof` while the first
  connection is there or after the timer closed it. Three reductions: peers move
  between batches (`MCOneBatch`; what they do meanwhile commutes to before the batch
  or behind it), `u1` stands for the user that connects first (`MCFirstUser`) and
  `b2` for a connection made while `b1` is there (`MCFirstLink`). A leader that is
  lost with unread packets and followed again needs four packets; the proofs cover it.
* **RESP.** Commands of one to four words: `set`, `get` and `del` of a key, a set
  with two words for a value, one with `onetime` for its key, `flushDb`, a command
  that shows something, an unknown one; three typed, cut by reads at
  every byte (`BufferSize` is more than any of them; 1024 in the code). All is typed
  before the first read (`MCTypedFirst`: a read may leave what came later), the
  router reads at once where reads cut (`MCReadsAtOnce`: its reading changes nothing
  at the server), and of three commands each is read whole (`MCThreeTidy`; two may be
  cut and joined in every way).
* **Router.** Two servers, three descriptors: one more than there are servers, so
  that a failed connect (which leaks its descriptor) and the reuse of a number
  both happen. Two lines, two unread packets, two wins, two crashes.
* **Pipeline.** Three consumers, a ring of three, four puzzles: ring and turns
  wrap. A short line, two files and a name of no file.
* **Solvers.** `Band = 2`: boards of 4 x 4 with no, one, two and three solutions, a
  full one, and for the dancing links contradictory givens with and without
  blanks. The code has `Band = 3`, the same code with other constants; the
  reference (`Solvable`) tries all fillings, which only the small board allows.
* **HTTP requests.** Lines of twelve bytes (`LineSize`; 1024 in the code, where
  only comparisons with it matter), 41 requests, from clients that close and
  clients that wait, in any pieces: the three methods, paths of files,
  directories and nothing, names with a percent sign, a blank and a byte above
  127, bodies with and without their keys, lines with each kind of end and lines
  of exactly `LineSize`.
* **HTTP.** Two workers, three connections and descriptors, `MaxUsers = 2` so that
  refusing happens, `MaxRequests = 0`, which the code's off-by-one makes a queue
  of one, so that a full queue happens. Two workers racing for a longer queue, and
  descriptors queued twice, are left to the proofs, which hold for any bound.

`CHECK_DEADLOCK FALSE` is set where a run really may stop: servers without
campaigns left, a router without input, a program that ended.

### 3.2 Fairness

* **Replication**: weak fairness of the loop's handlers (a batch is run to its
  end), strong fairness of reads, writes and the timer: epoll reports a ready
  connection again until it is served, and the interval timer never stops. Strong,
  because one-shot arming disables a read while an answer is pending.
* **Membership**: weak fairness of every server's accepts and reads, of its list
  and of the router's `slaveof` lines, which `loadConfig` has written already.
  Nothing is assumed of crashes and restarts.
* **Connections**: weak fairness of the loop as a whole: one thread runs it, a batch
  holds all that was ready and is served to its end. Nothing is assumed of peers
  and of the timer.
* **Router**: weak fairness of each connection's events: level-triggered epoll,
  and the loop handles a whole batch before the next wait.
* **Pipeline**: strong fairness of each thread: a mutex that is free again and
  again is obtained in the end.
* **HTTP**: weak fairness of the accept loop and of each worker;
  `TakenIsAnswered` is stated for runs in which every client sends a whole
  request, since one that closes within the header keeps a worker for ever
  (`httpcon.cpp:88`).
* **Election**: no liveness is claimed; elections after the manner of Raft need
  not end, and this one has no fairness to justify it (timeouts are random).

## 4. What is proved

TLAPS checks every proof to its leaves. A theorem holds for all values of the
constants that satisfy the named assumptions of the module; each proof follows
an inductive invariant, which TLC checked first.

**Election** (`KvElectionProofs`, assumption `ElectionConstants`: finitely many
servers, reads of at least one packet, bounds that are numbers).

* `TypeCorrect`: `TypeOK`, for every mesh and batch size.
* `OneYes`: a server says YES to at most one candidate of a term, wherever the
  timer lands. `OneYesPerTerm` is not inductive: it needs `GrantsReached` (a term in
  which a server said YES is not above its own) and `PendingSound` (the term a handler
  has tested and not yet stored is above all it granted, and above all its campaigns
  but those that are `torn`).
* `OneVote` (`OneVoteUnlessTorn`) and `TermsFallTorn` (`TermFallsTorn`): a server
  votes for itself and for another in one term, and its term falls, only by a campaign
  the timer started in the middle of a handler. Nothing is assumed of the timer; the
  theorems say exactly which campaigns do harm, and that it happens is a finding.
* `TicketsExact` (`TicketsBacked`), for every campaign that is not torn. An arriving
  VOTE is only a number, so the invariant follows each YES from its decision: it
  is on its way once at most (`VotesOnce`: read and not handled, on the wire, or
  armed as the reply), was decided (`VotesGiven`) for a campaign that was held
  (`AppliesBacked`, `GrantsBacked`), and before the same voter says YES to the same
  candidate again that candidate has campaigned again (`Separated`). A YES that was
  tested and not yet counted is one for the campaign of that moment (`PendingCounts`).
  The tickets of the last campaign are then bounded by the voters whose decision is no
  longer on its way (`TicketsArrived`); counting a vote moves one voter there. Packets
  that are lost, cut off by a closing connection or overwritten only help.
* `NumsServerCounts` (`ConnectionsCounted`): `numsServer` is one more than the
  connections a live server has, through every closing, change of leader and crash.
* `MajoritiesIntersect` (`LeadersShareNoTerm`) and `OneCampaignLeader`
  (`CampaignLeadersUnique`, for at most three servers), of two leaders whose campaigns
  are not torn. A leader that won such a campaign still has more tickets than half of its `numsServer`
  (`MajorityHeld`), each from a server of its own (`TicketsExact`), and the voters of
  two campaigns of one term are disjoint (`OneYes`, `OneVote`). So two leaders of one term have
  together more tickets than there are servers, unless both lost so many connections
  that half of each `numsServer` does not make up the mesh; in a mesh of up to three
  both still have two servers and it does. With four it need not, which is the
  finding below: the code compares with the `numsServer` of the moment.

**Replication** (`KvReplicationProofs`; assumption `ReplicationConstants`: finitely
many servers, any workload, reads of any number of packets between servers, no
bound on unread packets, heartbeats, or leaders that stop). All three safety
properties of the runs. Apart from the types they assume `MaxUserBatch = 1`, users' commands that arrive one to a read:
with two the log does not say what was executed (`StoresAgree`, a finding).

* `TypeCorrect`, from `Sound`: packets of servers have headers, a packet whose
  headers are all SYNs carries a command, a log is as long as what was executed.
  Every proof speaks of packets through `From(q, m)`: `q` wrote `m`, or has armed
  it, or somebody works on it or logs it. `FlowsNext` says once for all actions what
  a step can add: an ACK, a heartbeat of the writer's own log, a winner's `beMy`.
* `ImplementsLog` (`ReplicatesLog`, with `MaxTimeouts = 0`: nobody gives up the
  leader, who may stop) from `Calm`: nothing executed, logged or in flight contradicts `A`, the leader's
  commands (`Texts(A)`), and no offset is beyond their end (`Tame`). The hard part
  is the texts: a follower logs the first packet of its read while it executes
  another of the same read, so the entry at `i` may be a text of another offset. It
  does no harm because such a packet, sent on, has headers of different offsets and
  is never executed (`Uniform`, `HeartBeatSays`). `Calm` grows with `A`: the next
  command is put at a position no packet speaks of yet (`TextsExtend`). Each step of
  the detailed model is then a `Write`, a `Copy` or a stutter (`StepsReplicate`).
* `TakeoverIsSafe` (`TakeoverAgrees`, with `MaxTimeouts <= 1`: one follower gives the
  leader up, and that leader may live on and go on executing commands) from `Calm`
  before and `Taken` after the change: nothing executed, logged or under way
  contradicts what the new leader inherited (`Texts`), and whoever has executed less
  than that has no user's command to run (`NoUser`) and does not lead, so that all it
  can execute below that end is a copy. An old leader that lives has executed at
  least as much: what it adds lies behind. Who leads can only change by another
  candidate's win (`RolesNext`), and there is none (`NoCandidate`).
* `CommandsKeepTheirPlace` (`OnePlace`), for any number of changes of leader, crashes
  and leaders at work at once, and commands that differ: whoever executes a command
  does so at the place it was executed at first. Two logs may disagree on what a
  position holds (`HistoriesAgree`, a finding), but no command moves, and none is
  executed twice. A command is with one server's user only until it is executed (`Held`);
  from then on every copy of it, executed, logged or under way, has that one place
  (`Places`).

**Membership** (`KvMembershipProofs`, for any servers, connections, crashes and
restarts). All three safety properties of the run.

* `TypeCorrect` and `NumsServerExact`: `numsServer`, of which an election takes its
  majority, is one more than the connections to servers, whatever joins, stops and
  comes back. The count is a cardinality over the ends a server classified; it can
  only go wrong if a server is connected to itself, so the invariant `IInv` says
  that none ever is, that lists sent never name their receiver, that an end is
  classified once and that nothing refers to a connection not yet made.
* `ConnectedAtMostOnce` (`OneConnection`) and `TablesExact` (`TablesLead`) rest on
  `Mesh`, which says who may still learn of whom. A newcomer asks the leader on one
  connection, and until it has read the answer it has no other (`Joins`, `Alone`,
  `OneJoin`); the leader names those whose request it has read, so the list, the
  list in work and the connections made from it name a server that was not started
  again once (`Once`), and only to newcomers whose own answer will not name, or did
  not name, them in return (`Order`). `TablesExact` then needs only that two open
  connections of one name lead to a server that came back (`NamesApart`), since
  closing one erases the name.

**Connections** (`KvConnectionsProofs`; assumption `ConnectionConstants`: finitely
many users and connections to the server to follow, at least one descriptor, no bound
on packets or `slaveof`s beyond the numbers they are). All four safety properties of
the run, for any users and descriptors.

* `TypesKept` and `CommandsAlive` rest on `Sound`, what the loop keeps between any
  two steps: a slot is open exactly when its descriptor is, for the same peer
  (`SlotsMatch`); a peer has one descriptor and none while it waits to be accepted
  (`OneEach`); the table of leaders leads to their slots (`LeaderSlots`); a pending
  read finds data, the end of the stream, a closed slot or a stale peer
  (`EventsDue`); and the slot `runCommand` works for is open and, if it is a
  leader's, was heard of since `epoll_wait` (`RunAlive`), which is why the timer
  leaves it alone. `CmdAlive` is the last clause and needs all the others.
* `WaitsForOne` adds `OneWait`: `OneShot` itself, spelled out per event.
* `RunsOnce` adds `Flow`: what ran in a peer's name, what is being run and what it
  has sent unread are, one behind the other (`Due`), packets of its own in order,
  for a user without a gap. A read moves packets from one part to the next, a
  handler does too, closing drops the last part.
* `AnswersToOwn` adds `Answers`: a connection is watched for writing only when its
  slot holds the answer to the last packet it ran, newer than all it got. It takes
  `OneWait` to see that nothing is pending for a connection whose answer changes,
  and `Flow` to see that the answer is newer.

**Pipeline** (`SudokuPipelineProofs`, `PipelineConstants`: as many consumers as
slots, any input). `OutputInOrder`, `RingIsExact`, `NextPrinterAwake`,
`ProducerSleepsFull`, `TypeCorrect`. The invariant adds to them: `total` exceeds
`Len(printed)` by the number of busy consumers, each of which holds one of the
open puzzles with its turn and its board, no two with the same turn; pointers and
turns are the counters modulo `n_pthread`. As at most `n_pthread` puzzles are
open, numbers of open puzzles differ by less than `n_pthread` and so do their
remainders (`CloseDiffer`, proved from quotient and remainder). From this follows
that the printed puzzle is the oldest open one, and that the one signal to
`print_order[next]` finds the consumer that has that turn.

**RESP** (`RouterProofs`; assumption `RespConstants`: any lines of nonempty words
without the bytes `strtok` and `decodeResp` look for, of any length, any buffer). All
three safety properties of the run.

* What the functions compute is proved by counting up over a byte or a bulk
  (`CountUp`, from the least number at which a claim would fail). `LaidOut(p, c, e)`
  says where the packet `p` of `c` has its bulks; `Reading` and `InBulk` say in which
  state `decodeResp`'s loop is behind each byte of it, wherever it began. From this:
  `DecodesEncoded` (`decodeResp` is the inverse of `encodeResp`) and `PartIsSegment`
  (any part of a packet decodes to whole words, one behind the other, or to none).
  `CutUpTo` says the same of `strtok`: each piece is a stretch without a star, as long
  as it can be.
* `SegmentsOnly` (`RunsSegments`) rests on `StreamFits`: every stretch of the bytes
  under way that has no star is from one packet (`Genuine`). Appending a packet keeps
  it, since a packet begins with its only star, and so does a read, since any part of
  such bytes is such again. Every piece a read runs is one of these stretches.
* `EntriesReplay` (`EntryReplays`): the text logged for a read of one piece is stars
  and a stretch that decodes to the command (`TextOf`, part of `StreamFits`).
  `HeartBeatSend` cuts off exactly its question marks, seven bytes each (`MarksEnd`),
  and behind the three words that remain the loop is idle, so that from the text's
  first `$` on it does what it did when the leader read the text (`TailDecodes`).
* `AnswersAreRight` (`AnswersFit`) rests on `AnswersDue`: while reads are tidy, what
  was printed, what is on its way and what is armed are the answers due to those of
  the commands run that get one (`Due`: not those whose second word is `onetime`),
  each of which decodes to the answer due; and the store has, of each key, what its last write of
  the lines run left (`ValueIn`). `PieceRuns` is the round of `runCommand` for each
  kind of command, `Simple` and `EncodeResp` both read back.

**Router** (`RouterProofs`). `NoDanglingPointer` and `CurNeverMisrouted` for
any user; `EveryConnectionHasOneRole` for users that connect to a server once
(`~Again`; it does not hold otherwise). The invariant adds that open slots carry
the name of a server (`OpenNamed`) and, for such users, that no two open slots
carry the same (`OwnNames`).

**Solvers** (`SudokuSolversProofs`; assumptions `BandAssumption` and
`ConsistentAssumption`: boxes of any size at least one, puzzles whose givens do not
clash). First the three searches, of which a call is a guess and a retreat many times
over, then the mesh of the dancing links.

* `SearchTypes`, `SpacesStaySplit` (`SpacesSplit`), `CacheStaysExact` (`CacheExact`),
  `SearchDecides` (`VerdictRight`) and `SearchAsserts` (`AssertsHold`) rest on
  `SearchInv`. `spaces` arranges the blank cells, each once, however often
  `find_min_arity` exchanged two of them (`Arranged`; that it does at the start is
  `BlanksListed`, by counting); the calls in progress are as many as the cells they
  filled (`Depth`, `Filled`), and no filled cell clashes with a neighbour
  (`NoClash`).
* `CacheExact` needs the order of the retreat: a table entry a guess changed is in
  the `modified` of that call and no other (`TablesKept`), so that taking the guess
  back restores what the calls below left.
* `VerdictRight` needs what has been ruled out: every value below the guess of a call
  in progress, with the guesses of the calls below it, completes to no solved board
  (`Refuted`), and a solved board has no two neighbours alike (`SolvedApart`, from the
  definition of `Solved` by units).
* `MeshStaysExact` (`MeshExact`), on every puzzle, with `Band <= 3`: the names of the
  constraints are decimal (`kRow + row * 10 + val`), and with values above nine two of
  them are the same. The code has `Band = 3`. `Exact(s, m, H)` says that `m` has,
  of the first mesh `s`, the columns `H` and the rows that lie in them (`Live`), each
  link to the nearest node that is left. Covering a column of an exact mesh yields
  the exact mesh without it (`CoverExact`), the walk down the column ending where it
  began although every node it unlinks changes the links of other columns
  (`CoverStaged`); uncovering passes the same stages backwards and gives back the very
  mesh (`UncoverUndoes`), and so does undoing a row (`TakenUndone`), in the opposite
  order only. The inductive invariant `Solving` is therefore a history: the mesh each
  call in progress was entered with, exact for the columns that were open, and the
  row it took next; a call that gives up leaves the mesh it was entered with. That the
  constructor weaves such a mesh is `DanceWoven` and `DanceExact`, from which columns
  and rows it keeps (`ColumnsListed`, `RowsListed`) and where they lie (`DanceBuilt`).
* `SolversDecide` (`VerdictRight` of all four solvers, `Band <= 3`) and `SolversTyped`
  (`TypeOK` of the module). For the dancing links a set of rows that covers each open
  column once is the same as a completion of the board that is solved: the rows taken
  are such a set when no column is left (`TakenCovers`), what they say of the blanks
  is solved (`CoverCompletes`), and a solved completion takes one row of every open
  column (`SolutionCovers`). The
  invariant (`Tried`) adds to the history of `Solving` what each call in progress has
  ruled out: no solved completion of the board takes, with the rows above, a row of
  its column that was passed over. A column without rows then has no solution, and a
  call that gives up has refuted all of its column's. Givens that clash need no case
  of their own: rows that cover every open column put every value into every unit,
  which is what solved means, so that a clash leaves a column uncovered.

**Web server** (`HttpProofs`). For the pool, with assumptions on `Fds`, `Workers` and
the limits: `OneOwner`, `NoForeignClose`, `SemaphoreBacked`, `PopFindsRequest`,
`TypeCorrect`. A descriptor is owned in one place only, accept loop, queue or a
worker (`OwnedOnce`); a slot names its own descriptor or none, whatever a late
reset does (`SlotOwn`); a worker about to close has answered (`AnsweredInv`) or
met a silent client, or its slot was reset and it closes nothing (`SilentInv`).
`SemaphoreBacked` counts: posts and workers between `sem_wait` and `pop` are never
more than the queued requests.

For one request (assumption `RequestConstants`: a buffer of at least one byte and the
files the code answers with): `HeadReadExactly` (`HeadIsRead`) and
`AnswerIsToRequest` (`AnswerFits`), for any requests in any pieces. `get_line` knows
nothing of what it read before; the invariant says where in the request it is.
`Chunk(s, e, q, n)`: the line that starts behind `s` has been read up to `e`, in `q`
full buffers that were returned and `n` bytes that are in the buffer, and no line up
to `s` ends the head. Between two steps the reader is within such a line (`InLine`),
behind a carriage return of which it does not know yet whether a line feed follows
(`AtCR`), behind an end of line (`AtEnd`), or cut off by the end of the stream. The
head is missed exactly when a line ends with `n = 0` and `q > 0`, an empty rest of a
line that is none: `LinesFit` excludes that, and the finding is that it happens. What
the answer is made of (`decode_str`, `stat`, the types) is opaque to these proofs:
they say what it depends on.

`ListingsLead` (`LinksLead`) opens it: every link of a listing is answered with the
entry it stands for, whatever the names in the directory. `encode_str` and
`decode_str` are recursive functions, and what they compute is proved by counting up
(`CountUp`, an induction over a set of numbers): the encoding of a name is made of
pieces, each of them one byte or three, and `decode_str` takes exactly these pieces
back, since no plain byte is a percent sign and no two bytes have the same code. The
path between is cut out by `sscanf` at a blank, and the encoding has none. It assumes
`LinkableNames` (names are made of bytes that `encode_str` can write) and `FixedPaths`
(the files that answer `/` and `/api/check` are files, and `./static/` has no other
behind the latter); and it is about requests that have a path
(`HasPath`: without one, `sscanf` leaves the buffer as it was, see section 6).

## 5. What is only model-checked

* **Liveness** (`FollowersCatchUp`, `MeshCompletes`, `StoppedIsDropped`,
  `AllPrinted`, `TakenIsAnswered`, `LatestAnswered`): fairness and `ENABLED` are beyond
  the prover.

Every safety invariant and action property of a passing run is stated by a theorem of
section 4, some of them under a hypothesis named there.

## 6. What is not modelled, and why

* **Clocks.** A timeout may fire at any tick, an election timeout has any length.
* **Buffers of 1024 bytes** in Lab 3: a full read writes its NUL behind the buffer,
  and a failed one before it. Packets cut by a read are `RespStream`'s; in the other
  models of the server packets are whole, one or several to a read. Words have no
  `*`, at which `strtok` cuts them (an empty rest ends the server), and no `$`, which
  `decodeResp` drops.
* **Undefined behaviour that goes anywhere**: a call through a null `cmd`, a slot
  past `MAX_EVENT` and `argv[0]` of no words end the models of `KvConnections` and
  `RespStream` (`crashed`); first lines of a request without a path (an
  uninitialised buffer) are left out. Where the outcomes can be named (the stale
  `argv` after a replayed `flushDb`) they are a choice.
* **Connections.** Failures of `socket`, `bind` and epoll themselves, writes that are
  taken in part, followers and elections (`KvMembership`, `KvElection`): the only
  connection the timer closes here is the leader's.
* **Lab 3 server.** The announcement `beMy` to the router is the router's model's;
  membership leaves
  out elections meanwhile, repeated `slaveof`, a full table of clients
  (`KvConnections` has the last two) and the signal handler iterating tables under
  change. A `slaveof` that names another server while one is followed is left out,
  and so is a key named `onetime` in `KvReplication`: replayed at a follower, its
  `set` suppresses the ACK as well.
* **Router.** Answers whose first word is one of its commands, several lines of
  standard input in one read, `loadConfig`.
* **Solvers.** Printing, non-digit characters, contradictory givens for the three
  solvers that assume there are none. The pipeline prints what the solver leaves,
  whatever it returned.
* **Requests.** Over-long paths, names and encodings, `.` and `..` in listings,
  most content types, failing `send`s (`HttpServer` has them), links of a
  directory that was asked for without its trailing `/` (relative links lead one
  level up; `LinksLead` is about the others). A `POST` without a body keeps its
  worker until the client closes.
* **accept()** failing for another reason than a full queue.

## Findings

Where the code does something else than the repository says. One has a run that
shows the counterexample; the others are stated in the modules as definitions no
passing run lists, and TLC refutes each with the configuration named.

| Property | Module | What happens | Shown by |
|---|---|---|---|
| `OneLeaderPerTerm` | `KvElection` | tickets outlive the term they were given for: a candidate that has voted for another still wins, and the term has two leaders | run `kv_election_two_leaders` |
| `OneVotePerTerm` | `KvElection` | the timer between the test of a term and its assignment: a vote for oneself and one for another | `KvElection.cfg` |
| `TicketsGiven` | `KvElection` | the timer between the test of a YES and `tickets++`: it counts for the next campaign | `KvElection.cfg` |
| `LeadersShareNoCampaign` | `KvElection` | such a double vote elects two leaders of one term in a mesh of three | `KvElection.cfg` |
| `TermNeverDecreases` | `KvElection` | the late assignment puts an older term over that of the campaign | `KvElection.cfg` |
| `CampaignLeadersUnique` | `KvElection` | four servers: each of two candidates has the vote of one other, one of the voters stops, `numsServer` becomes three and two tickets are enough for both | `KvElection.cfg` without symmetry, with `Server <- MCFour`, `FirstLeaders <- MCLeft`, `MaxBatch = 1`, `MaxTerm = 1` and `MCTwoCandidates` for `MCTerms` |
| `HistoriesAgree` | `KvReplication` | votes ignore the log and SYN compares lengths only: a follower that misses an entry takes over, or wins under a leader that lives and goes on executing, and histories part for ever | `KvFailover.cfg`, also with `MaxCrashes = 0` |
| `StoresAgree` | `KvReplication` | two writes in one read: the first is logged twice | `KvReplication.cfg` with `MCSets` and `MaxUserBatch = 2` |
| `ConnectedOnce` | `KvMembership` | a server that stops and comes back is connected and counted twice | `KvMembership.cfg` |
| `RunOnceAnyway` | `KvConnections` | an event of a closed connection is served for the next one on its descriptor: the old packet is run again, in the new one's name | `KvConnections.cfg` |
| `CmdNeverNull` | `KvConnections` | such an event on a new leader's connection: the timer closes it while its packet is run, and the handler is called through a null pointer | `KvConnections.cfg` |
| `AnswersOwnAnyway` | `KvConnections` | `showServer` fills no buffer: the client is sent the last answer again, which may be another's | `KvConnections.cfg` |
| `AlwaysWaits` | `KvConnections` | after a failed write a descriptor stays disarmed and open for ever | `KvConnections.cfg` |
| `SlotForEach` | `KvConnections` | clients are counted, slots are found by descriptor: the table is overrun before the count is full | `KvConnections.cfg` |
| `SurvivesAnyCut` | `RespStream` | a read that ends before the first word of a packet ends the server | `RespStream.cfg` |
| `RunsWhatWasTyped` | `RespStream` | a read that ends inside a packet runs its first words as a command, and logs it | `RespStream.cfg` |
| `AllIsAnswered` | `RespStream` | a command whose second word is `onetime` is executed and never answered | `RespStream.cfg` |
| `AnnouncementObeyed` | `UserRouter` | a `beMy` behind an answer in one read is lost, and writes go to the old leader | `UserRouter.cfg` |
| `ConsumersExit` | `SudokuPipeline` | the last signals come between a test and its wait: the program never ends | `SudokuPipeline.cfg` with two consumers (`MCTwo`), `n_pthread = 2` and `Input <- MCSmallInput` |
| `RefusesOnlyWhenBusy` | `HttpServer` | answered requests stay counted: after `MAX_REQUESTS` of them every client is refused | `HttpServer.cfg` |
| `BodyIsRead` | `HttpRequest` | a form in two pieces is judged by the first | `HttpRequest.cfg` |
| `HeadIsReadAnyway` | `HttpRequest` | after a header line of the buffer's size the rest of the header is taken for the body | `HttpRequest.cfg` |
| `EchoIsForm` | `HttpRequest` | `id&name` is accepted as key-value pairs | `HttpRequest.cfg` |

Sources and quotations are in `PROJECT.json` under `findings`.

## 7. Plan

The order so far: election (core of the system), replication, pipeline, web
server, router, solvers, membership, requests, connections, RESP; proofs after
each. Left:

* **Wider models**: elections while the mesh forms, several lines per read at the
  router.
