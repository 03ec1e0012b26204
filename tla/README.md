# Verification of the RPG game server

TLA+ models of the C++ game server (`src/game_server`), of the part of the Node
server (`src/node_server`) that shares its data, TLC runs that check them on
small instances, and TLAPS proofs of the properties that matter most, for
every size. Paths below are relative to `src/`; `PROJECT.json` maps each
definition to the lines it models.

    tlc -config RoomsAnyOrder.cfg MCRoomManager.tla     # a run
    tlapm RoomManagerProofs.tla                         # the proofs of a module

## 1. The system

A Windows game server: IOCP worker threads (twice the cores) complete accepts,
receives and sends; packets go to handlers that keep rooms in memory, statistics
in Redis and the rest in MySQL; a flusher thread copies statistics from Redis to
MySQL every 30 s; a logger thread writes the log. An Express server reads the
same MySQL and Redis. A dummy client loads the server.

`main` starts the parts in this order: workers, accepts, `SetAcceptor`, the
connection pool, Redis, `SyncWorker`. Clients are served from the second step on,
beside everything `main` has still to do.

| part | state | operations | who calls |
|---|---|---|---|
| `Acceptor` | listen socket, 256 outstanding `AcceptEx` | `Init`, `RegisterAccept`, `OnAcceptCompleted` | main, IOCP worker |
| `IocpCore` | completion port, workers, `m_acceptor` | `Start`, `SetAcceptor`, `WorkerThreadMain` | main |
| `Session` | socket, two overlapped structures with `keepAlive`, ring buffer, send queue, `m_isSending` | `PostRecv`, `OnRecvCompleted`, `PostSend`, `RegisterSend`, `SendCompleted` | worker, any broadcasting thread |
| `RingBuffer` | 16 KB array, two positions, size | `Write`, `Peek`, `Read`, `Ignore`, `TryAssemblePacket` | `OnRecvCompleted` |
| `SessionManager` | map of sessions under a `shared_mutex` | `AddSession`, `RemoveSession`, `Broadcast` | worker |
| `PacketHandler` | none | `Handle` and nine handlers | `OnRecvCompleted` |
| `RoomManager`, `Room` | map of rooms, id allocator; players of a room; a lock each | `GetOrCreateRoom`, `CreateRoom`, `GetRoom`, `DestroyRoom`; `Enter`, `Leave`, `GetPlayerCount`, `Broadcast` | ENTER and LEAVE handlers |
| `RedisManager` | one hiredis context, `m_lock` | `SetCharacterStat`, `GetCharacterStat`, `PopDirtyIds`, `Init`, session keys | STAT handler, flusher, main |
| `SyncWorker` | thread, `m_isRunning` | `Start`, `Stop`, `FlushAll` | main |
| `DBManager` | pool of `MYSQL*`, condition variable | `Init`, `GetConnection`, `ReturnConnection`, eight statements | main, handlers, flusher |
| `AsyncLogger` | two queues, cool-down stamp, thread | `Log`, `LogError`, `Configure` | everyone |
| dummy client | threads, each with a slice of the clients; a latch | connect, `RunScenario`, `Disconnect` | its own main |
| Node server | Redis keys `character:stat:`, `auth_session:`; MySQL | routes | HTTP clients |

Sessions are held by `shared_ptr` from `SessionManager`, from rooms and from the
`keepAlive` of their own overlapped structures. Handlers run on workers, so two
sessions' handlers interleave at every lock; one session's packets do not,
because its next receive is posted after the handlers returned. The Node
server and the game server meet in Redis and MySQL without any common lock.

What is hard here: handlers that take two locks one after the other (rooms);
the lifetime of a Session while the system still has its memory; a lock-free
flag beside a locked queue (`m_isSending`); notifications sent after unlocking
(pool, logger); a cache two programs write; a marker set deleted before the work
it stands for is done; parts in use before `main` has set them up; everything that
can be refused in the middle (accepts, receives, sends, statements), and a process
that dies and is started again beside a Redis that lives on. `PROJECT.json` lists these hazards one by one, at
their lines.

What makes each part correct, in a sentence: a room never overfills, is one per
map and goes with its last player, and LEAVE finds the room ENTER chose; a
statistic accepted is written in the end and never overwritten by an older one;
the packets sent are the packets handled, while the connection lasts; one send is out at a time, in the
order pushed, and none is forgotten; a Session outlives its operations and no
longer; the accepts outstanding do not run out; a session that is gone and said LEAVE
has no seat in its map's room; a connection has one user and no
waiter sleeps beside a free one; a packet to be stored is stored or reported; a line
logged is written, once, in order, if its file is to be had.

## 2. The modules

Each component module has its constants with a named ASSUME, its variables,
one action per handler step, `Spec`, `FairSpec` where liveness is checked, and its
properties. The `MC...` modules hold the values and symmetry sets TLC needs; the
`...Proofs` modules hold the theorems. Each module begins with the *mistakes*:
operators that change one definition as a plausible bug would; none is part of the
specification, they are what each property is tried against (`mutants` in
`PROJECT.json`).

| module | models | a step is |
|---|---|---|
| `RoomManager` | `Room.cpp`, `RoomManager.cpp`, `OnEnterRoom`, `OnLeaveRoom` | one locked region |
| `LoadTest` | the dummy client's threads, latch and scenario; a session's packets and its end | one connect, count, packet or handler region |
| `WriteBehind` | what the statistics path promises (abstract) | accept, persist |
| `StatSync` | `OnCharacterStat`, `RedisManager` with `Init`, `SyncWorker` with `Start` and `Stop`, `UpdateCharacterStat`, `character.js` | one Redis command or SQL statement |
| `OrderedDelivery` | what each direction of a session promises (abstract) | accept, deliver |
| `RingBuffer` | `RingBuffer.cpp`, as operators on its value | – |
| `RecvPath` | the client's stream, `PostRecv`, `OnRecvCompleted`, the RECV case | one completion, one packet |
| `SendQueue` | `PostSend`, `RegisterSend`, `SendCompleted`, the SEND case | one locked region or atomic |
| `DBPool` | `Init`, `GetConnection`, `ReturnConnection` | one locked region, one notification, half a push of `Init` |
| `Statements` | `OnCharacterInfo`, `OnInventory`, `OnAuction` and their INSERTs, the flusher's UPDATE | a step of `DBPool`, one SQL statement |
| `SessionLifecycle` | `main` up to its loop, `Acceptor`, the worker loop, `PostRecv`, `keepAlive`, `SessionManager` | one call on shared state |
| `AsyncLogger` | `AsyncLogger.cpp` | one locked region, one notification, one write or request |

`RecvPath` extends `RingBuffer`, `Statements` extends `DBPool`, `LoadTest` extends
`RoomManager`; `RecvPath` and `SendQueue` instantiate `OrderedDelivery`, `StatSync`
instantiates `WriteBehind`. `LoadTest` composes three parts: the clients that connect
and send, the sessions that take their packets in order and end, and the rooms those
packets are about. `SessionLifecycle` justifies what the others take for granted: that one worker at a
time is in a session's receive path (`SoleReceiver`), on which `RecvPath` and
`RoomManager` (one handler per session) rest. It treats the bytes (`RecvPath`) and the
send queue (`SendQueue`) as one step each.

Correspondence, module by module:

- **RoomManager.** `rooms` is `m_rooms`, `allocator` is `m_roomIdAllocator` modulo
  `IdSpace` (the code: 2^32), `object` the heap of `Room`s by address; an address
  may be used again when no table entry and no handler refers to it. `pc`, `held`
  and `mapId` are a handler's locals. `Spec` lets a client send ENTER and LEAVE
  in any order.
- **LoadTest.** `at` and `turn` are where each thread of the dummy client is and which client
  it is at, `latch` is `g_connectLatch`, `socket` each client's socket. `sent` counts
  the packets a client has sent of its scenario, `handled` those the server has taken;
  `registered` is `SessionManager`'s map. A connect or a send may fail at any client. A
  session ends when its socket is closed and everything sent before is handled, which
  is what one receive at a time over TCP gives.
- **StatSync.** `cache` is the value of `character:stat:{id}` with its encoding (the
  packet's bytes, or JSON text), `dirty` the set `dirty_characters`, `mysql` the row.
  A stat is its version, counted per character in the order Redis took the SETs.
  `setting` is a worker between its SET and its SADD, `context` the hiredis context
  (null before `Init`, usable, or lost), `running` is `m_isRunning`, and `flusher` the
  place of the thread: before `Start`, at its test, waiting, between SMEMBERS and DEL,
  reading, updating, ended. `Faults` chooses among a failing UPDATE, a Redis connection
  that is not made or is lost, a crash with restart, and expiry; a crash loses `process`,
  which is everything but Redis and MySQL. The histories `lost` and `misread` name the
  characters whose newest stat a fault or the node server's JSON has cost. `Rows` are the
  characters with a row in `character_stat`, which no code inserts.
- **RecvPath, RingBuffer.** A byte is a number and a header's size field is its first
  byte; the ring is an array with both positions, and `Write`, `Peek`, `Read`, `Ignore`
  and `TryAssemblePacket` do what the code does, wrap-around included. A packet may
  carry a size outside the limits; `Before` are the packets ahead of the first such one,
  `Clean` says the stream has none yet. `recv` is `over` once nothing will be received any
  more: the peer closed, aborted or fell silent for good (`ConnectionEnds`), `WSARecv` failed
  at once (`PostRecv`), or a handler threw and the worker's catch left `PostRecv` out
  (`HandlerThrows`). What TCP still has then stays in `network`.
- **SendQueue.** `inFlight` is what the socket still reads from; a message is the number
  of its push. `WSASend` may refuse and a completion may bring 0 bytes; the history
  `failed` tells whether that has happened.
- **DBPool, Statements.** `waiting` threads are the condition variable's wait set; `late`
  is a thread whose 5 seconds are over and which looks once more. `Init` runs beside
  them: `unopened` are the connections it has still to open, and a `push_back` takes two
  steps, since it holds no lock: it reads the pool (`opening`, `seen`) and writes it. A
  region of a thread in between is a data race; the model gives it the outcomes of
  a vector whose size one write overwrites (either write stands, or both do), or the
  end of the process, and `raced` records it. `quiet` counts the connections pushed
  past threads that wait, of which nobody tells them, for as long as any waits. `usable` are the
  connections MySQL has not closed; `stored`, `reported` and `done` say of each packet
  whether its row is in, its failure was logged, its handler has returned. A row is
  its primary key and the keys it refers to. A packet whose row is missing may be sent
  again. The flusher's UPDATE starts after `Init`, as `main` starts it.
- **SessionLifecycle.** A Session is named by its client; `recv` and `send` are its
  two operations from their post to the worker that takes the completion; `keep`
  says which of the two structures holds `keepAlive`; `worker` is where each
  worker is in `AcceptOrder` or `RecvOrder` and what its local refers to. `AcceptEx` and
  `WSARecv` may fail at once and a handler may throw; the histories `refused` (how many
  accepts) and `broken` (which sessions) tell. `main` posts `toPost` accepts one by one and
  sets `m_acceptor` behind them; a completion taken before that ends the process (`dead`).
- **AsyncLogger.** A line is the number of its push, an error is named by its line.
  `TICKS` per second make the truncation of `duration_cast` visible. Anyone may call
  `Configure`, or nobody. A line is `printed` on `std::cout` and goes to the log files
  (`written`) if its file opens; if not it is `missed`. `create_directories` may throw after the
  line is printed (`WriteThrows`): nothing catches it on that thread and the process ends (`dead`).

## 3. The runs

| run | asks | instance | result |
|---|---|---|---|
| `RoomsAnyOrder` | capacity, one room per map, keys, no empty room left | 3 sessions, 1 map, 2 ids, rooms of 2 | holds |
| `LoadVisits` | the latch is a barrier, who may keep a seat when gone | 3 clients on 2 threads, 1 map, rooms of 1, connects and sends failing | holds |
| `RoomsEnterRace` | after ENTER a client is in a registered room | 2 clients of the dummy client | **violated** |
| `StatPath` | no update lost, `WriteBehind` implemented, stats reach MySQL, `Stop` returns | 2 characters, one with a row, 2 workers, 2 stats each, 1 Node request, all faults, 1 crash, fair | holds |
| `StatNodeFill` | no update lost without a fault | 1 character, 1 Node request, no faults | **violated** |
| `RecvSegments` | ring sound, no byte lost, `OrderedDelivery` implemented, every packet handled | 5 packets of 3 sizes and a rejected one, ring of 7, every cut, failures, fair | holds |
| `SendRaces` | one send out, one owner, nothing stranded, `OrderedDelivery` implemented | 3 senders, 6 messages, refusals, fair | holds |
| `PoolShared` | connections conserved, no lost wake-up, no packet lost in silence, handlers return | 2 workers and the flusher, 2 connections that `Init` opens beside them and that break, 2 of 4 packets, fair | holds |
| `SessionsFailing` | slots kept, registered is served, no completion for a dead Session, one receiver | 3 clients, 2 workers, 2 slots, `main` from its first step, failures | holds |
| `SessionsFair` | every connection served, every closed one removed | 2 clients, 1 worker, 1 slot, `main` from its first step, failures, fair | holds |
| `SessionLeaked` | a removed Session is destroyed | 1 client | **violated** |
| `LogOrder` | lines and errors conserved, no lost wake-up, cool-down, drained at the end, every line written, the destructor returns | 2 threads, 3 lines, 3 s of half-second ticks, failing files, fair | holds |

Each violated run checks one statement of a document or comment; `findings` in
`PROJECT.json` quotes it and says what the code does instead. Section 5 lists
divergences that have no run of their own.

Failures are part of the specifications, not of some runs: a property that a refusal
makes impossible says so itself, by a history (`failed`, `refused`, `broken`, `usable`, `lost`,
`misread`, `raced`, `quiet`, `missed`) or by the place where the program stopped (`over`, `dead`).
So `EveryPacketHandled` speaks of packets until the path is `over`, and `EveryLineWritten` of lines
no file was refused to.

**Bounds.** *Rooms:* a race needs a leaver, an enterer and a third to see the harm;
two ids are enough for the allocator to come back to a map's id, and five addresses
so that a destroyed room's address can be used again while handlers hold others.
*Load:* three clients divided by two threads make slices of one and two, the uneven end
`EndId` is there for; one seat sends the second client to an overflow room, whose
ids come back to the map's. `SCENARIO_LOOPS` is 0: the packets between ENTER and LEAVE go to
handlers that leave the rooms alone. *Stats:* two versions tell older from newer; the flusher
holds one while the next arrives; two characters let one UPDATE fail with another
popped behind it; one crash leaves marks for the next process (`MaxCrashes`).
*Receive:* a ring of 7 with packets of 2 to 4 puts reads and writes at every
offset across the end, and five packets go round it; out of step, no byte is an
acceptable size, so that a slip shows. *Send:* six messages by three threads keep
two in the queue while one is out and one is refused. *Pool and statements:* three
threads on two connections leave a waiter while connections come back to newcomers, for
ever if packets sent again keep being refused; two connections let `Init` push one beside
a pool in use; two of the four packets are two INSERTs of one key, or one and the INSERT its
foreign key needs (`MaxPackets`). *Sessions:* more clients than slots, so that a client
waits in the backlog; two workers, so that both completions of a session are handled
at once. *Logger:* three seconds with a cool-down of one give three requests and
errors between them; three lines outlast the pops of one round. `MaxWrites`, `MaxSent`,
`MaxPackets`, `MaxCrashes`, `MaxLines` and `MaxTime` bound histories only.

**Deadlock** is checked for the rooms and the pool. In the other runs the system may
stop, and `CHECK_DEADLOCK FALSE` says so: a process may die for good or `SyncWorker` have
stopped, the dummy client ends, closed clients never come back, and the bounds of
the histories end what remains.

**Fairness.** Threads of a preemptive scheduler run on: weak fairness on every step
of a handler, of the flusher, the logger, the workers, and of `main` on its way to its
loop. Clients, broadcasters and
callers are never obliged to act, and nobody is obliged to call `Configure` or `Stop`. No
fault is obliged to happen. In `StatSync` a process that died is assumed to be started again, up to
`main`'s loop (weak fairness on `Main`): without it nothing that is left in Redis reaches MySQL.
Weak fairness on completions: the system completes a send it took, with bytes or with none,
and a receive of a connection that ended. `SessionLifecycle` promises no data; `RecvPath` does
while a receive is outstanding: bytes on their way arrive, or the connection ends, which is an
action of its own that nothing obliges and nothing forbids. SQL statements end.
Strong fairness where a FIFO the model keeps as a set (the backlog, the completion
queue) passes no one over, and on the pool's deadline, which is an absolute time.
`AskLlm` ends because WinHTTP has time-outs. `JoinReturns` also needs the threads to
stop logging, here by `MaxLines`.

## 4. The proofs

For every value of the constants allowed by the ASSUMEs:

- **RoomManagerProofs**: `TypeCorrect`; `KeysMatch` (a registered room answers to its
  key, because only a fresh room is stored and ids of live rooms do not change); `RoomsKept`
  (`GetOrCreateKeepsRoom`: the second look is in the region that stores);
  `CapacityHeld` (the check and the insertion are one region); `NoLeak`: whenever a
  registered room is empty some handler *attends* to it — is about to enter it, to count
  it or to destroy it; the invariant names those positions, which is what makes it
  inductive. Any set of addresses will do; the sessions must be finite.
- **LoadTestProofs**: `UsesRooms`, that every step of the load test is a step of
  `RoomManager!Spec` or leaves the rooms alone, so that the theorems above hold under the load
  (`CapacityUnderLoad`, `RoomsUnderLoad`). `LatchSeparates`: the latch counts the clients not yet
  tried, slice by slice, and the slices partition the clients (the arithmetic of
  `StartId` and `EndId` is a chain of lemmas). `SeatsGivenBack`: a session past its LEAVE is in no
  room of its map, because a room of the map in the table that has it as a player is the
  one its LEAVE finds; the invariant follows the handler through ENTER and LEAVE and
  holds the session registered until everything sent is handled.
- **StatSyncProofs**, with every fault and from `main`'s start on: `TypeCorrect`; `Refines`: the
  path implements `WriteBehind!Spec`; the invariant orders every copy of a version
  (`mysql <= fetched <= cache <= latest` where each exists). `NothingLost`: a stat not in MySQL is
  on its way, or a fault or the JSON has cost it; it rests on `m_lock` keeping the
  SET/SADD and SMEMBERS/DEL pairs apart.
- **RecvPathProofs**, for any size of the ring and of the packets, any packets and any cut
  of the stream. First the ring as a queue of bytes: `WriteAppends` and `DropRemoves` say
  what `Write` and `Ignore` do to `Contents`, wrap-around included; `NextPacket`, that the
  size read from the ring is that of the next packet sent. From these `TypeCorrect` (the
  positions agree with the size), `ResidueHeld`, `BytesKept` and the refinement `PromiseKept`.
  The inductive invariant has two halves. *InStep*: handled are the first packets of those
  sent, all of them acceptable; the rest of the stream is what the ring holds and what TCP
  still has; and no full packet is left while a receive is posted. *Astray*: a rejected
  header was met, and of what was handled the packets before it stand. The halves are
  needed because nothing is known of the ring once a header was skipped: the code then reads
  whatever bytes follow as a header. A step leads from the first half to either, and
  never out of the second; a path that is over stays in the half it is in. Two assumptions on the constants carry it: a `m_recvBuffer` fits beside
  an incomplete packet (`RECV_SIZE + MAX_PACKET_SIZE - 1 <= BUFFER_SIZE`, which the code's sizes satisfy),
  and a client that declares an acceptable size sends that many bytes, as every packet of
  the dummy client does. The bytes of a sequence of packets are a fold; its equations
  (`FlattenAppend`, `FlattenPrefix`) are proved from a least counterexample in place of an induction.
- **SendQueueProofs**: `TypeCorrect`; `OneSend` and `OneOwner`, each other's strengthening;
  `NothingStranded`: until something fails, a queued message has an owner who will send
  it; `OrderKept`, the safety half of the refinement: the queue holds the last
  messages pushed, and where `WSASend` may be called it holds exactly those it has still to take.
- **StatementsProofs**. Of the pool by itself: `TypeCorrect`; `ConnectionsConserved`: a thread has a connection exactly
  where its code uses one, and unless a region ran in the middle of a push of `Init`, every
  connection is once in the pool, with one thread, or unopened; `NoWakeUpLost`: free
  connections but the `quiet` ones are at most the threads on their way, by counting. Then
  `UsesPool`, that every step of a handler is a step of the pool or
  none, so that `HandlersShareNone` and `HandlersAreWoken` follow from the pool's
  theorems; `StatementsTypeCorrect`; `NothingInSilence`. The invariant ties a packet's
  row, its thread's answer and its report together, and counts the *ambiguous* packets
  (row in, failure reported or about to be) against the broken connections.
- **SessionLifecycleProofs**: `NoOrphan` and `Sole` from one inductive invariant, with
  all failures and from `main`'s first step: types, *Held* (an outstanding operation's structure holds its session),
  *Untouched* (nothing happens to a connection before its accept is taken). `TypeCorrect`
  and `NoSlotLost` count the slots: not yet posted, outstanding, completed, in a worker's
  hands and refused; `RegisteredServed` holds for every session nothing broke.
- **AsyncLoggerProofs**: all invariants of `LogOrder`. `NoWakeUpLost` is inductive as it
  stands. `NothingLost` (lines and errors) and `Drained` rest on an invariant by index: the
  lines printed count from 1, the one in hand is the next, and the queue counts on from
  there; a log file's lines rise, and they are the printed ones without the `missed`; the errors reported, in hand and queued are the error lines in that order.
  `CooldownKept` needs that truncated seconds that differ by the cool-down are
  instants that do.

Only model-checked: everything about liveness (`StatReachesMySQL`, `StopReturns`, `HandlerReturns`,
`ConnectionIsServed`, `ClosedLeavesRegistry`, `EveryPacketHandled`, `EveryLineWritten`,
`JoinReturns`, the fair halves of the refinements), which TLAPS does not treat. Every invariant and
every action property that a passing run checks is also a theorem.

## 5. What is left out

- A packet shorter than its struct: the handlers cast what the ring accepted, any size from
  the header's to 512 bytes, to the struct of its id without comparing sizes
  (`Packethandler.cpp:20`). The models have clients that send whole structs, as the dummy client does.
- Contents and wording: packets beyond what their handlers branch on, JSON, SQL text,
  log text, time stamps, file rollover.
- `Broadcast` to rooms and sessions: nothing calls it; `SessionLifecycle` and `SendQueue` have it as an
  environment, because the send path is there for it. So too `Configure`, without which the LLM's
  path is never taken: what the models show of these two paths is of code nothing runs yet.
- `RedisManager`'s session keys and `DeleteCharacterStat`, `DBManager`'s three selects and
  `UpdateAuctionStatus`: called by nothing, so no state depends on them.
- What follows `main`'s loop, which never ends: the destructors of `IocpCore` and `Acceptor`. A
  `WSAStartup` or completion port that fails, which ends the process or leaves it idle.
- The Node server's accounts and logger: a program of its own, whose keys and tables the game
  server neither reads nor writes. Where the two meet, at `character:stat:`, is in `StatSync`.
- The Node server's queries and the LLM documents: reads without state.
- The dummy client's monitor thread, the counters it prints, and the pacing of its connects.
- 2^32 rooms: `IdSpace` wraps at a small number; a real wrap takes 2^32 overflows.
- Memory order: `m_isSending` and `m_isRunning` are sequentially consistent atomics in
  the code, so interleaving is faithful. `m_acceptor` is a plain pointer, set while workers
  read it: the model lets a worker see it null until `SetAcceptor` and set afterwards.

**Divergences seen while modelling, without a run of their own.** The models have the
code's behaviour in each; the properties are stated so as not to claim more.

- Overflow rooms take their ids from an allocator that starts at 0 (`RoomManager.h:25`), in the
  same table as the maps' rooms (`RoomManager.cpp:13`): the second one made for a full map
  replaces the live room of map 1, where `Packethandler.cpp:131` speaks of a new room.
- LEAVE looks the room up by map id (`Packethandler.cpp:143`), so a client that was
  spilled into an overflow room stays in it, where `dummy_client/main.cpp:76` has it leave.
- A session that ends without a LEAVE is removed (`IocpCore.cpp:80`) and no room is told: its
  seat stays taken, and the room with it.
- `SetAcceptor` runs after the workers and the accepts (`main.cpp:41`): a client that connects
  in between is accepted through a null pointer, which ends the process.
- `RedisManager::Init` runs after clients are served (`main.cpp:45`): a stat that comes before
  it is a command on a null context, which ends the process.
- `DBManager::Init` pushes into the pool without its lock and without a notification
  (`Dbmanager.cpp:41`), beside handlers that take and return connections (`main.cpp:44`): a
  connection may be lost or doubled, and a handler that already waits is not told of it.
- A `Stop` between `FlushAll` and the loop's test (`SyncWorker.cpp:22`) ends the thread without
  another flush: what was marked meanwhile waits in Redis for the next process.
- A failed UPDATE (`SyncWorker.cpp:54`), an SADD whose reply is not looked at
  (`Redismanager.cpp:48`), and a crash between `PopDirtyIds`' DEL (`Redismanager.cpp:136`)
  and the UPDATEs lose the stat until the next one comes; `Packethandler.cpp:84` says
  `SyncWorker` takes care of MySQL.
- The UPDATE of a character without a row in `character_stat` changes nothing and counts
  as a success (`Dbmanager.cpp:119`); no code inserts such a row, `InsertCharacter` included.
- A hit on a key the game server wrote is parsed as JSON and answers 500
  (`character.js:16`), where `architecture.md:142` has it answer from the cache.
- `admin.js:15` counts the sessions by scanning `session:*`, which neither the `game_session:` nor
  the `auth_session:` keys match.
- Packets that arrive with or behind a header of a bad size wait for the next completion,
  because one empty result stands for "rejected" and "incomplete" (`RingBuffer.cpp:81`);
  `architecture.md:92` speaks of the rejected header, not of what follows it.
- An `AcceptEx` refused at once is logged and its slot never refilled (`Acceptor.cpp:99`);
  the comment at `Acceptor.cpp:138` wants the pool maintained.
- A `WSARecv` refused after `AddSession` (`Session.cpp:42`) or an exception in a handler
  (`IocpCore.cpp:101`) leaves a session registered that nothing will complete for;
  in `architecture.md:493` a client that goes is a 0-byte completion and a removal. What that
  client sends from then on is never handled.
- A line whose log file does not open is dropped from the log without a word
  (`AsyncLogger.cpp:170`), and a `create_directories` that throws (`AsyncLogger.cpp:168`) does so on
  the logger thread, which catches nothing: the server ends because of its log.
- `main` never calls `Configure` (`AsyncLogger.h:17`), so `SendToAI` returns at once
  (`AsyncLogger.cpp:179`) and no error is ever reported.
- `InsertCharacter` binds `guild_id` as it comes (`Dbmanager.cpp:89`). `Packet.h:64` calls 0
  "no guild, handled apart", and `SelectCharacter` does turn NULL into 0; but 0 is inserted
  as 0, which the foreign key on `guild` refuses. The dummy client sends nothing else.
- No code inserts an `item_instance`: `OnItemInstance` only logs, so the dummy client's
  `INVENTORY_INFO` is refused by its foreign key.
- A connection MySQL closed goes back to the end of the pool and is the next handed out
  (`Dbmanager.cpp:53`, `:61`), while working ones lie under it; nothing connects again.

## 6. Plan

The modules of the plan are written, and every invariant and action property of the runs is
a theorem; the parts of the system without a module are those of section 5. One thing could
follow: `AsyncLogger` makes for its lines the promise that `OrderedDelivery` makes for packets
and messages, and could be shown to implement it too, from the invariant `NothingLost` rests on.
