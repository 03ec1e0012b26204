------------------------------ MODULE StatSync ------------------------------
(***************************************************************************)
(* A character's statistics on their way from PKT_CharacterStat to MySQL:  *)
(* PacketHandler::OnCharacterStat and RedisManager::SetCharacterStat on    *)
(* the IOCP workers, SyncWorker's thread from Start to Stop, and the node  *)
(* server's GET /api/character/:id, which shares the Redis keys.           *)
(*                                                                         *)
(* Every Redis command and every SQL statement is a step.  The commands of *)
(* one call of RedisManager run under m_lock; the node server has its own  *)
(* connection and takes no lock.                                           *)
(*                                                                         *)
(* A stat is its version: 0 is the row MySQL starts with, v the v-th stat  *)
(* Redis accepted for the character.  latest counts those; a stat whose    *)
(* SET fails is logged and dropped, and changes nothing here.              *)
(*                                                                         *)
(* main starts the IOCP workers and accepts connections before it connects *)
(* to Redis: a stat may arrive while RedisManager's context is null.       *)
(***************************************************************************)
EXTENDS Naturals

CONSTANTS
    Characters,
    Rows,         \* characters with a row in character_stat
    Workers,      \* IOCP worker threads handling PKT_CharacterStat
    NodeReaders,  \* requests the node server may have in flight
    Faults,       \* what may go wrong, see AllFaults
    MaxWrites,    \* bound: stats accepted per character
    MaxCrashes,   \* bound: how often the game server dies
    NoOne         \* no character

AllFaults == {"db",      \* UpdateCharacterStat returns false
              "redis",   \* the game server loses its Redis connection
              "crash",   \* the game server dies, and is started again
              "expire"}  \* a key's EX 3600 runs out

ASSUME ConstantsAssumption ==
    /\ Rows \subseteq Characters
    /\ Faults \subseteq AllFaults
    /\ MaxWrites \in Nat
    /\ MaxCrashes \in Nat
    /\ NoOne \notin Characters

VARIABLES
    cache,      \* character:stat:{id}
    dirty,      \* dirty_characters
    mysql,      \* character_stat
    setting,    \* the character a worker has SET and not yet SADDed
    context,    \* RedisManager::m_context: null, usable, or with an error
    running,    \* SyncWorker::m_isRunning
    flusher,    \* where SyncLoop is
    pending,    \* popped ids FlushAll has still to look at
    fetched,    \* the stat FlushAll read, for UpdateCharacterStat
    request,    \* where each request of the node server is
    latest,     \* history: version of the newest stat SET in Redis
    lost,       \* history: characters whose newest stat a fault has cost
    misread,    \* history: characters whose newest stat was read as JSON text
    crashes     \* history: how often the game server died

process  == <<setting, context, running, flusher, pending, fetched>>
gameVars == <<dirty, process>>
excuses  == <<lost, misread>>
vars == <<cache, mysql, latest, gameVars, request, excuses, crashes>>

-----------------------------------------------------------------------------
(* Mistakes the properties are tried against, each in place of the         *)
(* definition named.                                                       *)

\* Packet: the stat written is one ahead of the one accepted
PacketAhead(v) == [format |-> "packet", version |-> v + 1]
\* LockFree: no m_lock
NoLock == TRUE
\* Marked: SADD left out
NotMarked(c) == dirty
\* Marked: SET of the key instead of SADD to it
MarkedAlone(c) == {c}
\* NextRound: the loop does not look at m_isRunning again
NoLook == "wait"
\* Decode: the JSON text is parsed for the stat it shows
DecodeAny(c, value) == [character |-> c, version |-> value.version]

-----------------------------------------------------------------------------
\* The values of a key: nothing, the packet's bytes, or the JSON text.
Packet(v) == [format |-> "packet", version |-> v]
Json(v)   == [format |-> "json",   version |-> v]
Nothing   == [format |-> "none",   version |-> 0]

Versions == 0 .. MaxWrites
Values   == [format : {"packet", "json", "none"}, version : Versions]

NoStat        == [character |-> NoOne, version |-> 0]
NoRequest     == [at |-> "idle", character |-> NoOne, version |-> 0]

-----------------------------------------------------------------------------
(* What the source computes.                                               *)

\* RedisManager::m_lock: held across SET and SADD, and across SMEMBERS and DEL.
LockFree ==
    /\ \A w \in Workers : setting[w] = NoOne
    /\ flusher # "clear"

\* memcpy into a PKT_CharacterStat.  The bytes of a JSON text, read as a
\* packet, name no character of the table.
Decode(c, value) ==
    IF value.format = "packet" THEN [character |-> c, version |-> value.version]
                               ELSE NoStat

\* UPDATE ... WHERE character_id = ?: no matching row is no error.
Matches(stat) == stat.character \in Rows
Updated(stat) ==
    IF Matches(stat) THEN [mysql EXCEPT ![stat.character] = stat.version] ELSE mysql

Marked(c) == dirty \cup {c}
Cleared   == {}

\* while (m_isRunning)
NextRound == IF running THEN "wait" ELSE "ended"

-----------------------------------------------------------------------------
(* History: who is to blame for a stat that will not reach MySQL.          *)

Behind(c) == mysql[c] < latest[c]

OnItsWay(c) ==
    \/ \E w \in Workers : setting[w] = c
    \/ c \in dirty \cup pending
    \/ fetched = [character |-> c, version |-> latest[c]]

\* A character without a row has nowhere to be written to: no code inserts one.
Stranded == { c \in Rows : Behind(c) /\ ~OnItsWay(c) }

NoFault    == UNCHANGED excuses
FaultCosts == lost' = lost \cup Stranded' /\ UNCHANGED misread
JsonCosts  == misread' = misread \cup Stranded' /\ UNCHANGED lost

-----------------------------------------------------------------------------
Init ==
    /\ cache = [c \in Characters |-> Nothing]
    /\ dirty = {}
    /\ mysql = [c \in Characters |-> 0]
    /\ setting = [w \in Workers |-> NoOne]
    /\ context = "null"
    /\ running = FALSE
    /\ flusher = "off"
    /\ pending = {}
    /\ fetched = NoStat
    /\ request = [n \in NodeReaders |-> NoRequest]
    /\ latest = [c \in Characters |-> 0]
    /\ lost = {}
    /\ misread = {}
    /\ crashes = 0

(* main *)

\* RedisManager::Init: without an answer the context keeps its error.
ConnectRedis ==
    /\ context = "null"
    /\ \/ context' = "up"
       \/ "redis" \in Faults /\ context' = "lost"
    /\ NoFault
    /\ UNCHANGED <<cache, mysql, latest, dirty, setting, running, flusher,
                   pending, fetched, request, crashes>>

\* SyncWorker::Start
Start ==
    /\ context # "null"
    /\ flusher = "off"
    /\ running' = TRUE
    /\ flusher' = "test"
    /\ NoFault
    /\ UNCHANGED <<cache, mysql, latest, dirty, setting, context, pending,
                   fetched, request, crashes>>

\* SyncWorker::Stop up to the join; its notification only ends a wait early.
Stop ==
    /\ running
    /\ running' = FALSE
    /\ NoFault
    /\ UNCHANGED <<cache, mysql, latest, dirty, setting, context, flusher,
                   pending, fetched, request, crashes>>

(* IOCP workers: OnCharacterStat -> SetCharacterStat *)

\* lock, SET key packet EX 3600
SetStat(w, c) ==
    /\ LockFree
    /\ context = "up"
    /\ latest[c] < MaxWrites
    /\ latest' = [latest EXCEPT ![c] = @ + 1]
    /\ cache' = [cache EXCEPT ![c] = Packet(latest[c] + 1)]
    /\ setting' = [setting EXCEPT ![w] = c]
    /\ lost' = lost \ {c}
    /\ misread' = misread \ {c}
    /\ UNCHANGED <<dirty, mysql, context, running, flusher, pending, fetched,
                   request, crashes>>

\* SADD dirty_characters, unlock; the reply is not looked at
MarkDirty(w) ==
    /\ setting[w] # NoOne
    /\ setting' = [setting EXCEPT ![w] = NoOne]
    /\ UNCHANGED <<cache, mysql, latest, context, running, flusher, pending,
                   fetched, request, crashes>>
    /\ \/ context = "up" /\ dirty' = Marked(setting[w]) /\ NoFault
       \/ context = "lost" /\ UNCHANGED dirty /\ FaultCosts

(* SyncWorker's thread: SyncLoop -> FlushAll *)

TestRunning ==
    /\ flusher = "test"
    /\ flusher' = NextRound
    /\ NoFault
    /\ UNCHANGED <<cache, mysql, latest, dirty, setting, context, running,
                   pending, fetched, request, crashes>>

\* The 30 s are over, or Stop has notified: either way FlushAll is called.
\* PopDirtyIds: lock, SMEMBERS.  Without a connection it returns no id.
PopDirty ==
    /\ flusher = "wait"
    /\ LockFree
    /\ \/ context = "up" /\ pending' = dirty /\ flusher' = "clear"
       \/ context = "lost" /\ UNCHANGED pending /\ flusher' = "flush"
    /\ NoFault
    /\ UNCHANGED <<cache, mysql, latest, dirty, setting, context, running,
                   fetched, request, crashes>>

\* DEL dirty_characters, unlock; the reply is not looked at
ClearDirty ==
    /\ flusher = "clear"
    /\ dirty' = IF context = "up" THEN Cleared ELSE dirty
    /\ flusher' = "flush"
    /\ NoFault
    /\ UNCHANGED <<cache, mysql, latest, setting, context, running, pending,
                   fetched, request, crashes>>

\* GetCharacterStat of the next id: a value is there ...
ReadStat(c) ==
    /\ flusher = "flush"
    /\ c \in pending
    /\ LockFree
    /\ context = "up" /\ cache[c] # Nothing
    /\ pending' = pending \ {c}
    /\ fetched' = Decode(c, cache[c])
    /\ flusher' = "update"
    /\ UNCHANGED <<cache, mysql, latest, dirty, setting, context, running,
                   request, crashes>>
    /\ IF cache[c].format = "json" THEN JsonCosts ELSE NoFault

\* ... or it has expired, or Redis does not answer: the id is passed over.
SkipStat(c) ==
    /\ flusher = "flush"
    /\ c \in pending
    /\ LockFree
    /\ context = "lost" \/ cache[c] = Nothing
    /\ pending' = pending \ {c}
    /\ UNCHANGED <<cache, mysql, latest, dirty, setting, context, running,
                   flusher, fetched, request, crashes>>
    /\ FaultCosts

\* UpdateCharacterStat; FlushAll only counts what it returns.
UpdateStat ==
    /\ flusher = "update"
    /\ fetched' = NoStat
    /\ flusher' = "flush"
    /\ UNCHANGED <<cache, latest, dirty, setting, context, running, pending,
                   request, crashes>>
    /\ \/ mysql' = Updated(fetched) /\ NoFault
       \/ "db" \in Faults /\ UNCHANGED mysql /\ FaultCosts

FlushDone ==
    /\ flusher = "flush"
    /\ pending = {}
    /\ flusher' = "test"
    /\ NoFault
    /\ UNCHANGED <<cache, mysql, latest, dirty, setting, context, running,
                   pending, fetched, request, crashes>>

(* The node server: GET /api/character/:characterId *)

\* redis.get: with a hit the request is answered at once and nothing changes.
NodeMiss(n, c) ==
    /\ request[n] = NoRequest
    /\ cache[c] = Nothing
    /\ request' = [request EXCEPT ![n] = [at |-> "select", character |-> c, version |-> 0]]
    /\ UNCHANGED <<cache, mysql, latest, gameVars, excuses, crashes>>

\* SELECT ... JOIN character_stat: status 404 without a row.
NodeSelect(n) ==
    LET c == request[n].character IN
    /\ request[n].at = "select"
    /\ request' = [request EXCEPT ![n] =
                      IF c \in Rows
                      THEN [at |-> "fill", character |-> c, version |-> mysql[c]]
                      ELSE NoRequest]
    /\ UNCHANGED <<cache, mysql, latest, gameVars, excuses, crashes>>

\* redis.set(key, JSON, 'EX', 3600), whatever is there by now; then the answer.
NodeFill(n) ==
    /\ request[n].at = "fill"
    /\ cache' = [cache EXCEPT ![request[n].character] = Json(request[n].version)]
    /\ request' = [request EXCEPT ![n] = NoRequest]
    /\ UNCHANGED <<mysql, latest, gameVars, excuses, crashes>>

(* Faults *)

\* hiredis keeps the error in its context and RedisManager never reconnects.
LoseRedis ==
    /\ "redis" \in Faults
    /\ context = "up"
    /\ context' = "lost"
    /\ NoFault
    /\ UNCHANGED <<cache, mysql, latest, dirty, setting, running, flusher,
                   pending, fetched, request, crashes>>

\* Redis and MySQL outlive the process; main begins again.
ProcessDies ==
    /\ crashes < MaxCrashes
    /\ crashes' = crashes + 1
    /\ setting' = [w \in Workers |-> NoOne]
    /\ context' = "null"
    /\ running' = FALSE
    /\ flusher' = "off"
    /\ pending' = {}
    /\ fetched' = NoStat
    /\ UNCHANGED <<cache, mysql, latest, dirty, request>>
    /\ FaultCosts

Crash == "crash" \in Faults /\ ProcessDies

\* A stat that arrives before RedisManager::Init: redisCommand is given the
\* null context.
EarlyStat == context = "null" /\ ProcessDies

Expire(c) ==
    /\ "expire" \in Faults
    /\ cache' = [cache EXCEPT ![c] = Nothing]
    /\ NoFault
    /\ UNCHANGED <<mysql, latest, gameVars, request, crashes>>

-----------------------------------------------------------------------------
Main == ConnectRedis \/ Start

Flush ==
    \/ TestRunning
    \/ PopDirty
    \/ ClearDirty
    \/ \E c \in Characters : ReadStat(c) \/ SkipStat(c)
    \/ UpdateStat
    \/ FlushDone

NodeStep(n) ==
    \/ \E c \in Characters : NodeMiss(n, c)
    \/ NodeSelect(n)
    \/ NodeFill(n)

Next ==
    \/ Main
    \/ Stop
    \/ \E w \in Workers :
           \/ \E c \in Characters : SetStat(w, c)
           \/ MarkDirty(w)
    \/ Flush
    \/ \E n \in NodeReaders : NodeStep(n)
    \/ LoseRedis
    \/ Crash
    \/ EarlyStat
    \/ \E c \in Characters : Expire(c)

Spec == Init /\ [][Next]_vars

\* main goes on, a worker finishes the call it is in, and the threads run.
Fairness ==
    /\ WF_vars(Main)
    /\ WF_vars(Flush)
    /\ \A w \in Workers : WF_vars(MarkDirty(w))
FairSpec == Spec /\ Fairness

-----------------------------------------------------------------------------
\* The types; the history variables among them.
TypeOK ==
    /\ cache \in [Characters -> Values]
    /\ dirty \subseteq Characters
    /\ mysql \in [Characters -> Versions]
    /\ setting \in [Workers -> Characters \cup {NoOne}]
    /\ context \in {"null", "up", "lost"}
    /\ running \in BOOLEAN
    /\ flusher \in {"off", "test", "wait", "clear", "flush", "update", "ended"}
    /\ pending \subseteq Characters
    /\ fetched \in [character : Characters \cup {NoOne}, version : Versions]
    /\ request \in [NodeReaders -> [at : {"idle", "select", "fill"},
                                    character : Characters \cup {NoOne},
                                    version : Versions]]
    /\ latest \in [Characters -> Versions]
    /\ lost \subseteq Rows
    /\ misread \subseteq Rows
    /\ crashes \in 0 .. MaxCrashes

\* A stat Redis accepted and MySQL lacks is on its way - its character is being
\* marked, is marked, is popped, or the stat is about to be written - unless a
\* fault or the JSON of the node server cost it (OnCharacterStat: "MySQL is
\* updated by SyncWorker").  No interleaving alone loses one, and no stop or
\* restart loses one that was marked.
NoLostUpdate == Stranded \subseteq lost \cup misread

\* What OnCharacterStat's comment promises: only a fault of MySQL, Redis or the
\* process keeps a stat from its way.
OnlyFaultsLose == Stranded \subseteq lost

\* Every accepted stat, or a newer one, reaches MySQL, marks from before a crash
\* included; unless a fault or the JSON cost it, or the process ends up without
\* Redis or without SyncWorker.
StatReachesMySQL ==
    \/ <>[](context = "lost" \/ flusher = "ended")
    \/ \A c \in Rows : \A v \in 1 .. MaxWrites :
           latest[c] >= v ~> mysql[c] >= v \/ c \in lost \cup misread

\* Stop's join ends: the thread sees m_isRunning fall wherever it is, the wait
\* between its test and its notification included.
StopReturns == flusher # "off" /\ ~running ~> flusher \in {"ended", "off"}

\* The detailed path implements the promise, with MySQL as the database: what
\* is written is newer than what was there, whatever fails and whatever the
\* node server puts in the cache.
Promise == INSTANCE WriteBehind WITH stored <- mysql
KeepsPromise == Promise!Spec
=============================================================================
