------------------------------ MODULE LoadTest ------------------------------
(***************************************************************************)
(* The dummy client (dummy_client/main.cpp, DummyClient.cpp) against the   *)
(* rooms: its worker threads connect their slices of the clients, wait for *)
(* each other at a latch, play one client after the other and close the    *)
(* sockets at their end; the server handles the packets of each session in *)
(* order and removes the session when its connection has ended.            *)
(*                                                                         *)
(* A session is named by its client.  The rooms are RoomManager's; the     *)
(* other packets of the scenario go to handlers that leave rooms alone.    *)
(***************************************************************************)
EXTENDS RoomManager, Sequences

CONSTANTS
    WORKER_THREADS,  \* of the dummy client
    SCENARIO_LOOPS,  \* CHARACTER_STAT_INFO packets between ENTER and LEAVE
    MAPS             \* the dummy client's 20 maps

TARGET_CONNECTIONS == Cardinality(Sessions)
Threads  == 0 .. WORKER_THREADS - 1
MapOf(c) == (c % MAPS) + 1

ASSUME LoadAssumption ==
    /\ WORKER_THREADS \in Nat \ {0}
    /\ SCENARIO_LOOPS \in Nat
    /\ MAPS \in Nat \ {0}
    /\ Sessions = 0 .. TARGET_CONNECTIONS - 1
    /\ \A c \in Sessions : MapOf(c) \in MapIds

VARIABLES
    at,          \* where each thread of the dummy client is
    turn,        \* the client it is at
    latch,       \* g_connectLatch
    socket,      \* each client's socket
    sent,        \* packets sent by each client
    handled,     \* packets of each session taken by the server
    registered   \* SessionManager::m_sessions

clientVars == <<at, turn, latch, socket, sent>>
serverVars == <<handled, registered>>
loadVars   == <<vars, clientVars, serverVars>>

-----------------------------------------------------------------------------
(* Mistakes the properties are tried against, each in place of the         *)
(* definition named.                                                       *)

\* ConnectOrder: the client is counted before its connect was tried
CountThenConnect == <<"count", "connect">>
\* Drained: the end of the connection overtakes the packets before it
NotDrained(c) == TRUE

-----------------------------------------------------------------------------
(* What the source computes.                                               *)

Slice      == TARGET_CONNECTIONS \div WORKER_THREADS
StartId(t) == t * Slice
EndId(t)   == IF t = WORKER_THREADS - 1 THEN TARGET_CONNECTIONS ELSE StartId(t) + Slice

\* What a thread does for each client in the first phase.
ConnectOrder == <<"connect", "count">>

\* The packets of a client.  A dropped item adds two between ENTER and LEAVE,
\* for handlers that leave rooms alone.
Scenario ==
    <<"CHARACTER_INFO", "CHARACTER_STAT_INFO", "ENTER_ROOM">>
        \o [i \in 1 .. SCENARIO_LOOPS |-> "CHARACTER_STAT_INFO"]
        \o <<"LEAVE_ROOM">>

\* The next client to play: the vector holds those whose connect succeeded.
NextClient(t, from) ==
    LET left == { c \in from .. EndId(t) - 1 : socket[c] = "open" }
    IN IF left = {} THEN EndId(t) ELSE CHOOSE c \in left : \A d \in left : c <= d

\* TCP delivers in order: the 0 bytes come after every packet.
Drained(c) == handled[c] = sent[c]

-----------------------------------------------------------------------------
LoadInit ==
    /\ Init
    /\ at = [t \in Threads |-> IF StartId(t) = EndId(t) THEN "wait" ELSE ConnectOrder[1]]
    /\ turn = [t \in Threads |-> StartId(t)]
    /\ latch = TARGET_CONNECTIONS
    /\ socket = [c \in Sessions |-> "none"]
    /\ sent = [c \in Sessions |-> 0]
    /\ handled = [c \in Sessions |-> 0]
    /\ registered = {}

(* WorkerThread, first phase *)

\* On to the second step for this client, to the next client or to the latch.
NextConnect(t) ==
    LET more == turn[t] + 1 < EndId(t)
    IN IF at[t] = ConnectOrder[1]
       THEN /\ at' = [at EXCEPT ![t] = ConnectOrder[2]]
            /\ UNCHANGED turn
       ELSE /\ at' = [at EXCEPT ![t] = IF more THEN ConnectOrder[1] ELSE "wait"]
            /\ turn' = [turn EXCEPT ![t] = @ + 1]

\* Connect; the server accepts the connection (SessionLifecycle).
Connect(t) ==
    /\ at[t] = "connect"
    /\ \/ /\ socket' = [socket EXCEPT ![turn[t]] = "open"]
          /\ registered' = registered \cup {turn[t]}
       \/ /\ socket' = [socket EXCEPT ![turn[t]] = "failed"]
          /\ UNCHANGED registered
    /\ NextConnect(t)
    /\ UNCHANGED <<vars, latch, sent, handled>>

\* g_connectLatch.count_down()
CountDown(t) ==
    /\ at[t] = "count"
    /\ latch' = latch - 1
    /\ NextConnect(t)
    /\ UNCHANGED <<vars, socket, sent, serverVars>>

\* g_connectLatch.wait()
PassLatch(t) ==
    /\ at[t] = "wait"
    /\ latch = 0
    /\ at' = [at EXCEPT ![t] = "play"]
    /\ turn' = [turn EXCEPT ![t] = NextClient(t, StartId(t))]
    /\ UNCHANGED <<vars, latch, socket, sent, serverVars>>

(* WorkerThread, second phase *)

SendPacket(t) ==
    LET c == turn[t] IN
    /\ at[t] = "play"
    /\ c < EndId(t)
    /\ sent' = [sent EXCEPT ![c] = @ + 1]
    /\ turn' = IF sent'[c] = Len(Scenario)
               THEN [turn EXCEPT ![t] = NextClient(t, c + 1)]
               ELSE turn
    /\ UNCHANGED <<vars, at, latch, socket, serverVars>>

\* send fails: the rest of the scenario is left out, LEAVE included.  The
\* socket stays open.
SendFails(t) ==
    LET c == turn[t] IN
    /\ at[t] = "play"
    /\ c < EndId(t)
    /\ turn' = [turn EXCEPT ![t] = NextClient(t, c + 1)]
    /\ UNCHANGED <<vars, at, latch, socket, sent, serverVars>>

\* The vector goes out of scope: ~DummyClient closes each socket.
CloseAll(t) ==
    /\ at[t] = "play"
    /\ turn[t] = EndId(t)
    /\ at' = [at EXCEPT ![t] = "ended"]
    /\ socket' = [c \in Sessions |->
                     IF c \in StartId(t) .. EndId(t) - 1 /\ socket[c] = "open"
                     THEN "closed" ELSE socket[c]]
    /\ UNCHANGED <<vars, turn, latch, sent, serverVars>>

(* The server *)

\* The session's next packet, and what PacketHandler::Handle calls for it.
TakePacket(c) ==
    /\ Idle(c)
    /\ c \in registered
    /\ handled[c] < sent[c]
    /\ handled' = [handled EXCEPT ![c] = @ + 1]
    /\ LET packet == Scenario[handled[c] + 1] IN
       \/ packet = "ENTER_ROOM" /\ RecvEnter(c, MapOf(c))
       \/ packet = "LEAVE_ROOM" /\ RecvLeave(c, MapOf(c))
       \/ packet \notin {"ENTER_ROOM", "LEAVE_ROOM"} /\ UNCHANGED vars
    /\ UNCHANGED <<clientVars, registered>>

\* The rest of OnEnterRoom and OnLeaveRoom.
HandleRest(c) == Handle(c) /\ UNCHANGED <<clientVars, serverVars>>

\* 0 bytes: RemoveSession.  No room is told.
RemoveSession(c) ==
    /\ Idle(c)
    /\ c \in registered
    /\ socket[c] = "closed"
    /\ Drained(c)
    /\ registered' = registered \ {c}
    /\ UNCHANGED <<vars, clientVars, handled>>

-----------------------------------------------------------------------------
LoadNext ==
    \/ \E t \in Threads :
           \/ Connect(t)
           \/ CountDown(t)
           \/ PassLatch(t)
           \/ SendPacket(t)
           \/ SendFails(t)
           \/ CloseAll(t)
    \/ \E c \in Sessions : TakePacket(c) \/ HandleRest(c) \/ RemoveSession(c)

LoadSpec == LoadInit /\ [][LoadNext]_loadVars

-----------------------------------------------------------------------------
\* The latch is a barrier between the phases, however the clients are divided
\* among the threads (README.md:104): no client plays before the connect of
\* every client has been tried, and when all threads are at the latch it is
\* open, each client having been counted by one of them and once.
LatchIsABarrier ==
    /\ (\E c \in Sessions : sent[c] > 0) => \A c \in Sessions : socket[c] # "none"
    /\ (\A t \in Threads : at[t] = "wait") => latch = 0

\* RemoveSession tells no room, so a session can be gone and still hold a seat.
\* In the room of its map it does only if its LEAVE was never sent: a LEAVE that
\* was sent is handled before the end of the connection, and finds the room the
\* client is in unless that was an overflow room (Packethandler.cpp:143).
SeatsOfTheGone ==
    \A c \in Sessions :
        /\ socket[c] = "closed"
        /\ c \notin registered
        /\ rooms[MapOf(c)] # NoRef
        /\ c \in object[rooms[MapOf(c)]].players
        => sent[c] < Len(Scenario)

\* A client whose ENTER was handled and whose LEAVE was not taken is in a
\* registered room.
EnteredIsInRoom ==
    \A c \in Sessions :
        Idle(c) /\ handled[c] \in 3 .. Len(Scenario) - 1
            => \E r \in Registered : c \in object[r].players
=============================================================================
