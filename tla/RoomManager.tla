---------------------------- MODULE RoomManager ----------------------------
(***************************************************************************)
(* Rooms of the game server: Room.cpp, RoomManager.cpp and the two packet  *)
(* handlers that use them (PacketHandler::OnEnterRoom, OnLeaveRoom).       *)
(*                                                                         *)
(* A process is a session.  A session has one WSARecv outstanding, posted  *)
(* again only after its packets were handled, so the packets of a session  *)
(* are handled one after another; IOCP workers run the handlers of         *)
(* different sessions concurrently.  Every region the code runs under      *)
(* RoomManager::m_lock or Room::m_lock is one step; between two regions    *)
(* the handlers of the other sessions may run.                             *)
(*                                                                         *)
(* A Room is an object behind shared_ptr: it lives while m_rooms or a      *)
(* handler's local refers to it, and its members go with it.               *)
(***************************************************************************)
EXTENDS Naturals, FiniteSets

CONSTANTS
    Sessions,     \* connected sessions, named by Session::GetId
    IdSpace,      \* number of room ids; the code's uint32_t has 2^32
    MapIds,       \* map ids the clients send
    Refs,         \* addresses of Room objects
    MAX_PLAYERS,  \* Room::MAX_PLAYERS
    NoRef,        \* the null shared_ptr
    NoMap         \* a client that asked for no map

RoomIds == 0 .. IdSpace - 1

ASSUME ConstantsAssumption ==
    /\ IdSpace \in Nat \ {0}
    /\ MapIds \subseteq RoomIds
    /\ MAX_PLAYERS \in Nat \ {0}
    /\ NoRef \notin Refs
    /\ NoMap \notin MapIds
    /\ IsFiniteSet(Sessions)

VARIABLES
    rooms,      \* m_rooms: the registered room of each id, or NoRef
    allocator,  \* m_roomIdAllocator
    object,     \* the Room at each address: its m_roomId and its m_sessions
    pc,         \* where the handler of each session is
    held,       \* the handler's local shared_ptr<Room>
    mapId       \* packet->map_id of the ENTER being handled

vars == <<rooms, allocator, object, pc, held, mapId>>

Labels == {"idle", "unique", "enter", "create", "enterNew",
           "leave", "count", "destroy", "return"}

-----------------------------------------------------------------------------
(* Mistakes the properties are tried against, each in place of the         *)
(* definition named.                                                       *)

\* IsFull: one player too many
FullAfterOneMore(members) == Cardinality(members) > MAX_PLAYERS
\* IsVacant: the session that just left is counted
VacantWithOneLeft(members) == Cardinality(members) = 1
\* NextId: the counter is wider than the id
NextIdUnbounded(id) == id + 1
\* NewRoom: the Room is given the id after the one it is registered under
NewRoomOfNextId(id) == [id |-> (id + 1) % IdSpace, players |-> {}]
\* FoundOnRecheck: no second look under the unique lock
NoRecheck(s) == FALSE

-----------------------------------------------------------------------------
(* What the source computes.                                               *)

IsFull(members)     == Cardinality(members) >= MAX_PLAYERS
IsVacant(members)   == members = {}
Without(members, s) == members \ {s}
NextId(id)          == (id + 1) % IdSpace
Found(m)            == rooms[m]

NewRoom(id)         == [id |-> id, players |-> {}]
Room                == [id : RoomIds, players : SUBSET Sessions]

\* Rooms some shared_ptr refers to; the others are gone with their members
\* when their last reference is.
Live == { r \in Refs : \/ \E i \in RoomIds : rooms[i] = r
                      \/ \E s \in Sessions : held[s] = r }
Reclaimed(objects) ==
    [r \in Refs |-> IF r \in Live' THEN objects[r] ELSE NewRoom(0)]

Goto(s, label) == pc' = [pc EXCEPT ![s] = label]
Hold(s, r)     == held' = [held EXCEPT ![s] = r]

\* make_shared<Room>(id), registered under id and held by the handler of s.
MakeRoom(s, id) ==
    \E r \in Refs \ Live :
        /\ rooms' = [rooms EXCEPT ![id] = r]
        /\ Hold(s, r)
        /\ object' = Reclaimed([object EXCEPT ![r] = NewRoom(id)])

-----------------------------------------------------------------------------
Init ==
    /\ rooms = [i \in RoomIds |-> NoRef]
    /\ allocator = 0
    /\ object = [r \in Refs |-> NewRoom(0)]
    /\ pc = [s \in Sessions |-> "idle"]
    /\ held = [s \in Sessions |-> NoRef]
    /\ mapId = [s \in Sessions |-> NoMap]

(* OnEnterRoom *)

\* PKT_EnterRoom arrives; GetOrCreateRoom looks under the shared lock.
RecvEnter(s, m) ==
    /\ pc[s] = "idle"
    /\ mapId' = [mapId EXCEPT ![s] = m]
    /\ Hold(s, Found(m))
    /\ Goto(s, IF Found(m) = NoRef THEN "unique" ELSE "enter")
    /\ UNCHANGED <<rooms, allocator, object>>

\* GetOrCreateRoom under the unique lock: the second look finds the room
\* another handler registered in between ...
FoundOnRecheck(s) == rooms[mapId[s]] # NoRef

FindAgain(s) ==
    /\ pc[s] = "unique"
    /\ FoundOnRecheck(s)
    /\ Hold(s, rooms[mapId[s]])
    /\ Goto(s, "enter")
    /\ UNCHANGED <<rooms, allocator, object, mapId>>

\* ... or it creates the room of the map.
CreateMapRoom(s) ==
    /\ pc[s] = "unique"
    /\ ~FoundOnRecheck(s)
    /\ MakeRoom(s, mapId[s])
    /\ Goto(s, "enter")
    /\ UNCHANGED <<allocator, mapId>>

\* Room::Enter, called on the map's room and then on the overflow room.  The
\* handler ignores the answer of the second call.
Enter(s) ==
    /\ pc[s] \in {"enter", "enterNew"}
    /\ ~IsFull(object[held[s]].players)
    /\ object' = [object EXCEPT ![held[s]].players = @ \cup {s}]
    /\ Goto(s, "return")
    /\ UNCHANGED <<rooms, allocator, held, mapId>>

EnterRefused(s) ==
    /\ pc[s] \in {"enter", "enterNew"}
    /\ IsFull(object[held[s]].players)
    /\ Goto(s, IF pc[s] = "enter" THEN "create" ELSE "return")
    /\ UNCHANGED <<rooms, allocator, object, held, mapId>>

\* CreateRoom: takes the next id and overwrites whatever m_rooms has there.
CreateRoom(s) ==
    /\ pc[s] = "create"
    /\ MakeRoom(s, allocator)
    /\ allocator' = NextId(allocator)
    /\ Goto(s, "enterNew")
    /\ UNCHANGED mapId

(* OnLeaveRoom *)

\* PKT_LeaveRoom arrives; GetRoom, and the early return when there is none.
RecvLeave(s, m) ==
    /\ pc[s] = "idle"
    /\ Hold(s, Found(m))
    /\ Goto(s, IF Found(m) = NoRef THEN "idle" ELSE "leave")
    /\ UNCHANGED <<rooms, allocator, object, mapId>>

Leave(s) ==
    /\ pc[s] = "leave"
    /\ object' = [object EXCEPT ![held[s]].players = Without(@, s)]
    /\ Goto(s, "count")
    /\ UNCHANGED <<rooms, allocator, held, mapId>>

\* GetPlayerCount() == 0
CountPlayers(s) ==
    /\ pc[s] = "count"
    /\ Goto(s, IF IsVacant(object[held[s]].players) THEN "destroy" ELSE "return")
    /\ UNCHANGED <<rooms, allocator, object, held, mapId>>

\* DestroyRoom(room->GetRoomId()) erases by id.
DestroyRoom(s) ==
    /\ pc[s] = "destroy"
    /\ rooms' = [rooms EXCEPT ![object[held[s]].id] = NoRef]
    /\ Goto(s, "return")
    /\ UNCHANGED <<allocator, held, mapId>>
    /\ object' = Reclaimed(object)

\* The handler returns; its shared_ptr and the packet go out of scope.
Return(s) ==
    /\ pc[s] = "return"
    /\ Hold(s, NoRef)
    /\ Goto(s, "idle")
    /\ mapId' = [mapId EXCEPT ![s] = NoMap]
    /\ UNCHANGED <<rooms, allocator>>
    /\ object' = Reclaimed(object)

-----------------------------------------------------------------------------
Handle(s) ==
    \/ FindAgain(s)
    \/ CreateMapRoom(s)
    \/ Enter(s)
    \/ EnterRefused(s)
    \/ CreateRoom(s)
    \/ Leave(s)
    \/ CountPlayers(s)
    \/ DestroyRoom(s)
    \/ Return(s)

\* Clients may send the two packets in any order, for any map.
Next ==
    \E s \in Sessions :
        \/ Handle(s)
        \/ \E m \in MapIds : RecvEnter(s, m) \/ RecvLeave(s, m)

Spec == Init /\ [][Next]_vars

-----------------------------------------------------------------------------
Registered == { rooms[i] : i \in RoomIds } \ {NoRef}
Idle(s) == pc[s] = "idle"

\* The types.
TypeOK ==
    /\ rooms \in [RoomIds -> Refs \cup {NoRef}]
    /\ allocator \in RoomIds
    /\ object \in [Refs -> Room]
    /\ pc \in [Sessions -> Labels]
    /\ held \in [Sessions -> Refs \cup {NoRef}]
    /\ mapId \in [Sessions -> MapIds \cup {NoMap}]

\* No interleaving of the handlers puts more than MAX_PLAYERS sessions in a
\* Room object, registered or not.
Capacity == \A r \in Refs : Cardinality(object[r].players) <= MAX_PLAYERS

\* A registered room answers to the id it is registered under, so that
\* DestroyRoom(room->GetRoomId()) cannot erase another map's entry.
KeyMatchesRoom ==
    \A i \in RoomIds : rooms[i] # NoRef => object[rooms[i]].id = i

\* Between handlers no empty room is registered: however the counts and the
\* entries interleave, the last session out destroys the room.
NoEmptyRoomLeak ==
    (\A s \in Sessions : Idle(s)) => \A r \in Registered : object[r].players # {}

\* Only the overflow branch (CreateRoom) replaces a registered room by another
\* one: two concurrent ENTERs never create two rooms of a map.
GetOrCreateKeepsRoom ==
    [][ \A i \in RoomIds :
            rooms[i] # NoRef /\ rooms'[i] \notin {rooms[i], NoRef}
                => \E s \in Sessions : pc[s] = "create" /\ pc'[s] = "enterNew"
      ]_vars
=============================================================================
