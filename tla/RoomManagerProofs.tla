------------------------- MODULE RoomManagerProofs -------------------------
(***************************************************************************)
(* What RoomManager keeps for any number of sessions, maps, room ids and   *)
(* Room addresses, and any order of the clients' packets.                  *)
(***************************************************************************)
EXTENDS RoomManager, FiniteSetTheorems, TLAPS

\* A handler past its look-up holds a Room; before it, it holds none and
\* ENTER remembers the map it asks for.
HandlersHold ==
    \A s \in Sessions :
        /\ pc[s] = "unique" => mapId[s] \in MapIds
        /\ pc[s] \in {"idle", "unique"} => held[s] = NoRef
        /\ pc[s] \notin {"idle", "unique"} => held[s] \in Refs

\* Someone is about to enter, to count or to destroy each empty room that is
\* registered: why none is left behind.
EmptyIsAttended ==
    \A i \in RoomIds :
        rooms[i] # NoRef /\ object[rooms[i]].players = {}
            => \E s \in Sessions :
                  /\ held[s] = rooms[i]
                  /\ pc[s] \in {"enter", "enterNew", "count", "destroy"}

-----------------------------------------------------------------------------
\* Reclaiming dead rooms leaves every live one as it was and gives the dead
\* ones no member (shared_ptr's reference counts).
LEMMA ReclaimedType ==
    ASSUME NEW objects \in [Refs -> Room], ConstantsAssumption
    PROVE  /\ Reclaimed(objects) \in [Refs -> Room]
           /\ \A r \in Refs :
                 \/ Reclaimed(objects)[r] = objects[r]
                 \/ Reclaimed(objects)[r].players = {}
           /\ \A i \in RoomIds : rooms'[i] \in Refs
                 => Reclaimed(objects)[rooms'[i]] = objects[rooms'[i]]
  <1>1. NewRoom(0) \in Room
    BY DEF NewRoom, Room, RoomIds, ConstantsAssumption
  <1>2. NewRoom(0).players = {}
    BY DEF NewRoom
  <1>3. \A i \in RoomIds : rooms'[i] \in Refs => rooms'[i] \in Live'
    BY DEF Live
  <1> QED
    BY <1>1, <1>2, <1>3 DEF Reclaimed

\* The types, and what a handler holds, are inductive.
LEMMA TypeInductive ==
    /\ Init => TypeOK /\ HandlersHold
    /\ TypeOK /\ HandlersHold /\ [Next]_vars => (TypeOK /\ HandlersHold)'
  <1> USE ConstantsAssumption
  <1>1. Init => TypeOK /\ HandlersHold
    BY DEF Init, TypeOK, HandlersHold, RoomIds, Room, NewRoom, Labels
  <1>2. TypeOK /\ HandlersHold /\ [Next]_vars => (TypeOK /\ HandlersHold)'
    <2> SUFFICES ASSUME TypeOK, HandlersHold, [Next]_vars
                 PROVE  (TypeOK /\ HandlersHold)'
      OBVIOUS
    <2>1. ASSUME NEW s \in Sessions, NEW m \in MapIds, RecvEnter(s, m)
          PROVE  (TypeOK /\ HandlersHold)'
      BY <2>1 DEF RecvEnter, Hold, Goto, Found, TypeOK, HandlersHold, Labels,
                  ConstantsAssumption
    <2>2. ASSUME NEW s \in Sessions, NEW m \in MapIds, RecvLeave(s, m)
          PROVE  (TypeOK /\ HandlersHold)'
      BY <2>2 DEF RecvLeave, Hold, Goto, Found, TypeOK, HandlersHold, Labels,
                  ConstantsAssumption
    <2>3. ASSUME NEW s \in Sessions, FindAgain(s)
          PROVE  (TypeOK /\ HandlersHold)'
      BY <2>3 DEF FindAgain, FoundOnRecheck, Hold, Goto, TypeOK, HandlersHold,
                  Labels, ConstantsAssumption
    <2>4. ASSUME NEW s \in Sessions, NEW id \in RoomIds, MakeRoom(s, id)
          PROVE  /\ rooms' \in [RoomIds -> Refs \cup {NoRef}]
                 /\ object' \in [Refs -> Room]
                 /\ held' \in [Sessions -> Refs \cup {NoRef}]
                 /\ held'[s] \in Refs
                 /\ \A u \in Sessions \ {s} : held'[u] = held[u]
      <3>1. PICK r \in Refs \ Live :
                /\ rooms' = [rooms EXCEPT ![id] = r]
                /\ held' = [held EXCEPT ![s] = r]
                /\ object' = Reclaimed([object EXCEPT ![r] = NewRoom(id)])
        BY <2>4 DEF MakeRoom, Hold
      <3>2. [object EXCEPT ![r] = NewRoom(id)] \in [Refs -> Room]
        BY DEF TypeOK, NewRoom, Room
      <3>3. object' \in [Refs -> Room]
        BY <3>1, <3>2, ReclaimedType
      <3> QED
        BY <3>1, <3>3 DEF TypeOK
    <2>5. ASSUME NEW s \in Sessions, CreateMapRoom(s)
          PROVE  (TypeOK /\ HandlersHold)'
      <3>1. MakeRoom(s, mapId[s]) /\ mapId[s] \in RoomIds
        BY <2>5 DEF CreateMapRoom, HandlersHold, TypeOK, ConstantsAssumption
      <3> QED
        BY <2>4, <2>5, <3>1
        DEF CreateMapRoom, Goto, TypeOK, HandlersHold, Labels
    <2>6. ASSUME NEW s \in Sessions, CreateRoom(s)
          PROVE  (TypeOK /\ HandlersHold)'
      <3>1. MakeRoom(s, allocator) /\ allocator \in RoomIds
        BY <2>6 DEF CreateRoom, TypeOK
      <3>2. allocator' \in RoomIds
        BY <2>6, <3>1 DEF CreateRoom, NextId, RoomIds, ConstantsAssumption
      <3> QED
        BY <2>4, <2>6, <3>1, <3>2
        DEF CreateRoom, Goto, TypeOK, HandlersHold, Labels
    <2>7. ASSUME NEW s \in Sessions, Enter(s)
          PROVE  (TypeOK /\ HandlersHold)'
      <3>1. object' \in [Refs -> Room]
        <4> DEFINE members == object[held[s]].players \cup {s}
        <4>1. object' = [object EXCEPT ![held[s]].players = members]
          BY <2>7 DEF Enter
        <4>2. members \in SUBSET Sessions
          BY <2>7 DEF Enter, HandlersHold, TypeOK, Room
        <4>3. held[s] \in Refs /\ object[held[s]] \in Room
          BY <2>7 DEF Enter, HandlersHold, TypeOK
        <4> HIDE DEF members
        <4>4. [object[held[s]] EXCEPT !.players = members] \in Room
          BY <4>2, <4>3 DEF Room
        <4> QED
          BY <4>1, <4>3, <4>4 DEF TypeOK
      <3> QED
        BY <2>7, <3>1 DEF Enter, Goto, TypeOK, HandlersHold, Labels
    <2>8. ASSUME NEW s \in Sessions, EnterRefused(s)
          PROVE  (TypeOK /\ HandlersHold)'
      BY <2>8 DEF EnterRefused, Goto, TypeOK, HandlersHold, Labels
    <2>9. ASSUME NEW s \in Sessions, Leave(s)
          PROVE  (TypeOK /\ HandlersHold)'
      <3>1. object' \in [Refs -> Room]
        <4> DEFINE members == object[held[s]].players \ {s}
        <4>1. object' = [object EXCEPT ![held[s]].players = members]
          BY <2>9 DEF Leave, Without
        <4>2. members \in SUBSET Sessions
          BY <2>9 DEF Leave, HandlersHold, TypeOK, Room
        <4>3. held[s] \in Refs /\ object[held[s]] \in Room
          BY <2>9 DEF Leave, HandlersHold, TypeOK
        <4> HIDE DEF members
        <4>4. [object[held[s]] EXCEPT !.players = members] \in Room
          BY <4>2, <4>3 DEF Room
        <4> QED
          BY <4>1, <4>3, <4>4 DEF TypeOK
      <3> QED
        BY <2>9, <3>1 DEF Leave, Goto, TypeOK, HandlersHold, Labels
    <2>10. ASSUME NEW s \in Sessions, CountPlayers(s)
           PROVE  (TypeOK /\ HandlersHold)'
      BY <2>10 DEF CountPlayers, Goto, TypeOK, HandlersHold, Labels
    <2>11. ASSUME NEW s \in Sessions, DestroyRoom(s)
           PROVE  (TypeOK /\ HandlersHold)'
      <3>1. object' \in [Refs -> Room]
        BY <2>11, ReclaimedType DEF DestroyRoom, TypeOK
      <3> QED
        BY <2>11, <3>1 DEF DestroyRoom, Goto, TypeOK, HandlersHold, Labels
    <2>12. ASSUME NEW s \in Sessions, Return(s)
           PROVE  (TypeOK /\ HandlersHold)'
      <3>1. object' \in [Refs -> Room]
        BY <2>12, ReclaimedType DEF Return, TypeOK
      <3> QED
        BY <2>12, <3>1 DEF Return, Hold, Goto, TypeOK, HandlersHold, Labels
    <2>13. CASE UNCHANGED vars
      BY <2>13 DEF vars, TypeOK, HandlersHold
    <2> QED
      BY <2>1, <2>2, <2>3, <2>5, <2>6, <2>7, <2>8, <2>9, <2>10, <2>11, <2>12,
         <2>13 DEF Next, Handle
  <1> QED
    BY <1>1, <1>2

\* Both packets, in any order and interleaving, leave the types as they are.
THEOREM TypeCorrect == Spec => []TypeOK
  <1> QED
    BY TypeInductive, PTL DEF Spec

-----------------------------------------------------------------------------
\* A room made under the unique lock is registered under its own id, at an
\* address nothing else refers to, and starts without members; every other
\* registration and the rooms behind them are untouched.
LEMMA MakeRoomEffect ==
    ASSUME TypeOK, NEW s \in Sessions, NEW id \in RoomIds, MakeRoom(s, id)
    PROVE  /\ rooms'[id] \in Refs
           /\ rooms'[id] = held'[s]
           /\ object'[rooms'[id]] = NewRoom(id)
           /\ \A i \in RoomIds \ {id} :
                 /\ rooms'[i] = rooms[i]
                 /\ rooms[i] \in Refs => object'[rooms[i]] = object[rooms[i]]
           /\ \A u \in Sessions \ {s} : held'[u] = held[u]
           /\ \A r \in Refs : \/ object'[r].players = object[r].players
                             \/ object'[r].players = {}
  <1> USE ConstantsAssumption
  <1>1. PICK r \in Refs \ Live :
            /\ rooms' = [rooms EXCEPT ![id] = r]
            /\ held' = [held EXCEPT ![s] = r]
            /\ object' = Reclaimed([object EXCEPT ![r] = NewRoom(id)])
    BY DEF MakeRoom, Hold
  <1> DEFINE made == [object EXCEPT ![r] = NewRoom(id)]
  <1>2. made \in [Refs -> Room]
    BY DEF TypeOK, NewRoom, Room
  <1>3. /\ \A q \in Refs : object'[q] = made[q] \/ object'[q].players = {}
        /\ \A i \in RoomIds : rooms'[i] \in Refs
              => object'[rooms'[i]] = made[rooms'[i]]
    <2> HIDE DEF made
    <2>1. object' = Reclaimed(made)
      BY <1>1 DEF made
    <2> QED
      BY <1>2, <2>1, ReclaimedType
  <1>4. rooms'[id] = r /\ held'[s] = r /\ made[r] = NewRoom(id)
    BY <1>1 DEF TypeOK
  <1>5. ASSUME NEW i \in RoomIds \ {id}
        PROVE  /\ rooms'[i] = rooms[i]
               /\ rooms[i] \in Refs => object'[rooms[i]] = object[rooms[i]]
    <2>1. rooms'[i] = rooms[i] /\ rooms[i] # r
      BY <1>1 DEF TypeOK, Live
    <2> QED
      BY <1>3, <2>1 DEF TypeOK
  <1>6. \A q \in Refs : made[q].players = object[q].players \/ made[q].players = {}
    BY DEF NewRoom, TypeOK
  <1>7. \A u \in Sessions \ {s} : held'[u] = held[u]
    BY <1>1 DEF TypeOK
  <1> HIDE DEF made
  <1>8. object'[rooms'[id]] = NewRoom(id)
    BY <1>3, <1>4
  <1>9. \A q \in Refs : \/ object'[q].players = object[q].players
                      \/ object'[q].players = {}
    BY <1>3, <1>6
  <1> QED
    BY <1>4, <1>5, <1>7, <1>8, <1>9

-----------------------------------------------------------------------------
\* A registered room answers to the id it is registered under: DestroyRoom,
\* which erases by id, erases the room its caller counted.
THEOREM KeysMatch == Spec => []KeyMatchesRoom
  <1> USE ConstantsAssumption
  <1>1. Init => KeyMatchesRoom
    BY DEF Init, KeyMatchesRoom
  <1>2. TypeOK /\ HandlersHold /\ KeyMatchesRoom /\ [Next]_vars => KeyMatchesRoom'
    <2> SUFFICES ASSUME TypeOK, HandlersHold, KeyMatchesRoom, [Next]_vars
                 PROVE  KeyMatchesRoom'
      OBVIOUS
    <2>1. ASSUME NEW s \in Sessions, NEW id \in RoomIds, MakeRoom(s, id)
          PROVE  KeyMatchesRoom'
      <3>1. object'[rooms'[id]] = NewRoom(id)
        BY <2>1, MakeRoomEffect
      <3>2. \A i \in RoomIds \ {id} :
                rooms'[i] # NoRef => object'[rooms'[i]].id = i
        BY <2>1, MakeRoomEffect DEF KeyMatchesRoom, TypeOK
      <3> QED
        BY <3>1, <3>2 DEF KeyMatchesRoom, NewRoom
    <2>2. ASSUME NEW s \in Sessions, CreateMapRoom(s)
          PROVE  KeyMatchesRoom'
      BY <2>1, <2>2 DEF CreateMapRoom, HandlersHold, ConstantsAssumption
    <2>3. ASSUME NEW s \in Sessions, CreateRoom(s)
          PROVE  KeyMatchesRoom'
      BY <2>1, <2>3 DEF CreateRoom, TypeOK
    <2>4. ASSUME NEW s \in Sessions, Enter(s) \/ Leave(s)
          PROVE  KeyMatchesRoom'
      BY <2>4 DEF Enter, Leave, KeyMatchesRoom, TypeOK, Room
    <2>5. ASSUME NEW s \in Sessions, DestroyRoom(s)
          PROVE  KeyMatchesRoom'
      <3>1. \A i \in RoomIds : rooms'[i] \in {rooms[i], NoRef}
        BY <2>5 DEF DestroyRoom, TypeOK
      <3>2. \A i \in RoomIds : rooms'[i] \in Refs
                => object'[rooms'[i]] = object[rooms'[i]]
        BY <2>5, ReclaimedType DEF DestroyRoom, TypeOK
      <3> QED
        BY <3>1, <3>2 DEF KeyMatchesRoom, TypeOK
    <2>6. ASSUME NEW s \in Sessions, Return(s)
          PROVE  KeyMatchesRoom'
      <3>1. \A i \in RoomIds : rooms'[i] \in Refs
                => object'[rooms'[i]] = object[rooms'[i]]
        BY <2>6, ReclaimedType DEF Return, TypeOK
      <3> QED
        BY <2>6, <3>1 DEF Return, KeyMatchesRoom, TypeOK
    <2>7. ASSUME UNCHANGED <<rooms, object>>
          PROVE  KeyMatchesRoom'
      BY <2>7 DEF KeyMatchesRoom
    <2> QED
      BY <2>2, <2>3, <2>4, <2>5, <2>6, <2>7
      DEF Next, Handle, RecvEnter, RecvLeave, FindAgain, EnterRefused,
          CountPlayers, vars
  <1> QED
    BY <1>1, <1>2, TypeInductive, PTL DEF Spec

-----------------------------------------------------------------------------
\* Check and insertion are one region under Room::m_lock: no Room object ever
\* holds more than MAX_PLAYERS sessions.
THEOREM CapacityHeld == Spec => []Capacity
  <1> USE ConstantsAssumption
  <1>1. Init => Capacity
    <2>1. Cardinality({}) = 0
      BY FS_EmptySet
    <2>2. Init => \A r \in Refs : object[r].players = {}
      BY DEF Init, NewRoom
    <2> QED
      BY <2>1, <2>2 DEF Capacity, ConstantsAssumption
  <1>2. TypeOK /\ HandlersHold /\ Capacity /\ [Next]_vars => Capacity'
    <2> SUFFICES ASSUME TypeOK, HandlersHold, Capacity, [Next]_vars
                 PROVE  Capacity'
      OBVIOUS
    <2>1. \A r \in Refs : /\ object[r].players \subseteq Sessions
                         /\ IsFiniteSet(object[r].players)
                         /\ Cardinality(object[r].players) \in Nat
      BY FS_Subset, FS_CardinalityType DEF TypeOK, Room, ConstantsAssumption
    <2>2. ASSUME \A r \in Refs : \/ object'[r].players \subseteq object[r].players
                               \/ object'[r].players = {}
          PROVE  Capacity'
      <3> SUFFICES ASSUME NEW r \in Refs
                   PROVE  Cardinality(object'[r].players) <= MAX_PLAYERS
        BY DEF Capacity
      <3>1. object'[r].players \subseteq object[r].players
        BY <2>2
      <3>2. /\ Cardinality(object'[r].players) \in Nat
            /\ Cardinality(object'[r].players) <= Cardinality(object[r].players)
        BY <2>1, <3>1, FS_Subset, FS_CardinalityType
      <3> QED
        BY <2>1, <3>2 DEF Capacity, ConstantsAssumption
    <2>3. ASSUME NEW s \in Sessions, Enter(s)
          PROVE  Capacity'
      <3>1. held[s] \in Refs
        BY <2>3 DEF Enter, HandlersHold
      <3>2. \A r \in Refs \ {held[s]} : object'[r] = object[r]
        BY <2>3 DEF Enter, TypeOK
      <3>3. object'[held[s]].players = object[held[s]].players \cup {s}
        BY <2>3, <3>1 DEF Enter, TypeOK, Room
      <3>4. Cardinality(object[held[s]].players) < MAX_PLAYERS
        BY <2>1, <2>3, <3>1 DEF Enter, IsFull, ConstantsAssumption
      <3> DEFINE members == object[held[s]].players
      <3>5. Cardinality(members \cup {s}) <= MAX_PLAYERS
        <4>1. IsFiniteSet(members) /\ Cardinality(members) \in Nat
          BY <2>1, <3>1
        <4>2. Cardinality(members) < MAX_PLAYERS
          BY <3>4
        <4>3. Cardinality(members \cup {s})
                \in {Cardinality(members), Cardinality(members) + 1}
          BY <4>1, FS_AddElement
        <4> QED
          BY <4>1, <4>2, <4>3 DEF ConstantsAssumption
      <3> QED
        BY <3>2, <3>3, <3>5 DEF Capacity
    <2>4. ASSUME NEW s \in Sessions, CreateMapRoom(s) \/ CreateRoom(s)
          PROVE  Capacity'
      BY <2>2, <2>4, MakeRoomEffect
      DEF CreateMapRoom, CreateRoom, HandlersHold, TypeOK, ConstantsAssumption
    <2>5. ASSUME NEW s \in Sessions, Leave(s)
          PROVE  Capacity'
      BY <2>2, <2>5 DEF Leave, Without, TypeOK, Room
    <2>6. ASSUME NEW s \in Sessions, DestroyRoom(s) \/ Return(s)
          PROVE  Capacity'
      BY <2>2, <2>6, ReclaimedType DEF DestroyRoom, Return, TypeOK
    <2>7. ASSUME UNCHANGED object
          PROVE  Capacity'
      BY <2>2, <2>7
    <2> QED
      BY <2>3, <2>4, <2>5, <2>6, <2>7
      DEF Next, Handle, RecvEnter, RecvLeave, FindAgain, EnterRefused,
          CountPlayers, vars
  <1> QED
    BY <1>1, <1>2, TypeInductive, PTL DEF Spec

-----------------------------------------------------------------------------
\* A set of sessions that is full has a member, so an ENTER refused by a full
\* room does not leave an empty one behind.
LEMMA FullIsNotEmpty ==
    ASSUME NEW members, IsFull(members), ConstantsAssumption
    PROVE  members # {}
  <1>1. Cardinality({}) = 0
    BY FS_EmptySet
  <1> QED
    BY <1>1 DEF IsFull, ConstantsAssumption

\* Once every handler has returned no registered room is empty: between the
\* last Leave and the erasure someone always attends to the empty room.
THEOREM NoLeak == Spec => []NoEmptyRoomLeak
  <1> USE ConstantsAssumption
  <1> DEFINE Attending == {"enter", "enterNew", "count", "destroy"}
  <1>1. Init => EmptyIsAttended
    BY DEF Init, EmptyIsAttended
  <1>2. TypeOK /\ HandlersHold /\ KeyMatchesRoom /\ EmptyIsAttended /\ [Next]_vars
            => EmptyIsAttended'
    <2> SUFFICES ASSUME TypeOK, HandlersHold, KeyMatchesRoom, EmptyIsAttended,
                        [Next]_vars
                 PROVE  EmptyIsAttended'
      OBVIOUS
    <2>1. ASSUME \A i \in RoomIds : rooms'[i] \in {rooms[i], NoRef},
                 \A i \in RoomIds : rooms'[i] \in Refs
                    => object'[rooms'[i]].players = object[rooms'[i]].players,
                 \A s \in Sessions : pc[s] \in Attending /\ held[s] \in Refs
                    => \/ pc'[s] \in Attending /\ held'[s] = held[s]
                       \/ object[held[s]].players # {}
                       \/ \A i \in RoomIds : rooms'[i] # held[s]
          PROVE  EmptyIsAttended'
      BY <2>1 DEF EmptyIsAttended, TypeOK
    <2>2. ASSUME NEW s \in Sessions, NEW m \in MapIds,
                 RecvEnter(s, m) \/ RecvLeave(s, m)
          PROVE  EmptyIsAttended'
      BY <2>1, <2>2 DEF RecvEnter, RecvLeave, Hold, Goto, TypeOK
    <2>3. ASSUME NEW s \in Sessions, FindAgain(s)
          PROVE  EmptyIsAttended'
      BY <2>1, <2>3 DEF FindAgain, Hold, Goto, TypeOK
    <2>4. ASSUME NEW s \in Sessions, NEW id \in RoomIds, MakeRoom(s, id),
                 pc'[s] \in Attending, pc[s] \notin Attending,
                 \A u \in Sessions \ {s} : pc'[u] = pc[u]
          PROVE  EmptyIsAttended'
      <3>1. \A i \in RoomIds \ {id} :
                /\ rooms'[i] = rooms[i]
                /\ rooms[i] \in Refs => object'[rooms[i]] = object[rooms[i]]
        BY <2>4, MakeRoomEffect
      <3>2. /\ rooms'[id] = held'[s]
            /\ \A u \in Sessions \ {s} : held'[u] = held[u]
        BY <2>4, MakeRoomEffect
      <3> QED
        BY <2>4, <3>1, <3>2 DEF EmptyIsAttended, TypeOK
    <2>5. ASSUME NEW s \in Sessions, CreateMapRoom(s)
          PROVE  EmptyIsAttended'
      BY <2>4, <2>5 DEF CreateMapRoom, Goto, HandlersHold, TypeOK,
                        ConstantsAssumption
    <2>6. ASSUME NEW s \in Sessions, CreateRoom(s)
          PROVE  EmptyIsAttended'
      BY <2>4, <2>6 DEF CreateRoom, Goto, TypeOK
    <2>7. ASSUME NEW s \in Sessions, Enter(s)
          PROVE  EmptyIsAttended'
      <3>1. held[s] \in Refs
        BY <2>7 DEF Enter, HandlersHold
      <3>2. /\ object'[held[s]].players # {}
            /\ \A r \in Refs \ {held[s]} : object'[r] = object[r]
        BY <2>7, <3>1 DEF Enter, TypeOK, Room
      <3>3. /\ rooms' = rooms /\ held' = held
            /\ \A u \in Sessions \ {s} : pc'[u] = pc[u]
        BY <2>7 DEF Enter, Goto, TypeOK
      <3> QED
        BY <3>1, <3>2, <3>3 DEF EmptyIsAttended, TypeOK
    <2>8. ASSUME NEW s \in Sessions, EnterRefused(s)
          PROVE  EmptyIsAttended'
      <3>1. object[held[s]].players # {}
        BY <2>8, FullIsNotEmpty DEF EnterRefused
      <3> QED
        BY <2>1, <2>8, <3>1 DEF EnterRefused, Goto, TypeOK
    <2>9. ASSUME NEW s \in Sessions, Leave(s)
          PROVE  EmptyIsAttended'
      <3>1. held[s] \in Refs /\ held'[s] = held[s] /\ pc'[s] = "count"
        BY <2>9 DEF Leave, Goto, HandlersHold, TypeOK
      <3>2. /\ \A r \in Refs \ {held[s]} : object'[r] = object[r]
            /\ \A u \in Sessions \ {s} : pc'[u] = pc[u]
        BY <2>9 DEF Leave, Goto, TypeOK
      <3> QED
        BY <2>9, <3>1, <3>2 DEF Leave, EmptyIsAttended, TypeOK
    <2>10. ASSUME NEW s \in Sessions, CountPlayers(s)
           PROVE  EmptyIsAttended'
      BY <2>1, <2>10 DEF CountPlayers, IsVacant, Goto, TypeOK
    <2>11. ASSUME NEW s \in Sessions, DestroyRoom(s)
           PROVE  EmptyIsAttended'
      <3>1. \A i \in RoomIds : rooms'[i] \in {rooms[i], NoRef}
        BY <2>11 DEF DestroyRoom, TypeOK
      <3>2. \A i \in RoomIds : rooms'[i] \in Refs
                => object'[rooms'[i]] = object[rooms'[i]]
        BY <2>11, ReclaimedType DEF DestroyRoom, TypeOK
      <3>3. held[s] \in Refs
        BY <2>11 DEF DestroyRoom, HandlersHold
      <3>4. \A i \in RoomIds : rooms'[i] # held[s]
        BY <2>11, <3>3 DEF DestroyRoom, KeyMatchesRoom, TypeOK,
                           ConstantsAssumption
      <3>5. held' = held /\ \A u \in Sessions \ {s} : pc'[u] = pc[u]
        BY <2>11 DEF DestroyRoom, Goto, TypeOK
      <3> QED
        BY <2>1, <3>1, <3>2, <3>4, <3>5
    <2>12. ASSUME NEW s \in Sessions, Return(s)
           PROVE  EmptyIsAttended'
      <3>1. \A i \in RoomIds : rooms'[i] \in Refs
                => object'[rooms'[i]] = object[rooms'[i]]
        BY <2>12, ReclaimedType DEF Return, TypeOK
      <3> QED
        BY <2>1, <2>12, <3>1 DEF Return, Hold, Goto, TypeOK
    <2>13. CASE UNCHANGED vars
      BY <2>13 DEF vars, EmptyIsAttended
    <2> QED
      BY <2>2, <2>3, <2>5, <2>6, <2>7, <2>8, <2>9, <2>10, <2>11, <2>12, <2>13
      DEF Next, Handle
  <1>3. TypeOK /\ EmptyIsAttended => NoEmptyRoomLeak
    BY DEF EmptyIsAttended, NoEmptyRoomLeak, Registered, Idle
  <1> QED
    BY <1>1, <1>2, <1>3, TypeInductive, KeysMatch, PTL DEF Spec

-----------------------------------------------------------------------------
\* A registered room is replaced by another one in CreateRoom only, the
\* overflow branch: GetOrCreateRoom's second look sees every room that was
\* registered since its first.
THEOREM RoomsKept == Spec => GetOrCreateKeepsRoom
  <1> DEFINE Overflows == \E s \in Sessions : pc[s] = "create" /\ pc'[s] = "enterNew"
             Kept == \A i \in RoomIds :
                       rooms[i] # NoRef => rooms'[i] \in {rooms[i], NoRef}
  <1>1. TypeOK /\ [Next]_vars => Kept \/ Overflows
    <2> SUFFICES ASSUME TypeOK, [Next]_vars
                 PROVE  Kept \/ Overflows
      OBVIOUS
    <2>1. ASSUME NEW s \in Sessions, CreateMapRoom(s)
          PROVE  Kept
      <3>1. rooms[mapId[s]] = NoRef
        BY <2>1 DEF CreateMapRoom, FoundOnRecheck
      <3>2. \A i \in RoomIds : i # mapId[s] => rooms'[i] = rooms[i]
        BY <2>1 DEF CreateMapRoom, MakeRoom, TypeOK
      <3> QED
        BY <3>1, <3>2
    <2>2. ASSUME NEW s \in Sessions, CreateRoom(s)
          PROVE  Overflows
      BY <2>2 DEF CreateRoom, Goto, TypeOK
    <2>3. ASSUME NEW s \in Sessions, DestroyRoom(s)
          PROVE  Kept
      BY <2>3 DEF DestroyRoom, TypeOK
    <2>4. ASSUME NEW s \in Sessions, NEW m \in MapIds,
                 RecvEnter(s, m) \/ RecvLeave(s, m)
          PROVE  Kept
      BY <2>4 DEF RecvEnter, RecvLeave
    <2>5. ASSUME NEW s \in Sessions,
                 \/ FindAgain(s) \/ Enter(s) \/ EnterRefused(s)
                 \/ Leave(s) \/ CountPlayers(s) \/ Return(s)
          PROVE  Kept
      BY <2>5 DEF FindAgain, Enter, EnterRefused, Leave, CountPlayers, Return
    <2>6. CASE UNCHANGED vars
      BY <2>6 DEF vars
    <2> QED
      BY <2>1, <2>2, <2>3, <2>4, <2>5, <2>6 DEF Next, Handle
  <1>2. TypeOK /\ [Next]_vars
          => [ \A i \in RoomIds :
                 rooms[i] # NoRef /\ rooms'[i] \notin {rooms[i], NoRef}
                     => \E s \in Sessions : pc[s] = "create" /\ pc'[s] = "enterNew"
             ]_vars
    BY <1>1
  <1> QED
    BY <1>2, TypeCorrect, PTL DEF Spec, GetOrCreateKeepsRoom
=============================================================================
