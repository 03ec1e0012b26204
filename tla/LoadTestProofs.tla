--------------------------- MODULE LoadTestProofs ---------------------------
(***************************************************************************)
(* Proofs about LoadTest, for any number of clients and threads: it uses   *)
(* the rooms as RoomManager lets it, and the latch is a barrier.           *)
(***************************************************************************)
EXTENDS LoadTest, RoomManagerProofs, SequenceTheorems

\* The dummy client and the sessions use the rooms only as RoomManager lets
\* them, so that what is proved of the rooms holds here.
THEOREM UsesRooms == LoadSpec => Spec
<1>1. LoadInit => Init
  BY DEF LoadInit
<1>2. [LoadNext]_loadVars => [Next]_vars
  <2> SUFFICES ASSUME [LoadNext]_loadVars PROVE [Next]_vars
    OBVIOUS
  <2>1. ASSUME NEW t \in Threads,
               Connect(t) \/ CountDown(t) \/ PassLatch(t) \/ SendPacket(t) \/ SendFails(t) \/ CloseAll(t)
        PROVE  UNCHANGED vars
    BY <2>1 DEF Connect, CountDown, PassLatch, SendPacket, SendFails, CloseAll
  <2>2. ASSUME NEW c \in Sessions, TakePacket(c)
        PROVE  [Next]_vars
    <3>1. MapOf(c) \in MapIds
      BY LoadAssumption
    <3>2. RecvEnter(c, MapOf(c)) \/ RecvLeave(c, MapOf(c)) \/ UNCHANGED vars
      BY <2>2 DEF TakePacket
    <3> QED BY <3>1, <3>2 DEF Next
  <2>3. ASSUME NEW c \in Sessions, HandleRest(c)
        PROVE  Next
    BY <2>3 DEF HandleRest, Next
  <2>4. ASSUME NEW c \in Sessions, RemoveSession(c)
        PROVE  UNCHANGED vars
    BY <2>4 DEF RemoveSession
  <2>5. CASE UNCHANGED loadVars
    BY <2>5 DEF loadVars
  <2> QED BY <2>1, <2>2, <2>3, <2>4, <2>5 DEF LoadNext
<1> QED BY <1>1, <1>2, PTL DEF LoadSpec, Spec

\* Under the dummy client's load no room is overfilled, whatever fails.
THEOREM CapacityUnderLoad == LoadSpec => []Capacity
  BY UsesRooms, CapacityHeld, PTL

\* ... none is destroyed under another map's id, none is left behind empty, and
\* only the overflow branch replaces one.
THEOREM RoomsUnderLoad ==
    LoadSpec => [](KeyMatchesRoom /\ NoEmptyRoomLeak) /\ GetOrCreateKeepsRoom
  BY UsesRooms, KeysMatch, NoLeak, RoomsKept, PTL

-----------------------------------------------------------------------------
(* The slices *)

Own(t) == StartId(t) .. EndId(t) - 1

LEMMA SliceFacts ==
    /\ TARGET_CONNECTIONS \in Nat
    /\ Slice \in Nat
    /\ Slice * WORKER_THREADS <= TARGET_CONNECTIONS
<1>1. TARGET_CONNECTIONS \in Nat /\ WORKER_THREADS \in Nat \ {0}
  BY ConstantsAssumption, LoadAssumption, FS_CardinalityType DEF TARGET_CONNECTIONS
<1> QED
  <2> DEFINE n == TARGET_CONNECTIONS
             w == WORKER_THREADS
  <2> HIDE DEF n, w
  <2>1. n \in Nat /\ w \in Nat \ {0}
    BY <1>1 DEF n, w
  <2>2. n \div w \in Nat /\ n = w * (n \div w) + (n % w) /\ n % w \in 0 .. w - 1
    BY <2>1
  <2>3. (n \div w) * w <= n
    BY <2>1, <2>2
  <2> QED BY <2>1, <2>2, <2>3 DEF n, w, Slice

\* A slice that ends before another begins.
LEMMA SliceOrder ==
    ASSUME NEW t \in Nat, NEW u \in Nat, t < u
    PROVE  StartId(t) + Slice <= StartId(u)
<1>1. Slice \in Nat
  BY SliceFacts
<1>2. (u - t - 1) * Slice >= 0
  BY <1>1
<1>3. (u - t - 1) * Slice = u * Slice - t * Slice - Slice
  BY <1>1
<1>4. t * Slice \in Nat /\ u * Slice \in Nat
  BY <1>1
<1> QED BY <1>1, <1>2, <1>3, <1>4 DEF StartId

\* Each slice is a part of the clients ...
LEMMA OwnInSessions ==
    ASSUME NEW t \in Threads
    PROVE  /\ StartId(t) \in Nat /\ EndId(t) \in Nat
           /\ StartId(t) <= EndId(t) /\ EndId(t) <= TARGET_CONNECTIONS
           /\ Own(t) \subseteq Sessions
<1>0. WORKER_THREADS \in Nat \ {0} /\ t \in Nat /\ t <= WORKER_THREADS - 1
  BY LoadAssumption DEF Threads
<1>1. StartId(t) + Slice <= StartId(WORKER_THREADS)
  BY <1>0, SliceOrder
<1>2. StartId(WORKER_THREADS) <= TARGET_CONNECTIONS /\ StartId(t) \in Nat
    /\ StartId(WORKER_THREADS) \in Nat
  BY <1>0, SliceFacts DEF StartId
<1>3. /\ EndId(t) \in Nat /\ StartId(t) <= EndId(t) /\ EndId(t) <= TARGET_CONNECTIONS
  BY <1>0, <1>1, <1>2, SliceFacts DEF EndId
<1> QED BY <1>2, <1>3, SliceFacts, LoadAssumption DEF Own

\* ... no client is in two ...
LEMMA OwnDisjoint ==
    ASSUME NEW t \in Threads, NEW u \in Threads, t # u
    PROVE  Own(t) \cap Own(u) = {}
<1>1. ASSUME NEW a \in Threads, NEW b \in Threads, a < b
      PROVE  Own(a) \cap Own(b) = {}
  <2>1. a # WORKER_THREADS - 1 /\ a \in Nat /\ b \in Nat
    BY <1>1, LoadAssumption DEF Threads
  <2>2. EndId(a) <= StartId(b)
    BY <1>1, <2>1, SliceOrder DEF EndId
  <2> QED BY <2>2, OwnInSessions DEF Own
<1>2. t < u \/ u < t
  BY LoadAssumption DEF Threads
<1> QED BY <1>1, <1>2

\* ... and every client is in one.
LEMMA OwnCover ==
    ASSUME NEW c \in Sessions
    PROVE  \E t \in Threads : c \in Own(t)
<1> DEFINE w == WORKER_THREADS
           last == w - 1
<1>0. /\ w \in Nat \ {0} /\ last \in Nat /\ last \in Threads
      /\ c \in Nat /\ c < TARGET_CONNECTIONS
  BY LoadAssumption, SliceFacts DEF Threads
<1>1. CASE StartId(last) <= c
  <2>1. EndId(last) = TARGET_CONNECTIONS
    BY DEF EndId
  <2>2. c \in Own(last)
    BY <1>0, <1>1, <2>1, OwnInSessions, SliceFacts DEF Own
  <2> QED BY <1>0, <2>2
<1>2. CASE ~(StartId(last) <= c)
  <2> DEFINE k == Slice
  <2>1. k \in Nat /\ c < last * k
    BY <1>0, <1>2, SliceFacts DEF StartId
  <2> HIDE DEF k, last, w
  <2>2. k # 0
    BY <1>0, <2>1
  <2> DEFINE t == c \div k
  <2>3. t \in Nat /\ c = k * t + (c % k) /\ c % k \in 0 .. k - 1
    BY <1>0, <2>1, <2>2
  <2> HIDE DEF t
  <2>4. t * k <= c /\ c < t * k + k
    BY <1>0, <2>1, <2>3
  <2>5. t < last
    <3>1. CASE last <= t
      <4>1. last * k <= t * k
        BY <1>0, <2>1, <2>3, <3>1
      <4> QED BY <1>0, <2>1, <2>3, <2>4, <4>1
    <3> QED BY <1>0, <2>3, <3>1
  <2>6. t \in Threads /\ t # last
    BY <1>0, <2>3, <2>5 DEF Threads, last, w
  <2>7. c \in Own(t)
    BY <1>0, <2>1, <2>3, <2>4, <2>6 DEF Own, StartId, EndId, k, last, w
  <2> QED BY <2>6, <2>7
<1> QED BY <1>1, <1>2
-----------------------------------------------------------------------------
\* A finite set of numbers has a least one.
LEMMA LeastExists ==
    ASSUME NEW T, T \subseteq Nat, IsFiniteSet(T), T # {}
    PROVE  \E c \in T : \A d \in T : c <= d
<1> DEFINE UpTo(c) == { d \in T : d <= c }
           F == { UpTo(c) : c \in T }
<1>1. F \subseteq FiniteSubsetsOf(T) /\ F # {}
  <2>1. \A c \in T : UpTo(c) \in SUBSET T
    OBVIOUS
  <2>2. F \subseteq SUBSET T /\ F # {}
    <3> HIDE DEF UpTo
    <3> QED BY <2>1
  <2>3. FiniteSubsetsOf(T) = SUBSET T
    BY FS_FiniteSubsetsOfFinite
  <2> QED BY <2>2, <2>3
<1>2. PICK x \in F : \A y \in F : <<y, x>> \notin StrictSubsetOrdering(T)
  <2> HIDE DEF F
  <2> QED BY <1>1, FS_StrictSubsetOrderingWellFounded, WFMin
<1>3. PICK c \in T : x = UpTo(c)
  BY <1>2
<1>4. ASSUME NEW d \in T PROVE c <= d
  <2>1. UpTo(d) \in F
    OBVIOUS
  <2>2. CASE d < c
    <3>1. UpTo(d) \subseteq UpTo(c)
      <4>1. \A e \in T : e <= d => e <= c
        BY <2>2
      <4> QED BY <4>1
    <3>2. c \in UpTo(c) /\ c \notin UpTo(d)
      BY <2>2
    <3>3. <<UpTo(d), UpTo(c)>> \in StrictSubsetOrdering(T)
      <4>1. UpTo(d) \in SUBSET T /\ UpTo(c) \in SUBSET T /\ UpTo(d) # UpTo(c)
        BY <3>2
      <4> HIDE DEF UpTo
      <4> QED BY <3>1, <4>1 DEF StrictSubsetOrdering
    <3> QED BY <1>2, <1>3, <2>1, <3>3
  <2> QED BY <2>2
<1> QED BY <1>4

\* The next client to play is connected and in the thread's slice, if there is one.
LEMMA NextClientFacts ==
    ASSUME NEW t \in Threads, NEW from \in Nat
    PROVE  \/ NextClient(t, from) = EndId(t)
           \/ /\ NextClient(t, from) \in from .. EndId(t) - 1
              /\ socket[NextClient(t, from)] = "open"
<1> DEFINE left == { c \in from .. EndId(t) - 1 : socket[c] = "open" }
<1>1. CASE left = {}
  BY <1>1 DEF NextClient
<1>2. CASE left # {}
  <2>1. left \subseteq Nat /\ IsFiniteSet(left)
    <3>1. from .. EndId(t) - 1 \subseteq Nat /\ IsFiniteSet(from .. EndId(t) - 1)
      <4>1. from \in Int /\ EndId(t) - 1 \in Int
        BY OwnInSessions
      <4> QED BY <4>1, FS_Interval
    <3> QED BY <3>1, FS_Subset
  <2>2. \E c \in left : \A d \in left : c <= d
    BY <1>2, <2>1, LeastExists
  <2>3. NextClient(t, from) \in left
    <3>1. NextClient(t, from) = CHOOSE c \in left : \A d \in left : c <= d
      BY <1>2 DEF NextClient
    <3> HIDE DEF left
    <3> QED BY <2>2, <3>1
  <2> QED BY <2>3
<1> QED BY <1>1, <1>2

-----------------------------------------------------------------------------
(* The barrier *)

LoadTypes ==
    /\ at \in [Threads -> {"connect", "count", "wait", "play", "ended"}]
    /\ turn \in [Threads -> Nat]
    /\ latch \in Int
    /\ socket \in [Sessions -> {"none", "open", "failed", "closed"}]
    /\ sent \in [Sessions -> Nat]
    /\ handled \in [Sessions -> Nat]
    /\ registered \subseteq Sessions

\* A thread has counted a client of its slice.
Passed(t, c) == c \in Own(t) /\ (at[t] \in {"wait", "play", "ended"} \/ c < turn[t])
Uncounted == { c \in Sessions : \A t \in Threads : ~Passed(t, c) }

\* The latch counts the clients that are not counted yet, those that are have
\* tried to connect, and nobody plays before it is zero.
BarrierInv ==
    /\ LoadTypes
    /\ latch = Cardinality(Uncounted)
    /\ \A t \in Threads :
           /\ at[t] \in {"connect", "count"} => turn[t] \in Own(t)
           /\ at[t] = "count" => socket[turn[t]] # "none"
           /\ at[t] \in {"play", "ended"} => latch = 0
           /\ \A c \in Own(t) : Passed(t, c) => socket[c] # "none"
    /\ \A c \in Sessions : sent[c] > 0 => latch = 0

LEMMA OrderFacts ==
    ConnectOrder[1] = "connect" /\ ConnectOrder[2] = "count"
  BY DEF ConnectOrder

LEMMA UncountedFinite == IsFiniteSet(Uncounted) /\ Cardinality(Uncounted) \in Nat
<1>1. Uncounted \subseteq Sessions
  BY DEF Uncounted
<1> QED BY <1>1, ConstantsAssumption, FS_Subset, FS_CardinalityType

LEMMA InitBarrier == LoadInit => BarrierInv
<1> SUFFICES ASSUME LoadInit PROVE BarrierInv
  OBVIOUS
<1> USE OrderFacts DEF LoadInit
<1>1. \A t \in Threads : StartId(t) \in Nat
  BY OwnInSessions
<1>2. LoadTypes
  BY <1>1, SliceFacts DEF LoadTypes
<1>3. \A t \in Threads : \A c \in Own(t) : ~Passed(t, c)
  BY OwnInSessions DEF Passed, Own
<1>4. Uncounted = Sessions
  BY <1>3 DEF Uncounted, Passed
<1>5. ASSUME NEW t \in Threads, at[t] \in {"connect", "count"}
      PROVE  turn[t] \in Own(t) /\ at[t] # "count"
  BY <1>5, OwnInSessions DEF Own
<1> QED BY <1>2, <1>3, <1>4, <1>5 DEF BarrierInv, TARGET_CONNECTIONS

\* Steps that leave the first phase alone.
LEMMA BarrierUntouched ==
    ASSUME BarrierInv, LoadTypes', UNCHANGED latch,
           \A t \in Threads : \A c \in Own(t) : Passed(t, c)' <=> Passed(t, c),
           \A t \in Threads : at'[t] \in {"connect", "count"} => at'[t] = at[t] /\ turn'[t] = turn[t],
           \A t \in Threads : at'[t] \in {"play", "ended"} => latch = 0,
           \A c \in Sessions : socket[c] # "none" => socket'[c] # "none",
           \A c \in Sessions : sent'[c] > 0 => sent[c] > 0 \/ latch = 0
    PROVE  BarrierInv'
<1>1. Uncounted' = Uncounted
  BY DEF Uncounted, Passed
<1>2. \A t \in Threads : Own(t) \subseteq Sessions
  BY OwnInSessions
<1> QED BY <1>1, <1>2 DEF BarrierInv

LEMMA StepBarrier == BarrierInv /\ [LoadNext]_loadVars => BarrierInv'
<1> SUFFICES ASSUME BarrierInv, [LoadNext]_loadVars PROVE BarrierInv'
  OBVIOUS
<1>0. LoadTypes /\ \A t \in Threads : Own(t) \subseteq Sessions /\ StartId(t) \in Nat /\ EndId(t) \in Nat
  BY OwnInSessions DEF BarrierInv
<1>1. ASSUME NEW t \in Threads, Connect(t) PROVE BarrierInv'
  <2>1. /\ at[t] = "connect" /\ at' = [at EXCEPT ![t] = "count"]
        /\ UNCHANGED <<turn, latch, sent, handled>>
        /\ turn[t] \in Own(t)
    BY <1>1, OrderFacts DEF Connect, NextConnect, BarrierInv
  <2>2. /\ socket' \in [Sessions -> {"none", "open", "failed", "closed"}]
        /\ socket'[turn[t]] # "none"
        /\ \A c \in Sessions \ {turn[t]} : socket'[c] = socket[c]
        /\ registered' \subseteq Sessions
    BY <1>0, <1>1, <2>1 DEF Connect, LoadTypes
  <2>3. LoadTypes'
    BY <1>0, <2>1, <2>2 DEF LoadTypes
  <2>4. \A u \in Threads : \A c \in Own(u) : Passed(u, c)' <=> Passed(u, c)
    BY <1>0, <2>1 DEF Passed, LoadTypes, Own
  <2>5. Uncounted' = Uncounted
    BY <2>4 DEF Uncounted, Passed
  <2>6. \A u \in Threads \ {t} : at'[u] = at[u]
    BY <1>0, <2>1 DEF LoadTypes
  <2>7. at'[t] = "count"
    BY <1>0, <2>1 DEF LoadTypes
  <2> QED BY <1>0, <2>1, <2>2, <2>3, <2>4, <2>5, <2>6, <2>7 DEF BarrierInv
<1>2. ASSUME NEW t \in Threads, CountDown(t) PROVE BarrierInv'
  <2> DEFINE c == turn[t]
  <2>1. /\ at[t] = "count" /\ c \in Own(t) /\ socket[c] # "none"
        /\ latch' = latch - 1 /\ UNCHANGED <<socket, sent, handled, registered>>
        /\ at' = [at EXCEPT ![t] = IF c + 1 < EndId(t) THEN "connect" ELSE "wait"]
        /\ turn' = [turn EXCEPT ![t] = @ + 1]
    BY <1>2, OrderFacts DEF CountDown, NextConnect, BarrierInv, serverVars
  <2>2. LoadTypes'
    BY <1>0, <2>1 DEF LoadTypes
  <2>3. /\ turn'[t] = c + 1 /\ at'[t] = IF c + 1 < EndId(t) THEN "connect" ELSE "wait"
        /\ \A u \in Threads \ {t} : at'[u] = at[u] /\ turn'[u] = turn[u]
        /\ c \in StartId(t) .. EndId(t) - 1
    BY <1>0, <2>1 DEF LoadTypes, Own
  <2>4. \A d \in Own(t) : Passed(t, d)' <=> Passed(t, d) \/ d = c
    BY <1>0, <2>1, <2>3 DEF Passed, Own
  <2>5. \A u \in Threads \ {t} : \A d \in Own(u) : Passed(u, d)' <=> Passed(u, d)
    BY <2>3 DEF Passed, Own
  <2>6. \A u \in Threads : ~Passed(u, c)
    BY <1>0, <2>1, <2>3, OwnDisjoint DEF Passed
  <2>7. \A u \in Threads \ {t} : c \notin Own(u)
    BY <2>1, OwnDisjoint
  <2>8. c \in Uncounted /\ Uncounted' = Uncounted \ {c}
    BY <1>0, <2>1, <2>4, <2>5, <2>6, <2>7 DEF Uncounted, Passed
  <2>9. latch' = Cardinality(Uncounted') /\ latch # 0
    BY <2>1, <2>8, UncountedFinite, FS_RemoveElement, FS_EmptySet DEF BarrierInv
  <2>10. \A u \in Threads : at'[u] \notin {"play", "ended"}
    BY <2>3, <2>9 DEF BarrierInv
  <2>11. ASSUME NEW u \in Threads
         PROVE  /\ at'[u] \in {"connect", "count"} => turn'[u] \in Own(u)
                /\ at'[u] = "count" => socket'[turn'[u]] # "none"
                /\ \A d \in Own(u) : Passed(u, d)' => socket'[d] # "none"
    <3>1. CASE u = t
      BY <1>0, <2>1, <2>3, <2>4, <3>1 DEF BarrierInv, Own
    <3>2. CASE u # t
      BY <2>1, <2>3, <2>5, <3>2 DEF BarrierInv
    <3> QED BY <3>1, <3>2
  <2>12. \A d \in Sessions : ~(sent'[d] > 0)
    BY <2>1, <2>9 DEF BarrierInv
  <2> QED BY <2>2, <2>9, <2>10, <2>11, <2>12 DEF BarrierInv
<1>3. ASSUME NEW t \in Threads, PassLatch(t) PROVE BarrierInv'
  <2>1. /\ at[t] = "wait" /\ latch = 0
        /\ at' = [at EXCEPT ![t] = "play"]
        /\ turn' = [turn EXCEPT ![t] = NextClient(t, StartId(t))]
        /\ UNCHANGED <<latch, socket, sent, handled, registered>>
    BY <1>3 DEF PassLatch, serverVars
  <2>2. NextClient(t, StartId(t)) \in Nat
    BY <1>0, NextClientFacts
  <2>3. LoadTypes'
    BY <1>0, <2>1, <2>2 DEF LoadTypes
  <2> QED BY <1>0, <2>1, <2>3, BarrierUntouched DEF Passed, LoadTypes
<1>4. ASSUME NEW t \in Threads, SendPacket(t) \/ SendFails(t) PROVE BarrierInv'
  <2>1. /\ at[t] = "play" /\ latch = 0
        /\ UNCHANGED <<at, latch, socket, handled, registered>>
    BY <1>4 DEF SendPacket, SendFails, serverVars, BarrierInv
  <2>2. turn[t] + 1 \in Nat
    BY <1>0 DEF LoadTypes
  <2>3. NextClient(t, turn[t] + 1) \in Nat
    BY <1>0, <2>2, NextClientFacts
  <2>4. turn' \in [Threads -> Nat] /\ sent' \in [Sessions -> Nat]
        /\ \A u \in Threads \ {t} : turn'[u] = turn[u]
    <3>1. turn' = turn \/ turn' = [turn EXCEPT ![t] = NextClient(t, turn[t] + 1)]
      BY <1>4 DEF SendPacket, SendFails
    <3>2. sent' = sent \/ sent' = [sent EXCEPT ![turn[t]] = @ + 1]
      BY <1>4 DEF SendPacket, SendFails
    <3> QED BY <1>0, <2>3, <3>1, <3>2 DEF LoadTypes
  <2>5. LoadTypes'
    BY <1>0, <2>1, <2>4 DEF LoadTypes
  <2> QED BY <2>1, <2>4, <2>5, BarrierUntouched DEF Passed
<1>5. ASSUME NEW t \in Threads, CloseAll(t) PROVE BarrierInv'
  <2>1. /\ at[t] = "play" /\ latch = 0
        /\ at' = [at EXCEPT ![t] = "ended"]
        /\ UNCHANGED <<turn, latch, sent, handled, registered>>
    BY <1>5 DEF CloseAll, serverVars, BarrierInv
  <2>2. /\ socket' \in [Sessions -> {"none", "open", "failed", "closed"}]
        /\ \A c \in Sessions : socket[c] # "none" => socket'[c] # "none"
    BY <1>0, <1>5 DEF CloseAll, LoadTypes
  <2>3. LoadTypes'
    BY <1>0, <2>1, <2>2 DEF LoadTypes
  <2> QED BY <1>0, <2>1, <2>2, <2>3, BarrierUntouched DEF Passed, LoadTypes
<1>6. ASSUME NEW c \in Sessions, TakePacket(c) \/ HandleRest(c) \/ RemoveSession(c)
      PROVE  BarrierInv'
  <2>1. UNCHANGED <<at, turn, latch, socket, sent>>
        /\ handled' \in [Sessions -> Nat] /\ registered' \subseteq Sessions
    BY <1>0, <1>6 DEF TakePacket, HandleRest, RemoveSession, clientVars, serverVars, LoadTypes
  <2>2. LoadTypes'
    BY <1>0, <2>1 DEF LoadTypes
  <2> QED BY <2>1, <2>2, BarrierUntouched DEF Passed, BarrierInv
<1>7. CASE UNCHANGED loadVars
  <2>1. UNCHANGED <<at, turn, latch, socket, sent, handled, registered>>
    BY <1>7 DEF loadVars, clientVars, serverVars
  <2> QED BY <1>0, <2>1, BarrierUntouched DEF Passed, BarrierInv, LoadTypes
<1> QED BY <1>1, <1>2, <1>3, <1>4, <1>5, <1>6, <1>7 DEF LoadNext

LEMMA BarrierInvariant == LoadSpec => []BarrierInv
  BY InitBarrier, StepBarrier, PTL DEF LoadSpec

\* The latch separates the phases and opens, for any number of clients and
\* threads, however many connects and sends fail.
THEOREM LatchSeparates == LoadSpec => []LatchIsABarrier
<1>1. BarrierInv => LatchIsABarrier
  <2> SUFFICES ASSUME BarrierInv PROVE LatchIsABarrier
    OBVIOUS
  <2>1. ASSUME NEW c \in Sessions, sent[c] > 0, NEW d \in Sessions
        PROVE  socket[d] # "none"
    <3>1. Uncounted = {}
      BY <2>1, UncountedFinite, FS_EmptySet DEF BarrierInv
    <3>2. PICK t \in Threads : Passed(t, d)
      BY <3>1 DEF Uncounted
    <3> QED BY <3>2 DEF BarrierInv, Passed
  <2>2. ASSUME \A t \in Threads : at[t] = "wait"
        PROVE  latch = 0
    <3>1. Uncounted = {}
      BY <2>2, OwnCover DEF Uncounted, Passed
    <3> QED BY <3>1, FS_EmptySet DEF BarrierInv
  <2> QED BY <2>1, <2>2 DEF LatchIsABarrier
<1> QED BY <1>1, BarrierInvariant, PTL
-----------------------------------------------------------------------------
(* The seats of those who are gone *)

LEMMA ScenarioFacts ==
    Len(Scenario) \in Nat \ {0} /\ Scenario[Len(Scenario)] = "LEAVE_ROOM"
<1> DEFINE before == <<"CHARACTER_INFO", "CHARACTER_STAT_INFO", "ENTER_ROOM">>
           stats  == [i \in 1 .. SCENARIO_LOOPS |-> "CHARACTER_STAT_INFO"]
           leave  == <<"LEAVE_ROOM">>
           packets == {"CHARACTER_INFO", "CHARACTER_STAT_INFO", "ENTER_ROOM", "LEAVE_ROOM"}
<1>1. before \in Seq(packets) /\ leave \in Seq(packets) /\ Len(leave) = 1 /\ leave[1] = "LEAVE_ROOM"
  OBVIOUS
<1>2. stats \in Seq(packets)
  BY LoadAssumption
<1> HIDE DEF before, stats, leave, packets
<1>3. before \o stats \in Seq(packets) /\ Len(before \o stats) \in Nat
  BY <1>1, <1>2
<1>4. /\ Len((before \o stats) \o leave) = Len(before \o stats) + 1
      /\ ((before \o stats) \o leave)[Len(before \o stats) + 1] = "LEAVE_ROOM"
  <2> DEFINE most == before \o stats
             end  == Len(most) + 1
  <2> HIDE DEF most
  <2>1. /\ Len(most \o leave) = Len(most) + Len(leave)
        /\ \A i \in 1 .. Len(most) + Len(leave) :
               (most \o leave)[i] = IF i <= Len(most) THEN most[i] ELSE leave[i - Len(most)]
    BY <1>1, <1>3, ConcatProperties DEF most
  <2>2. end \in 1 .. Len(most) + Len(leave) /\ ~(end <= Len(most)) /\ end - Len(most) = 1
    BY <1>1, <1>3 DEF most
  <2>3. Len(most \o leave) = end /\ (most \o leave)[end] = leave[1]
    BY <1>1, <2>1, <2>2
  <2> QED BY <1>1, <2>3 DEF most
<1>5. Scenario = (before \o stats) \o leave
  BY DEF Scenario, before, stats, leave
<1> QED BY <1>3, <1>4, <1>5

\* No client sends more than its scenario, each thread plays its clients in
\* turn while their sockets are open, and closes them at its end.
ClientInv ==
    /\ \A c \in Sessions : sent[c] <= Len(Scenario)
    /\ \A t \in Threads :
           /\ \A c \in Own(t) :
                  /\ socket[c] = "closed" => at[t] = "ended"
                  /\ at[t] \in {"connect", "count", "wait"} => sent[c] = 0
                  /\ at[t] = "play" /\ turn[t] < c => sent[c] = 0
           /\ at[t] = "play" =>
                  \/ turn[t] = EndId(t)
                  \/ /\ turn[t] \in Own(t)
                     /\ socket[turn[t]] = "open"
                     /\ sent[turn[t]] < Len(Scenario)

\* The next client of the slice has sent nothing yet.
LEMMA NextUnplayed ==
    ASSUME BarrierInv, NEW t \in Threads, NEW from \in Nat, StartId(t) <= from,
           \A c \in Own(t) : from <= c => sent[c] = 0
    PROVE  LET n == NextClient(t, from)
           IN  /\ n \in Nat
               /\ \A c \in Own(t) : n < c => sent[c] = 0
               /\ \/ n = EndId(t)
                  \/ n \in Own(t) /\ from <= n /\ socket[n] = "open" /\ sent[n] = 0
<1> DEFINE n == NextClient(t, from)
<1>0. StartId(t) \in Nat /\ EndId(t) \in Nat
  BY OwnInSessions
<1>1. \/ n = EndId(t)
      \/ n \in from .. EndId(t) - 1 /\ socket[n] = "open"
  BY NextClientFacts
<1> HIDE DEF n
<1>2. CASE n = EndId(t)
  <2>1. \A c \in Own(t) : ~(n < c)
    BY <1>0, <1>2 DEF Own
  <2> QED BY <1>0, <1>2, <2>1 DEF n
<1>3. CASE n \in from .. EndId(t) - 1 /\ socket[n] = "open"
  <2>1. n \in Own(t) /\ n \in Nat /\ from <= n
    BY <1>0, <1>3 DEF Own
  <2>2. \A c \in Own(t) : n < c => from <= c
    BY <1>0, <2>1 DEF Own
  <2> QED BY <1>3, <2>1, <2>2 DEF n
<1> QED BY <1>1, <1>2, <1>3

LEMMA StepClient == BarrierInv /\ ClientInv /\ [LoadNext]_loadVars => ClientInv'
<1> SUFFICES ASSUME BarrierInv, ClientInv, [LoadNext]_loadVars PROVE ClientInv'
  OBVIOUS
<1>0. LoadTypes /\ \A t \in Threads : Own(t) \subseteq Sessions /\ StartId(t) \in Nat /\ EndId(t) \in Nat
  BY OwnInSessions DEF BarrierInv
<1>1. ASSUME NEW t \in Threads, Connect(t) PROVE ClientInv'
  <2>1. /\ at[t] = "connect" /\ at' = [at EXCEPT ![t] = "count"]
        /\ UNCHANGED <<turn, sent>> /\ turn[t] \in Own(t)
        /\ \/ socket' = [socket EXCEPT ![turn[t]] = "open"]
           \/ socket' = [socket EXCEPT ![turn[t]] = "failed"]
    BY <1>1, OrderFacts DEF Connect, NextConnect, BarrierInv
  <2>2. /\ at'[t] = "count" /\ \A u \in Threads \ {t} : at'[u] = at[u]
        /\ socket'[turn[t]] # "closed"
        /\ \A c \in Sessions \ {turn[t]} : socket'[c] = socket[c]
    BY <1>0, <2>1 DEF LoadTypes
  <2>3. \A u \in Threads \ {t} : turn[t] \notin Own(u)
    BY <2>1, OwnDisjoint
  <2>4. \A u \in Threads \ {t} : \A c \in Own(u) : socket'[c] = socket[c]
    BY <1>0, <2>2, <2>3
  <2>5. \A c \in Own(t) : socket'[c] # "closed"
    BY <1>0, <2>1, <2>2 DEF ClientInv
  <2> QED BY <2>1, <2>2, <2>4, <2>5 DEF ClientInv
<1>2. ASSUME NEW t \in Threads, CountDown(t) PROVE ClientInv'
  <2>1. /\ at[t] = "count" /\ UNCHANGED <<socket, sent>>
        /\ at' = [at EXCEPT ![t] = IF turn[t] + 1 < EndId(t) THEN "connect" ELSE "wait"]
        /\ turn' = [turn EXCEPT ![t] = @ + 1]
    BY <1>2, OrderFacts DEF CountDown, NextConnect
  <2>2. /\ at'[t] \in {"connect", "wait"}
        /\ \A u \in Threads \ {t} : at'[u] = at[u] /\ turn'[u] = turn[u]
    BY <1>0, <2>1 DEF LoadTypes
  <2> QED BY <2>1, <2>2 DEF ClientInv
<1>3. ASSUME NEW t \in Threads, PassLatch(t) PROVE ClientInv'
  <2> DEFINE n == NextClient(t, StartId(t))
  <2>1. /\ at[t] = "wait" /\ at' = [at EXCEPT ![t] = "play"]
        /\ turn' = [turn EXCEPT ![t] = n]
        /\ UNCHANGED <<socket, sent>>
    BY <1>3 DEF PassLatch
  <2>2. \A c \in Own(t) : sent[c] = 0 /\ socket[c] # "closed"
    BY <2>1 DEF ClientInv
  <2>3. /\ n = EndId(t) \/ (n \in Own(t) /\ socket[n] = "open" /\ sent[n] = 0)
        /\ n \in Nat
    BY <1>0, <2>2, NextUnplayed
  <2> HIDE DEF n
  <2>4. /\ at'[t] = "play" /\ turn'[t] = n
        /\ \A u \in Threads \ {t} : at'[u] = at[u] /\ turn'[u] = turn[u]
    BY <1>0, <2>1 DEF LoadTypes
  <2> QED BY <2>1, <2>2, <2>3, <2>4, ScenarioFacts DEF ClientInv
<1>4. ASSUME NEW t \in Threads, SendPacket(t) \/ SendFails(t) PROVE ClientInv'
  <2> DEFINE c == turn[t]
             n == NextClient(t, c + 1)
  <2>1. /\ at[t] = "play" /\ c < EndId(t) /\ UNCHANGED <<at, socket>>
        /\ c \in Own(t) /\ c \in Nat /\ socket[c] = "open" /\ sent[c] < Len(Scenario)
    BY <1>0, <1>4 DEF SendPacket, SendFails, ClientInv, LoadTypes
  <2>2. \A d \in Own(t) : c + 1 <= d => sent[d] = 0
    BY <1>0, <2>1 DEF ClientInv, Own
  <2>3. /\ \A d \in Own(t) : n < d => sent[d] = 0
        /\ n = EndId(t) \/ (n \in Own(t) /\ c + 1 <= n /\ socket[n] = "open" /\ sent[n] = 0)
        /\ n \in Nat
    <3>1. c + 1 \in Nat /\ StartId(t) <= c + 1
      BY <2>1, OwnInSessions DEF Own
    <3> QED BY <1>0, <2>2, <3>1, NextUnplayed
  <2> HIDE DEF n
  <2>4. \A u \in Threads \ {t} : turn'[u] = turn[u] /\ c \notin Own(u)
    BY <1>0, <1>4, <2>1, OwnDisjoint DEF SendPacket, SendFails, LoadTypes
  <2>5. CASE SendFails(t)
    <3>1. turn'[t] = n /\ sent' = sent
      BY <1>0, <2>5 DEF SendFails, LoadTypes, n
    <3> QED BY <2>1, <2>3, <2>4, <3>1, ScenarioFacts DEF ClientInv
  <2>6. CASE SendPacket(t)
    <3>1. /\ sent' = [sent EXCEPT ![c] = @ + 1] /\ c \in Sessions
          /\ turn'[t] = IF sent'[c] = Len(Scenario) THEN n ELSE c
      BY <1>0, <2>1, <2>6 DEF SendPacket, LoadTypes, n
    <3>2. /\ sent'[c] = sent[c] + 1 /\ \A d \in Sessions \ {c} : sent'[d] = sent[d]
          /\ sent[c] \in Nat
      BY <1>0, <3>1 DEF LoadTypes
    <3>3. \A d \in Sessions : sent'[d] <= Len(Scenario)
      BY <2>1, <3>2, ScenarioFacts DEF ClientInv
    <3>4. \A d \in Own(t) : turn'[t] < d => sent'[d] = 0
      <4>1. CASE turn'[t] = c
        BY <1>0, <2>1, <3>2, <4>1 DEF ClientInv, Own
      <4>2. CASE turn'[t] = n
        <5>1. n = EndId(t) \/ c < n
          BY <2>1, <2>3
        <5>2. \A d \in Own(t) : n < d => d # c
          BY <1>0, <2>1, <2>3, <5>1 DEF Own
        <5> QED BY <1>0, <2>3, <3>2, <4>2, <5>2
      <4> QED BY <3>1, <4>1, <4>2
    <3>5. \/ turn'[t] = EndId(t)
          \/ turn'[t] \in Own(t) /\ socket[turn'[t]] = "open" /\ sent'[turn'[t]] < Len(Scenario)
      <4>1. CASE sent'[c] = Len(Scenario)
        <5>1. turn'[t] = n /\ (n = EndId(t) \/ (n \in Own(t) /\ n # c /\ socket[n] = "open" /\ sent[n] = 0))
          BY <2>1, <2>3, <3>1, <4>1
        <5> QED BY <1>0, <3>2, <5>1, ScenarioFacts
      <4>2. CASE sent'[c] # Len(Scenario)
        <5>1. turn'[t] = c /\ sent'[c] < Len(Scenario)
          BY <2>1, <3>1, <3>2, <4>2, ScenarioFacts
        <5> QED BY <2>1, <5>1
      <4> QED BY <4>1, <4>2
    <3>6. \A u \in Threads \ {t} : \A d \in Own(u) : sent'[d] = sent[d]
      BY <1>0, <2>4, <3>2
    <3> QED BY <1>0, <2>1, <2>4, <3>3, <3>4, <3>5, <3>6 DEF ClientInv
  <2> QED BY <1>4, <2>5, <2>6
<1>5. ASSUME NEW t \in Threads, CloseAll(t) PROVE ClientInv'
  <2>1. /\ at'[t] = "ended" /\ UNCHANGED <<turn, sent>>
        /\ \A u \in Threads \ {t} : at'[u] = at[u]
    BY <1>0, <1>5 DEF CloseAll, LoadTypes
  <2>2. \A u \in Threads \ {t} : \A c \in Own(u) : socket'[c] = socket[c]
    BY <1>0, <1>5, OwnDisjoint DEF CloseAll, Own
  <2> QED BY <2>1, <2>2 DEF ClientInv
<1>6. ASSUME NEW c \in Sessions, TakePacket(c) \/ HandleRest(c) \/ RemoveSession(c)
      PROVE  ClientInv'
  BY <1>6 DEF TakePacket, HandleRest, RemoveSession, clientVars, ClientInv
<1>7. CASE UNCHANGED loadVars
  BY <1>7 DEF loadVars, clientVars, ClientInv
<1> QED BY <1>1, <1>2, <1>3, <1>4, <1>5, <1>6, <1>7 DEF LoadNext

LEMMA ClientInvariant == LoadSpec => []ClientInv
<1>1. LoadInit => ClientInv
  <2> SUFFICES ASSUME LoadInit PROVE ClientInv
    OBVIOUS
  <2>1. \A c \in Sessions : sent[c] = 0 /\ socket[c] = "none"
    BY DEF LoadInit
  <2>2. \A t \in Threads : at[t] \in {"connect", "count", "wait"}
    BY OrderFacts DEF LoadInit
  <2> QED BY <2>1, <2>2, OwnInSessions, ScenarioFacts DEF ClientInv
<1> QED BY <1>1, StepClient, BarrierInvariant, PTL DEF LoadSpec
-----------------------------------------------------------------------------
\* The session is not in the room registered under the id.
OutOf(c, m) == rooms[m] \in Refs => c \notin object[rooms[m]].players

\* What another session's handler does can neither put the session into a
\* registered room nor change the room a handler of the session holds.
LEMMA OthersKeepOut ==
    ASSUME TypeOK, HandlersHold, NEW c \in Sessions, NEW m \in RoomIds,
           NEW s \in Sessions \ {c}, Handle(s)
    PROVE  /\ OutOf(c, m) => OutOf(c, m)'
           /\ rooms'[m] = rooms[m] \/ OutOf(c, m)'
           /\ pc'[c] = pc[c] /\ held'[c] = held[c]
<1> USE ConstantsAssumption
<1>1. CASE FindAgain(s) \/ EnterRefused(s) \/ CountPlayers(s)
  BY <1>1 DEF FindAgain, EnterRefused, CountPlayers, Goto, Hold, OutOf, TypeOK
<1>2. ASSUME NEW id \in RoomIds, MakeRoom(s, id), pc'[c] = pc[c]
      PROVE  /\ OutOf(c, m) => OutOf(c, m)'
             /\ rooms'[m] = rooms[m] \/ OutOf(c, m)'
             /\ pc'[c] = pc[c] /\ held'[c] = held[c]
  <2>1. CASE m = id
    <3>1. object'[rooms'[id]] = NewRoom(id) /\ held'[c] = held[c]
      BY <1>2, MakeRoomEffect
    <3>2. object'[rooms'[m]].players = {}
      BY <2>1, <3>1 DEF NewRoom
    <3> QED BY <1>2, <3>1, <3>2 DEF OutOf
  <2>2. CASE m # id
    <3>1. /\ rooms'[m] = rooms[m] /\ held'[c] = held[c]
          /\ rooms[m] \in Refs => object'[rooms[m]] = object[rooms[m]]
      BY <1>2, <2>2, MakeRoomEffect
    <3> QED BY <1>2, <3>1 DEF OutOf
  <2> QED BY <2>1, <2>2
<1>3. CASE CreateMapRoom(s)
  <2>1. mapId[s] \in RoomIds /\ MakeRoom(s, mapId[s]) /\ pc'[c] = pc[c]
    BY <1>3 DEF CreateMapRoom, HandlersHold, Goto, TypeOK
  <2> QED BY <1>2, <2>1
<1>4. CASE CreateRoom(s)
  <2>1. allocator \in RoomIds /\ MakeRoom(s, allocator) /\ pc'[c] = pc[c]
    BY <1>4 DEF CreateRoom, Goto, TypeOK
  <2> QED BY <1>2, <2>1
<1>5. CASE Enter(s) \/ Leave(s)
  <2>1. /\ rooms' = rooms /\ held' = held /\ pc'[c] = pc[c] /\ held[s] \in Refs
        /\ \/ object' = [object EXCEPT ![held[s]].players = @ \cup {s}]
           \/ object' = [object EXCEPT ![held[s]].players = @ \ {s}]
    BY <1>5 DEF Enter, Leave, Without, Goto, HandlersHold, TypeOK
  <2>2. \A r \in Refs : c \in object'[r].players <=> c \in object[r].players
    BY <2>1 DEF TypeOK, Room
  <2> QED BY <2>1, <2>2 DEF OutOf
<1>6. CASE DestroyRoom(s) \/ Return(s)
  <2>1. /\ rooms'[m] \in {rooms[m], NoRef}
        /\ pc'[c] = pc[c] /\ held'[c] = held[c]
        /\ object' = Reclaimed(object)
    BY <1>6 DEF DestroyRoom, Return, Goto, Hold, TypeOK
  <2>2. rooms'[m] \in Refs => object'[rooms'[m]] = object[rooms'[m]]
    BY <2>1, ReclaimedType DEF TypeOK
  <2> QED BY <2>1, <2>2 DEF OutOf
<1> QED BY <1>1, <1>3, <1>4, <1>5, <1>6 DEF Handle

\* The session is out of the room of its map, or its LEAVE holds that room.
LeavingOrOut(c) ==
    OutOf(c, MapOf(c)) \/ (pc[c] = "leave" /\ held[c] = rooms[MapOf(c)])

Leaving == {"idle", "leave", "count", "destroy", "return"}

\* The handler of a LEAVE takes the session out, and keeps it out.
LEMMA LeaverGetsOut ==
    ASSUME TypeOK, HandlersHold, NEW c \in Sessions, Handle(c),
           pc[c] \in Leaving, LeavingOrOut(c), MapOf(c) \in RoomIds
    PROVE  pc'[c] \in Leaving /\ OutOf(c, MapOf(c))'
<1> USE ConstantsAssumption DEF Leaving
<1>1. CASE Leave(c)
  <2>1. /\ rooms' = rooms /\ held[c] \in Refs /\ pc'[c] = "count"
        /\ object' = [object EXCEPT ![held[c]].players = @ \ {c}]
    BY <1>1 DEF Leave, Without, Goto, HandlersHold, TypeOK
  <2>2. /\ c \notin object'[held[c]].players
        /\ \A r \in Refs \ {held[c]} : object'[r] = object[r]
    BY <2>1 DEF TypeOK, Room
  <2> QED BY <2>1, <2>2 DEF LeavingOrOut, OutOf
<1>2. CASE CountPlayers(c)
  <2>1. UNCHANGED <<rooms, object>> /\ pc'[c] \in Leaving /\ pc[c] # "leave"
    BY <1>2 DEF CountPlayers, Goto, TypeOK
  <2> QED BY <2>1 DEF LeavingOrOut, OutOf
<1>3. CASE DestroyRoom(c) \/ Return(c)
  <2>1. /\ rooms'[MapOf(c)] \in {rooms[MapOf(c)], NoRef}
        /\ pc'[c] \in Leaving /\ pc[c] # "leave"
        /\ object' = Reclaimed(object)
    BY <1>3 DEF DestroyRoom, Return, Goto, Hold, TypeOK
  <2>2. rooms'[MapOf(c)] \in Refs => object'[rooms'[MapOf(c)]] = object[rooms'[MapOf(c)]]
    BY <2>1, ReclaimedType DEF TypeOK
  <2> QED BY <2>1, <2>2 DEF LeavingOrOut, OutOf
<1>4. ~(FindAgain(c) \/ CreateMapRoom(c) \/ Enter(c) \/ EnterRefused(c) \/ CreateRoom(c))
  BY DEF FindAgain, CreateMapRoom, Enter, EnterRefused, CreateRoom
<1> QED BY <1>1, <1>2, <1>3, <1>4 DEF Handle

\* The server handles what was sent; a session is removed when all of it is
\* handled; and a session whose LEAVE was taken is leaving or out.
ServerInv ==
    \A c \in Sessions :
        /\ handled[c] <= sent[c]
        /\ socket[c] = "open" => c \in registered
        /\ socket[c] = "closed" /\ c \notin registered => handled[c] = sent[c] /\ Idle(c)
        /\ handled[c] = Len(Scenario) => pc[c] \in Leaving /\ LeavingOrOut(c)

RoomsInv == TypeOK /\ HandlersHold

LEMMA MapsAreRoomIds == \A c \in Sessions : MapOf(c) \in RoomIds
  BY LoadAssumption, ConstantsAssumption

\* What the clients do leaves the rooms alone.
LEMMA ClientStep ==
    ASSUME BarrierInv, ClientInv, ServerInv,
           NEW t \in Threads,
           Connect(t) \/ CountDown(t) \/ PassLatch(t) \/ SendPacket(t) \/ SendFails(t) \/ CloseAll(t)
    PROVE  ServerInv'
<1>0. LoadTypes /\ Own(t) \subseteq Sessions /\ StartId(t) \in Nat /\ EndId(t) \in Nat
  BY OwnInSessions DEF BarrierInv
<1>1. UNCHANGED <<rooms, object, pc, held, handled>>
  BY DEF Connect, CountDown, PassLatch, SendPacket, SendFails, CloseAll, vars, serverVars
<1>2. CASE Connect(t)
  <2>1. /\ UNCHANGED sent
        /\ \/ /\ socket' = [socket EXCEPT ![turn[t]] = "open"]
              /\ registered' = registered \cup {turn[t]}
           \/ /\ socket' = [socket EXCEPT ![turn[t]] = "failed"]
              /\ UNCHANGED registered
    BY <1>2 DEF Connect
  <2> QED BY <1>0, <1>1, <2>1 DEF ServerInv, LeavingOrOut, OutOf, Idle, LoadTypes
<1>3. CASE CountDown(t) \/ PassLatch(t) \/ SendFails(t)
  <2>1. UNCHANGED <<sent, socket, registered>>
    BY <1>3 DEF CountDown, PassLatch, SendFails, serverVars
  <2> QED BY <1>1, <2>1 DEF ServerInv, LeavingOrOut, OutOf, Idle
<1>4. CASE SendPacket(t)
  <2>1. /\ UNCHANGED <<socket, registered>> /\ turn[t] \in Own(t)
        /\ sent' = [sent EXCEPT ![turn[t]] = @ + 1] /\ socket[turn[t]] = "open"
    BY <1>0, <1>4 DEF SendPacket, ClientInv, LoadTypes, serverVars
  <2>2. /\ \A c \in Sessions : sent'[c] \in Nat /\ sent[c] \in Nat /\ handled[c] \in Nat
        /\ \A c \in Sessions : sent[c] <= sent'[c]
        /\ \A c \in Sessions : socket[c] = "closed" => sent'[c] = sent[c]
    BY <1>0, <2>1 DEF LoadTypes
  <2> QED BY <1>1, <2>1, <2>2 DEF ServerInv, LeavingOrOut, OutOf, Idle
<1>5. CASE CloseAll(t)
  <2>1. /\ UNCHANGED <<sent, registered>>
        /\ \A c \in Sessions : socket'[c] = socket[c] \/ (socket[c] = "open" /\ socket'[c] = "closed")
    BY <1>5 DEF CloseAll, serverVars
  <2> QED BY <1>1, <2>1 DEF ServerInv, LeavingOrOut, OutOf, Idle
<1> QED BY <1>2, <1>3, <1>4, <1>5

LEMMA StepServer ==
    RoomsInv /\ BarrierInv /\ ClientInv /\ ServerInv /\ [LoadNext]_loadVars => ServerInv'
<1> SUFFICES ASSUME RoomsInv, BarrierInv, ClientInv, ServerInv, [LoadNext]_loadVars
             PROVE  ServerInv'
  OBVIOUS
<1> USE DEF RoomsInv
<1>0. LoadTypes /\ \A c \in Sessions : handled[c] \in Nat /\ sent[c] \in Nat /\ sent[c] <= Len(Scenario)
  BY DEF BarrierInv, ClientInv, LoadTypes
<1>1. ASSUME NEW c \in Sessions, TakePacket(c) PROVE ServerInv'
  <2>1. /\ Idle(c) /\ c \in registered /\ handled[c] < sent[c]
        /\ handled' = [handled EXCEPT ![c] = @ + 1]
        /\ UNCHANGED <<sent, socket, registered>>
    BY <1>1 DEF TakePacket, clientVars
  <2>2. /\ handled'[c] = handled[c] + 1 /\ \A d \in Sessions \ {c} : handled'[d] = handled[d]
    BY <1>0, <2>1 DEF LoadTypes
  <2>3. /\ UNCHANGED <<rooms, object>>
        /\ \A d \in Sessions \ {c} : pc'[d] = pc[d] /\ held'[d] = held[d]
    BY <1>1 DEF TakePacket, RecvEnter, RecvLeave, Hold, Goto, TypeOK, vars
  <2>4. ASSUME handled'[c] = Len(Scenario)
        PROVE  pc'[c] \in Leaving /\ LeavingOrOut(c)'
    <3>1. Scenario[handled[c] + 1] = "LEAVE_ROOM"
      BY <2>2, <2>4, ScenarioFacts
    <3>2. RecvLeave(c, MapOf(c))
      BY <1>1, <3>1 DEF TakePacket
    <3>3. /\ held'[c] = rooms[MapOf(c)]
          /\ pc'[c] = IF rooms[MapOf(c)] = NoRef THEN "idle" ELSE "leave"
      BY <3>2 DEF RecvLeave, Found, Hold, Goto, TypeOK
    <3> QED
      BY <2>3, <3>3, MapsAreRoomIds, ConstantsAssumption DEF LeavingOrOut, OutOf, Leaving
  <2>5. ASSUME NEW d \in Sessions \ {c}
        PROVE  Idle(d)' <=> Idle(d)
    BY <2>3 DEF Idle
  <2>6. ASSUME NEW d \in Sessions \ {c}
        PROVE  LeavingOrOut(d)' <=> LeavingOrOut(d)
    BY <2>3 DEF LeavingOrOut, OutOf
  <2> QED BY <1>0, <2>1, <2>2, <2>3, <2>4, <2>5, <2>6 DEF ServerInv
<1>2. ASSUME NEW c \in Sessions, HandleRest(c) PROVE ServerInv'
  <2>1. Handle(c) /\ UNCHANGED <<sent, socket, registered, handled>>
    BY <1>2 DEF HandleRest, clientVars, serverVars
  <2>2. ~Idle(c)
    BY <2>1 DEF Handle, FindAgain, CreateMapRoom, Enter, EnterRefused, CreateRoom, Leave,
                CountPlayers, DestroyRoom, Return, Idle
  <2>3. ASSUME handled[c] = Len(Scenario)
        PROVE  pc'[c] \in Leaving /\ LeavingOrOut(c)'
    BY <2>1, <2>3, LeaverGetsOut, MapsAreRoomIds DEF ServerInv, LeavingOrOut
  <2>4. ASSUME NEW d \in Sessions \ {c}
        PROVE  /\ Idle(d)' <=> Idle(d)
               /\ pc'[d] = pc[d]
               /\ LeavingOrOut(d) => LeavingOrOut(d)'
    <3>1. /\ OutOf(d, MapOf(d)) => OutOf(d, MapOf(d))'
          /\ rooms'[MapOf(d)] = rooms[MapOf(d)] \/ OutOf(d, MapOf(d))'
          /\ pc'[d] = pc[d] /\ held'[d] = held[d]
      BY <2>1, OthersKeepOut, MapsAreRoomIds
    <3> QED BY <3>1 DEF LeavingOrOut, Idle
  <2> QED BY <2>1, <2>2, <2>3, <2>4 DEF ServerInv
<1>3. ASSUME NEW c \in Sessions, RemoveSession(c) PROVE ServerInv'
  <2>1. /\ Idle(c) /\ socket[c] = "closed" /\ handled[c] = sent[c]
        /\ registered' = registered \ {c}
        /\ UNCHANGED <<rooms, object, pc, held, sent, socket, handled>>
    BY <1>3 DEF RemoveSession, Drained, vars, clientVars
  <2> QED BY <2>1 DEF ServerInv, LeavingOrOut, OutOf, Idle
<1>4. CASE UNCHANGED loadVars
  <2>1. UNCHANGED <<rooms, object, pc, held, sent, socket, registered, handled>>
    BY <1>4 DEF loadVars, vars, clientVars, serverVars
  <2> QED BY <2>1 DEF ServerInv, LeavingOrOut, OutOf, Idle
<1> QED BY <1>1, <1>2, <1>3, <1>4, ClientStep DEF LoadNext

LEMMA ServerInvariant == LoadSpec => []ServerInv
<1>1. LoadInit => ServerInv
  <2> SUFFICES ASSUME LoadInit PROVE ServerInv
    OBVIOUS
  <2> QED BY ScenarioFacts DEF LoadInit, ServerInv
<1>2. Spec => []RoomsInv
  BY TypeInductive, PTL DEF Spec, RoomsInv
<1> QED BY <1>1, <1>2, UsesRooms, StepServer, BarrierInvariant, ClientInvariant, PTL DEF LoadSpec

\* A session that is gone holds a seat in its map's room only if its LEAVE was
\* never sent, for any number of clients, threads, maps and seats.
THEOREM SeatsGivenBack == LoadSpec => []SeatsOfTheGone
<1>1. RoomsInv /\ BarrierInv /\ ClientInv /\ ServerInv => SeatsOfTheGone
  <2> SUFFICES ASSUME RoomsInv, BarrierInv, ClientInv, ServerInv, NEW c \in Sessions,
                      socket[c] = "closed", c \notin registered,
                      rooms[MapOf(c)] # NoRef, c \in object[rooms[MapOf(c)]].players
               PROVE  sent[c] < Len(Scenario)
    BY DEF SeatsOfTheGone
  <2>1. rooms[MapOf(c)] \in Refs
    BY MapsAreRoomIds DEF RoomsInv, TypeOK
  <2>2. handled[c] # Len(Scenario)
    BY <2>1 DEF ServerInv, LeavingOrOut, OutOf, Idle
  <2>3. handled[c] = sent[c] /\ sent[c] \in Nat /\ sent[c] <= Len(Scenario)
    BY DEF ServerInv, ClientInv, BarrierInv, LoadTypes
  <2> QED BY <2>2, <2>3, ScenarioFacts
<1>2. Spec => []RoomsInv
  BY TypeInductive, PTL DEF Spec, RoomsInv
<1> QED BY <1>1, <1>2, UsesRooms, BarrierInvariant, ClientInvariant, ServerInvariant, PTL
=============================================================================
