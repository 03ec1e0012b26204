--------------------------- MODULE StatSyncProofs ---------------------------
(***************************************************************************)
(* What the statistics path keeps for any characters, workers and          *)
(* requests, with every fault allowed: MySQL only moves forward and never  *)
(* past what was accepted, and no interleaving loses a stat.               *)
(***************************************************************************)
EXTENDS StatSync, TLAPS

\* A packet in the cache is the newest stat, and FlushAll never holds a stat
\* older than MySQL's.
Ordered ==
    /\ \A c \in Characters :
          /\ cache[c].format = "none" => cache[c] = Nothing
          /\ cache[c].format = "packet" => cache[c].version = latest[c]
          /\ mysql[c] <= latest[c]
    /\ fetched.character \in Characters =>
          /\ mysql[fetched.character] <= fetched.version
          /\ fetched.version <= latest[fetched.character]

\* Types and order, for every step and every fault.
LEMMA OrderedInductive ==
    /\ Init => TypeOK /\ Ordered
    /\ TypeOK /\ Ordered /\ [Next]_vars => (TypeOK /\ Ordered)'
  <1> USE ConstantsAssumption
  <1>1. Init => TypeOK /\ Ordered
    <2> SUFFICES ASSUME Init
                 PROVE  TypeOK /\ Ordered
      OBVIOUS
    <2>1. 0 \in Versions /\ 0 \in 0 .. MaxCrashes
      BY DEF Versions, ConstantsAssumption
    <2>2. /\ Nothing \in Values
          /\ NoRequest \in [at : {"idle", "select", "fill"},
                            character : Characters \cup {NoOne},
                            version : Versions]
          /\ NoStat \in [character : Characters \cup {NoOne}, version : Versions]
      BY <2>1 DEF Nothing, Values, NoRequest, NoStat
    <2>3. TypeOK
      BY <2>1, <2>2 DEF Init, TypeOK
    <2>4. Ordered
      BY DEF Init, Ordered, Nothing, NoStat, ConstantsAssumption
    <2> QED
      BY <2>3, <2>4
  <1> USE DEF NoFault, FaultCosts, JsonCosts, Stranded, excuses
  <1>2. TypeOK /\ Ordered /\ [Next]_vars => (TypeOK /\ Ordered)'
    <2> SUFFICES ASSUME TypeOK, Ordered, [Next]_vars
                 PROVE  (TypeOK /\ Ordered)'
      OBVIOUS
    <2>1. ASSUME NEW w \in Workers, NEW c \in Characters, SetStat(w, c)
          PROVE  (TypeOK /\ Ordered)'
      <3>1. latest[c] + 1 \in Versions
        BY <2>1 DEF SetStat, TypeOK, Versions, ConstantsAssumption
      <3>2. TypeOK'
        BY <2>1, <3>1 DEF SetStat, TypeOK, Values, Packet
      <3>3. \A b \in Characters : latest[b] <= latest'[b]
        BY <2>1 DEF SetStat, TypeOK, Versions
      <3>4. \A b \in Characters :
                /\ cache'[b].format = "none" => cache'[b] = Nothing
                /\ cache'[b].format = "packet" => cache'[b].version = latest'[b]
        BY <2>1, <3>1 DEF SetStat, TypeOK, Packet, Ordered
      <3>5. mysql' = mysql /\ fetched' = fetched
        BY <2>1 DEF SetStat
      <3> QED
        BY <3>2, <3>3, <3>4, <3>5 DEF Ordered, TypeOK, Versions
    <2>2. ASSUME NEW w \in Workers, MarkDirty(w)
          PROVE  (TypeOK /\ Ordered)'
      BY <2>2 DEF MarkDirty, Marked, TypeOK, Ordered
    <2>3. ASSUME PopDirty \/ ClearDirty \/ FlushDone \/ LoseRedis \/ TestRunning
          PROVE  (TypeOK /\ Ordered)'
      BY <2>3 DEF PopDirty, ClearDirty, FlushDone, LoseRedis, TestRunning,
                  NextRound, Cleared, TypeOK, Ordered
    <2>4. ASSUME NEW c \in Characters, ReadStat(c)
          PROVE  (TypeOK /\ Ordered)'
      <3>1. /\ Decode(c, cache[c]) \in
                  [character : Characters \cup {NoOne}, version : Versions]
            /\ Decode(c, cache[c]).character \in Characters =>
                  /\ mysql[Decode(c, cache[c]).character]
                        <= Decode(c, cache[c]).version
                  /\ Decode(c, cache[c]).version
                        <= latest[Decode(c, cache[c]).character]
        BY DEF Decode, NoStat, TypeOK, Ordered, Values, Versions,
               ConstantsAssumption
      <3> QED
        BY <2>4, <3>1 DEF ReadStat, TypeOK, Ordered
    <2>5. ASSUME NEW c \in Characters, SkipStat(c)
          PROVE  (TypeOK /\ Ordered)'
      BY <2>5 DEF SkipStat, TypeOK, Ordered
    <2>6. ASSUME UpdateStat
          PROVE  (TypeOK /\ Ordered)'
      <3>1. /\ mysql' \in [Characters -> Versions]
            /\ \A c \in Characters : mysql'[c] <= latest[c]
        BY <2>6 DEF UpdateStat, Updated, Matches, TypeOK, Ordered,
                    ConstantsAssumption
      <3>2. fetched' = NoStat /\ NoStat.character \notin Characters
        BY <2>6 DEF UpdateStat, NoStat, ConstantsAssumption
      <3> QED
        BY <2>6, <3>1, <3>2
        DEF UpdateStat, TypeOK, Ordered, NoStat, Versions,
            ConstantsAssumption
    <2>7. ASSUME NEW n \in NodeReaders, NEW c \in Characters,
                 NodeMiss(n, c)
          PROVE  (TypeOK /\ Ordered)'
      BY <2>7 DEF NodeMiss, TypeOK, Ordered, Versions, gameVars, process,
                  ConstantsAssumption
    <2>8. ASSUME NEW n \in NodeReaders, NodeSelect(n)
          PROVE  (TypeOK /\ Ordered)'
      BY <2>8 DEF NodeSelect, NoRequest, TypeOK, Ordered, Versions,
                  gameVars, process, ConstantsAssumption
    <2>9. ASSUME NEW n \in NodeReaders, NodeFill(n)
          PROVE  (TypeOK /\ Ordered)'
      <3> DEFINE json == Json(request[n].version)
      <3>1. json \in Values /\ json.format \notin {"packet", "none"}
        BY DEF Json, Values, TypeOK
      <3>2. NoRequest \in [at : {"idle", "select", "fill"},
                           character : Characters \cup {NoOne},
                           version : Versions]
        BY DEF NoRequest, Versions, ConstantsAssumption
      <3>3. cache' = [cache EXCEPT ![request[n].character] = json]
        BY <2>9 DEF NodeFill
      <3> HIDE DEF json
      <3>4. /\ cache' \in [Characters -> Values]
            /\ \A c \in Characters : cache'[c] \in {cache[c], json}
        BY <3>1, <3>3 DEF TypeOK
      <3>5. TypeOK'
        BY <2>9, <3>2, <3>4 DEF NodeFill, TypeOK, gameVars, process
      <3>6. UNCHANGED <<mysql, latest, fetched>>
        BY <2>9 DEF NodeFill, gameVars, process
      <3> QED
        BY <3>1, <3>4, <3>5, <3>6 DEF Ordered
    <2>10. ASSUME ProcessDies
           PROVE  (TypeOK /\ Ordered)'
      <3>1. crashes' \in 0 .. MaxCrashes
        BY <2>10 DEF ProcessDies, TypeOK, ConstantsAssumption
      <3> QED
        <4>1. NoStat \in [character : Characters \cup {NoOne}, version : Versions]
          BY DEF NoStat, Versions, ConstantsAssumption
        <4>2. TypeOK'
          BY <2>10, <3>1, <4>1 DEF ProcessDies, TypeOK
        <4>3. Ordered'
          BY <2>10 DEF ProcessDies, Ordered, NoStat, ConstantsAssumption
        <4> QED
          BY <4>2, <4>3
    <2>11. ASSUME NEW c \in Characters, Expire(c)
           PROVE  (TypeOK /\ Ordered)'
      BY <2>11 DEF Expire, Nothing, Values, TypeOK, Ordered, Versions, gameVars, process,
                   ConstantsAssumption
    <2>12. ASSUME ConnectRedis \/ Start \/ Stop
           PROVE  (TypeOK /\ Ordered)'
      BY <2>12 DEF ConnectRedis, Start, Stop, TypeOK, Ordered
    <2>13. CASE UNCHANGED vars
      BY <2>13 DEF vars, gameVars, process, TypeOK, Ordered
    <2> QED
      BY <2>1, <2>2, <2>3, <2>4, <2>5, <2>6, <2>7, <2>8, <2>9, <2>10, <2>11,
         <2>12, <2>13 DEF Next, Main, Flush, NodeStep, Crash, EarlyStat
  <1> QED
    BY <1>1, <1>2

\* The types of the statistics path.
THEOREM TypeCorrect == Spec => []TypeOK
  <1> QED
    BY OrderedInductive, PTL DEF Spec

-----------------------------------------------------------------------------
\* What a step of the program does to the two variables of the promise.
LEMMA StepMaps ==
    TypeOK /\ Ordered /\ [Next]_vars => [Promise!Next]_(Promise!vars)
  <1> USE ConstantsAssumption
  <1> SUFFICES ASSUME TypeOK, Ordered, [Next]_vars
               PROVE  Promise!Next \/ UNCHANGED <<latest, mysql>>
    BY DEF Promise!vars
  <1>1. ASSUME NEW w \in Workers, NEW c \in Characters, SetStat(w, c)
        PROVE  Promise!Accept(c)
    BY <1>1 DEF SetStat, Promise!Accept
  <1>2. ASSUME UpdateStat, mysql' # mysql
        PROVE  \E c \in Characters : Promise!Persist(c)
    <2> DEFINE c == fetched.character
    <2>1. /\ c \in Characters
          /\ mysql' = [mysql EXCEPT ![c] = fetched.version]
          /\ latest' = latest
      BY <1>2 DEF UpdateStat, Updated, Matches, ConstantsAssumption
    <2>2. fetched.version # mysql[c]
      BY <1>2, <2>1 DEF TypeOK
    <2>3. fetched.version \in (mysql[c] + 1) .. latest[c]
      <3>1. mysql[c] <= fetched.version /\ fetched.version <= latest[c]
        BY <2>1 DEF Ordered
      <3>2. mysql[c] \in Nat /\ latest[c] \in Nat /\ fetched.version \in Nat
        BY <2>1 DEF TypeOK, Versions
      <3> HIDE DEF c
      <3> QED
        BY <2>2, <3>1, <3>2
    <2> QED
      BY <2>1, <2>3 DEF Promise!Persist
  <1>3. CASE UNCHANGED <<latest, mysql>>
    BY <1>3
  <1> QED
    BY <1>1, <1>2, <1>3
    DEF Next, Main, Flush, NodeStep, ConnectRedis, Start, Stop, MarkDirty,
        TestRunning, PopDirty, ClearDirty, ReadStat, SkipStat, UpdateStat,
        FlushDone, NodeMiss, NodeSelect, NodeFill, LoseRedis, Crash, EarlyStat,
        ProcessDies, Expire, Promise!Next, vars

\* With every fault and every request of the node server allowed, the path
\* stays within the promise's safety part: MySQL moves one character at a
\* time, forward, and never past the newest accepted stat.
THEOREM Refines == Spec => KeepsPromise
  <1>1. Init => Promise!Init
    BY DEF Init, Promise!Init
  <1> QED
    BY <1>1, OrderedInductive, StepMaps, PTL DEF Spec, KeepsPromise, Promise!Spec

-----------------------------------------------------------------------------
\* The flusher holds a stat just while it updates, it has looked at every popped
\* id before it pops again, and what DEL clears was popped.
Flushing ==
    /\ flusher # "update" => fetched = NoStat
    /\ flusher \in {"off", "test", "wait", "ended"} => pending = {}
    /\ flusher = "clear" => dirty \subseteq pending
    /\ flusher = "clear" => \A w \in Workers : setting[w] = NoOne

\* m_lock keeps the SET and SADD of a worker out of the SMEMBERS and DEL of the
\* flusher.
LEMMA FlushingInductive ==
    /\ Init => Flushing
    /\ TypeOK /\ Flushing /\ [Next]_vars => Flushing'
  <1>1. Init => Flushing
    BY DEF Init, Flushing
  <1>2. TypeOK /\ Flushing /\ [Next]_vars => Flushing'
    <2> SUFFICES ASSUME TypeOK, Flushing, [Next]_vars
                 PROVE  Flushing'
      OBVIOUS
    <2>1. ASSUME Main \/ Stop \/ LoseRedis \/ Crash \/ EarlyStat
          PROVE  Flushing'
      BY <2>1 DEF Main, ConnectRedis, Start, Stop, LoseRedis, Crash, EarlyStat,
                  ProcessDies, Flushing
    <2>2. ASSUME NEW w \in Workers, NEW c \in Characters, SetStat(w, c)
          PROVE  Flushing'
      BY <2>2 DEF SetStat, LockFree, Flushing
    <2>3. ASSUME NEW w \in Workers, MarkDirty(w)
          PROVE  Flushing'
      BY <2>3 DEF MarkDirty, Flushing
    <2>4. ASSUME TestRunning \/ PopDirty \/ ClearDirty \/ UpdateStat \/ FlushDone
          PROVE  Flushing'
      BY <2>4 DEF TestRunning, NextRound, PopDirty, LockFree, ClearDirty,
                  UpdateStat, FlushDone, Flushing
    <2>5. ASSUME NEW c \in Characters, ReadStat(c) \/ SkipStat(c)
          PROVE  Flushing'
      BY <2>5 DEF ReadStat, SkipStat, Flushing
    <2>6. ASSUME UNCHANGED gameVars
          PROVE  Flushing'
      BY <2>6 DEF gameVars, process, Flushing
    <2> QED
      BY <2>1, <2>2, <2>3, <2>4, <2>5, <2>6
      DEF Next, Flush, NodeStep, NodeMiss, NodeSelect, NodeFill, Expire, vars
  <1> QED
    BY <1>1, <1>2

\* An accepted stat of a character with a row is in MySQL or on its way there,
\* unless a step that is a fault, or that reads JSON, cost it: with any number
\* of workers and requests no interleaving loses a stat.
THEOREM NothingLost == Spec => []NoLostUpdate
  <1> USE ConstantsAssumption
  <1> DEFINE Inv == TypeOK /\ Ordered /\ Flushing
  <1>1. Init => NoLostUpdate
    BY DEF Init, NoLostUpdate, Stranded, Behind
  <1>2. Inv /\ NoLostUpdate /\ [Next]_vars => NoLostUpdate'
    <2> SUFFICES ASSUME Inv, NoLostUpdate, [Next]_vars
                 PROVE  NoLostUpdate'
      OBVIOUS
    <2>1. ASSUME FaultCosts \/ JsonCosts
          PROVE  NoLostUpdate'
      BY <2>1 DEF FaultCosts, JsonCosts, NoLostUpdate
    <2>2. ASSUME NoFault, Stranded' \subseteq Stranded
          PROVE  NoLostUpdate'
      BY <2>2 DEF NoFault, excuses, NoLostUpdate
    <2>3. ASSUME NEW w \in Workers, NEW c \in Characters, SetStat(w, c)
          PROVE  NoLostUpdate'
      <3>1. setting'[w] = c /\ \A v \in Workers : setting[v] = NoOne
        BY <2>3 DEF SetStat, LockFree, TypeOK
      <3>2. c \notin Stranded'
        BY <3>1 DEF Stranded, OnItsWay
      <3>3. /\ \A b \in Characters \ {c} : latest'[b] = latest[b]
            /\ UNCHANGED <<mysql, dirty, pending, fetched>>
        BY <2>3 DEF SetStat, TypeOK
      <3>4. Stranded' \ {c} \subseteq Stranded
        BY <3>1, <3>3 DEF Stranded, Behind, OnItsWay, ConstantsAssumption
      <3> QED
        BY <2>3, <3>2, <3>4 DEF SetStat, NoLostUpdate
    <2>4. ASSUME NEW w \in Workers, MarkDirty(w)
          PROVE  NoLostUpdate'
      <3>1. CASE context = "up"
        <4>1. Stranded' \subseteq Stranded
          BY <2>4, <3>1
          DEF MarkDirty, Marked, Stranded, Behind, OnItsWay, TypeOK
        <4> QED
          BY <2>2, <2>4, <3>1, <4>1 DEF MarkDirty
      <3>2. CASE context # "up"
        BY <2>1, <2>4, <3>2 DEF MarkDirty
      <3> QED
        BY <3>1, <3>2
    <2>5. ASSUME PopDirty
          PROVE  NoLostUpdate'
      <3>1. pending = {} /\ pending' \in {dirty, pending}
        BY <2>5 DEF PopDirty, Flushing
      <3>2. Stranded' \subseteq Stranded
        BY <2>5, <3>1 DEF PopDirty, Stranded, Behind, OnItsWay
      <3> QED
        BY <2>2, <2>5, <3>2 DEF PopDirty
    <2>6. ASSUME ClearDirty
          PROVE  NoLostUpdate'
      <3>1. dirty \subseteq pending
        BY <2>6 DEF ClearDirty, Flushing
      <3>2. Stranded' \subseteq Stranded
        BY <2>6, <3>1 DEF ClearDirty, Stranded, Behind, OnItsWay
      <3> QED
        BY <2>2, <2>6, <3>2 DEF ClearDirty
    <2>7. ASSUME NEW c \in Characters, ReadStat(c)
          PROVE  NoLostUpdate'
      <3>1. CASE cache[c].format = "packet"
        <4>1. fetched' = [character |-> c, version |-> latest'[c]]
          BY <2>7, <3>1 DEF ReadStat, Decode, Ordered
        <4>2. fetched = NoStat
          BY <2>7 DEF ReadStat, Flushing
        <4>3. Stranded' \subseteq Stranded
          <5>1. c \notin Stranded'
            BY <4>1 DEF Stranded, OnItsWay
          <5>2. \A b \in Rows \ {c} : OnItsWay(b) => OnItsWay(b)'
            BY <2>7, <4>2 DEF ReadStat, OnItsWay, NoStat, ConstantsAssumption
          <5> QED
            BY <2>7, <5>1, <5>2 DEF ReadStat, Stranded, Behind
        <4> QED
          BY <2>2, <2>7, <3>1, <4>3 DEF ReadStat
      <3>2. CASE cache[c].format = "json"
        BY <2>1, <2>7, <3>2 DEF ReadStat
      <3>3. CASE cache[c].format = "none"
        BY <2>7, <3>3 DEF ReadStat, Ordered
      <3> QED
        BY <3>1, <3>2, <3>3 DEF TypeOK, Values
    <2>8. ASSUME NEW c \in Characters, SkipStat(c)
          PROVE  NoLostUpdate'
      BY <2>1, <2>8 DEF SkipStat
    <2>9. ASSUME UpdateStat
          PROVE  NoLostUpdate'
      <3>1. CASE FaultCosts
        BY <2>1, <3>1
      <3>2. CASE mysql' = Updated(fetched) /\ NoFault
        <4>1. ASSUME NEW c \in Rows, c \in Stranded'
              PROVE  c \in Stranded
          <5>1. CASE fetched.character = c
            <6>1. mysql'[c] = fetched.version
              BY <3>2, <5>1 DEF Updated, Matches, TypeOK, ConstantsAssumption
            <6>2. /\ mysql[c] <= fetched.version
                  /\ mysql[c] \in Nat /\ latest[c] \in Nat
                  /\ fetched.version \in Nat
              BY <5>1 DEF Ordered, TypeOK, Versions, ConstantsAssumption
            <6>3. mysql'[c] < latest[c]
              BY <2>9, <4>1 DEF UpdateStat, Stranded, Behind
            <6> QED
              BY <2>9, <4>1, <6>1, <6>2, <6>3
              DEF UpdateStat, Stranded, Behind, OnItsWay
          <5>2. CASE fetched.character # c
            <6>1. mysql'[c] = mysql[c]
              BY <3>2, <5>2 DEF Updated, Matches, TypeOK, ConstantsAssumption
            <6> QED
              BY <2>9, <4>1, <5>2, <6>1
              DEF UpdateStat, Stranded, Behind, OnItsWay
          <5> QED
            BY <5>1, <5>2
        <4> QED
          BY <2>2, <3>2, <4>1 DEF Stranded
      <3> QED
        BY <2>9, <3>1, <3>2 DEF UpdateStat
    <2>10. ASSUME ProcessDies
           PROVE  NoLostUpdate'
      BY <2>1, <2>10 DEF ProcessDies
    <2>11. ASSUME NoFault,
                  UNCHANGED <<mysql, latest, dirty, setting, pending, fetched>>
           PROVE  NoLostUpdate'
      <3>1. Stranded' = Stranded
        BY <2>11 DEF Stranded, Behind, OnItsWay
      <3> QED
        BY <2>2, <2>11, <3>1
    <2> QED
      BY <2>3, <2>4, <2>5, <2>6, <2>7, <2>8, <2>9, <2>10, <2>11
      DEF Next, Main, Flush, NodeStep, ConnectRedis, Start, Stop, TestRunning,
          FlushDone, NodeMiss, NodeSelect, NodeFill, LoseRedis, Crash,
          EarlyStat, Expire, NoFault, excuses, vars, gameVars, process
  <1> QED
    BY <1>1, <1>2, OrderedInductive, FlushingInductive, PTL DEF Spec
=============================================================================
