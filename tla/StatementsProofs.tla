-------------------------- MODULE StatementsProofs --------------------------
(***************************************************************************)
(* The connection pool for any number of threads and connections: no       *)
(* connection is shared or lost, and no wake-up is.  Then the insert       *)
(* packets, whose statements use the pool as DBPool says: what is shown of *)
(* the pool holds for them, and none is lost in silence.                   *)
(***************************************************************************)
EXTENDS Statements, FiniteSetTheorems, SequenceTheorems, TLAPS

(* The pool *)

\* pop_back leaves the other elements where they were.
LEMMA PopBack ==
    ASSUME NEW S, NEW q \in Seq(S), q # <<>>
    PROVE  /\ SubSeq(q, 1, Len(q) - 1) \in Seq(S)
           /\ Len(SubSeq(q, 1, Len(q) - 1)) = Len(q) - 1
           /\ \A i \in 1 .. Len(q) - 1 : SubSeq(q, 1, Len(q) - 1)[i] = q[i]
           /\ Len(q) \in 1 .. Len(q)
           /\ q[Len(q)] \in S
  <1>1. Len(q) \in Nat \ {0}
    BY EmptySeq
  <1> DEFINE n == Len(q) - 1
  <1>2. n \in Nat /\ \A i \in 1 .. n : q[i] \in S
    BY <1>1, ElementOfSeq
  <1> HIDE DEF n
  <1>3. /\ SubSeq(q, 1, n) \in Seq(S)
        /\ Len(SubSeq(q, 1, n)) = n
        /\ \A i \in 1 .. n : SubSeq(q, 1, n)[i] = q[i]
    BY <1>2, SubSeqProperties
  <1> USE DEF n
  <1> QED
    BY <1>1, <1>3, ElementOfSeq

\* The types.
LEMMA TypeInductive ==
    /\ Init => TypeOK /\ Conserved
    /\ TypeOK /\ Conserved /\ [Next]_vars => TypeOK'
  <1> USE PoolAssumption
  <1>1. Init => TypeOK /\ Conserved
    <2> SUFFICES ASSUME Init PROVE TypeOK /\ Conserved
      OBVIOUS
    <2>1. pool \in Seq(Connections) /\ Len(pool) = 0
      BY EmptySeq DEF Init
    <2>2. \A t \in Threads : conn[t] = NoConn /\ pc[t] = "idle"
      BY DEF Init
    <2>3. TypeOK
      BY <2>1, EmptySeq DEF Init, TypeOK, Labels
    <2>4. Absent = Connections
      BY DEF Init, Absent
    <2>5. Unshared
      BY <2>1, <2>2, <2>4 DEF Unshared, Pooled, Holders
    <2> QED
      BY <2>2, <2>3, <2>5 DEF Conserved
  <1>2. TypeOK /\ Conserved /\ [Next]_vars => TypeOK'
    <2> SUFFICES ASSUME TypeOK, Conserved, [Next]_vars
                 PROVE  TypeOK'
      OBVIOUS
    <2>1. ASSUME NEW t \in Threads, Get(t)
          PROVE  TypeOK'
      BY <2>1, PopBack
      DEF Get, Available, Take, Goto, Disturb, initVars, openVars, TypeOK, Labels
    <2>2. ASSUME NEW t \in Threads,
                 Wait(t) \/ SpuriousWakeUp(t) \/ Deadline(t) \/ GiveUp(t)
          PROVE  TypeOK'
      BY <2>2
      DEF Wait, SpuriousWakeUp, Deadline, GiveUp, Goto, WakesFrom, initVars,
          openVars, TypeOK, Labels
    <2>3. ASSUME NEW t \in Threads, Return(t)
          PROVE  TypeOK'
      <3>1. conn[t] \in Connections
        BY <2>3 DEF Return, Conserved, TypeOK
      <3> QED
        BY <2>3, <3>1, AppendProperties
        DEF Return, PutBack, Goto, Disturb, initVars, openVars, TypeOK, Labels
    <2>4. ASSUME NEW t \in Threads, NotifyOne(t)
          PROVE  TypeOK'
      BY <2>4 DEF NotifyOne, Goto, WakesFrom, initVars, openVars, TypeOK, Labels
    <2>5. CASE Open
      BY <2>5 DEF Open, TypeOK
    <2>6. CASE OpenFails
      BY <2>6 DEF OpenFails, TypeOK
    <2>7. CASE Push
      <3>1. opening \in Connections
        BY <2>7 DEF Push, TypeOK
      <3>2. /\ Append(pool, opening) \in Seq(Connections)
            /\ Append(seen, opening) \in Seq(Connections)
        BY <3>1, AppendProperties DEF TypeOK
      <3>3. pool' \in Seq(Connections)
        BY <2>7, <3>2 DEF Push, TypeOK
      <3>4. seen' \in Seq(Connections)
        BY <2>7, EmptySeq DEF Push
      <3> QED
        BY <2>7, <3>3, <3>4 DEF Push, TypeOK
    <2>8. CASE UNCHANGED vars
      BY <2>8 DEF vars, initVars, openVars, TypeOK
    <2> QED
      BY <2>1, <2>2, <2>3, <2>4, <2>5, <2>6, <2>7, <2>8 DEF Next, Fill
  <1> QED
    BY <1>1, <1>2

\* Taking and putting back move a connection between the pool and its user.
LEMMA UnsharedInductive ==
    ASSUME TypeOK, Conserved, Unshared, NEW t \in Threads, Get(t) \/ Return(t)
    PROVE  Unshared'
  <1> USE PoolAssumption
  <1>0. Absent' = Absent
    BY DEF Get, Return, Absent, initVars, openVars
  <1>1. CASE Get(t)
    <2>0. pool[Len(pool)] \in Connections
      BY <1>1, PopBack DEF Get, Available, TypeOK
    <2> PICK c \in Connections : c = pool[Len(pool)]
      BY <2>0
    <2>1. /\ Len(pool) \in 1 .. Len(pool)
          /\ Len(pool') = Len(pool) - 1
          /\ Len(pool) \in Nat
          /\ \A i \in 1 .. Len(pool') : pool'[i] = pool[i]
      BY <1>1, PopBack, LenProperties DEF Get, Available, Take, TypeOK
    <2>2. /\ conn' = [conn EXCEPT ![t] = c]
          /\ pc[t] # "using"
      BY <1>1 DEF Get, Take
    <2>3. conn[t] = NoConn
      BY <2>2 DEF Conserved
    <2>4. Pooled(c) /\ c \notin Absent
      BY <2>1 DEF Pooled, Unshared
    <2>5. \A u \in Threads : conn[u] # c
      BY <2>1, <2>4 DEF Unshared, Holders
    <2>6. ~Pooled(c)'
      BY <2>1 DEF Pooled, Unshared
    <2>7. \A d : d # c => (Pooled(d)' <=> Pooled(d))
      BY <2>1 DEF Pooled
    <2>8. Holders(c)' = {t}
      BY <2>2, <2>5 DEF Holders, TypeOK
    <2>9. \A d : d # c /\ d # NoConn => Holders(d)' = Holders(d)
      BY <2>2, <2>3 DEF Holders, TypeOK
    <2>10. \A d \in Connections \ Absent : (Pooled(d) <=> Holders(d) = {})'
      BY <2>6, <2>7, <2>8, <2>9 DEF Unshared
    <2>11. \A d \in Absent : ~Pooled(d)' /\ Holders(d)' = {}
      BY <2>4, <2>7, <2>9 DEF Unshared, Absent, TypeOK
    <2>12. \A i, j \in 1 .. Len(pool') : pool'[i] = pool'[j] => i = j
      BY <2>1 DEF Unshared
    <2>13. \A u, v \in Threads : conn'[u] = conn'[v] /\ conn'[u] # NoConn => u = v
      BY <2>2, <2>5 DEF Unshared, TypeOK
    <2> QED
      BY <1>0, <2>10, <2>11, <2>12, <2>13 DEF Unshared
  <1>2. CASE Return(t)
    <2>0. conn[t] \in Connections
      BY <1>2 DEF Return, Conserved, TypeOK
    <2> PICK c \in Connections : c = conn[t]
      BY <2>0
    <2>2. /\ Len(pool) \in Nat
          /\ Len(pool') = Len(pool) + 1
          /\ pool'[Len(pool) + 1] = c
          /\ \A i \in 1 .. Len(pool) : pool'[i] = pool[i]
      BY <1>2, AppendProperties, LenProperties DEF Return, PutBack, TypeOK
    <2>3. conn' = [conn EXCEPT ![t] = NoConn]
      BY <1>2 DEF Return, PutBack
    <2>4. ~Pooled(c) /\ Holders(c) = {t} /\ c \notin Absent
      <3>1. t \in Holders(c)
        BY DEF Holders
      <3>2. \A u \in Holders(c) : u = t
        BY DEF Holders, Unshared
      <3> QED
        BY <3>1, <3>2 DEF Unshared
    <2>5. Pooled(c)' /\ \A d : d # c => (Pooled(d)' <=> Pooled(d))
      BY <2>2 DEF Pooled
    <2>6. /\ Holders(c)' = {}
          /\ \A d : d # c /\ d # NoConn => Holders(d)' = Holders(d)
      BY <2>3, <2>4 DEF Holders, TypeOK
    <2>7. \A i, j \in 1 .. Len(pool') : pool'[i] = pool'[j] => i = j
      BY <2>2, <2>4 DEF Unshared, Pooled
    <2>8. \A u, v \in Threads : conn'[u] = conn'[v] /\ conn'[u] # NoConn => u = v
      BY <2>3 DEF Unshared, TypeOK
    <2>9. \A d \in Connections \ Absent : (Pooled(d) <=> Holders(d) = {})'
      BY <2>5, <2>6 DEF Unshared
    <2>10. \A d \in Absent : ~Pooled(d)' /\ Holders(d)' = {}
      BY <2>4, <2>5, <2>6 DEF Unshared, Absent, TypeOK
    <2> QED
      BY <1>0, <2>7, <2>8, <2>9, <2>10 DEF Unshared
  <1> QED
    BY <1>1, <1>2

\* A connection is opened once.
OpensOnce == opening \notin unopened

LEMMA OpensOnceInductive ==
    /\ Init => OpensOnce
    /\ TypeOK /\ OpensOnce /\ [Next]_vars => OpensOnce'
  <1>1. Init => OpensOnce
    BY PoolAssumption DEF Init, OpensOnce
  <1>2. TypeOK /\ OpensOnce /\ [Next]_vars => OpensOnce'
    <2> SUFFICES ASSUME TypeOK, OpensOnce, [Next]_vars
                 PROVE  OpensOnce'
      OBVIOUS
    <2>1. CASE Open
      BY <2>1 DEF Open, OpensOnce
    <2>2. CASE OpenFails \/ Push
      BY <2>2, PoolAssumption DEF OpenFails, Push, OpensOnce, TypeOK
    <2>3. CASE UNCHANGED openVars
      BY <2>3 DEF openVars, OpensOnce
    <2> QED
      BY <2>1, <2>2, <2>3
      DEF Next, Fill, Get, Wait, SpuriousWakeUp, Deadline, GiveUp, Return,
          NotifyOne, initVars, vars
  <1> QED
    BY <1>1, <1>2

\* Init's push, without a race: the connection it opened is in the pool.
LEMMA PushUnshared ==
    ASSUME TypeOK, Unshared, OpensOnce, Push, ~raced
    PROVE  Unshared'
  <1> USE PoolAssumption
  <1> PICK c \in Connections : c = opening
    BY DEF Push, TypeOK
  <1>1. /\ Len(pool) \in Nat
        /\ Len(pool') = Len(pool) + 1
        /\ pool'[Len(pool) + 1] = c
        /\ \A i \in 1 .. Len(pool) : pool'[i] = pool[i]
    <2>1. pool \in Seq(Connections) /\ pool' = Append(pool, c)
      BY DEF Push, TypeOK
    <2> QED
      BY <2>1, AppendProperties, LenProperties
  <1>2. c \in Absent /\ Absent \subseteq Connections
    BY DEF Push, Absent, TypeOK
  <1>3. ~Pooled(c) /\ Holders(c) = {} /\ \A d : Holders(d)' = Holders(d)
    BY <1>2 DEF Push, Unshared, Holders
  <1>4. Pooled(c)' /\ \A d : d # c => (Pooled(d)' <=> Pooled(d))
    BY <1>1 DEF Pooled
  <1>5. Absent' \subseteq Absent /\ Absent \ {c} \subseteq Absent'
    BY DEF Push, Absent
  <1>6. \A i, j \in 1 .. Len(pool') : pool'[i] = pool'[j] => i = j
    BY <1>1, <1>3 DEF Unshared, Pooled
  <1>7. \A d \in Connections : (Pooled(d) <=> Holders(d) = {})' \/ d \in Absent \ {c}
    BY <1>3, <1>4 DEF Unshared
  <1>8. c \notin Absent'
    BY DEF Push, Absent, OpensOnce
  <1> QED
    BY <1>3, <1>4, <1>5, <1>6, <1>7, <1>8 DEF Unshared, Push

LEMMA ConservedInductive ==
    TypeOK /\ Conserved /\ OpensOnce /\ [Next]_vars => Conserved'
  <1> USE PoolAssumption
  <1> SUFFICES ASSUME TypeOK, Conserved, OpensOnce, [Next]_vars
               PROVE  Conserved'
    OBVIOUS
  <1>1. ASSUME NEW t \in Threads, Get(t) \/ Return(t)
        PROVE  Conserved'
    <2>1. \A u \in Threads : conn'[u] # NoConn <=> pc'[u] = "using"
      <3>1. Get(t) => pool[Len(pool)] \in Connections
        BY PopBack DEF Get, Available, TypeOK
      <3> QED
        BY <1>1, <3>1
        DEF Get, Take, Return, PutBack, Goto, Conserved, TypeOK
    <2>2. ~raced' => ~raced
      BY <1>1 DEF Get, Return, Disturb
    <2> QED
      BY <1>1, <2>1, <2>2, UnsharedInductive DEF Conserved
  <1>2. ASSUME UNCHANGED <<pool, conn, openVars, raced>>,
               \A t \in Threads : pc'[t] = "using" <=> pc[t] = "using"
        PROVE  Conserved'
    BY <1>2 DEF Conserved, Unshared, Pooled, Holders, Absent, openVars
  <1>3. ASSUME NEW t \in Threads,
               Wait(t) \/ SpuriousWakeUp(t) \/ Deadline(t) \/ GiveUp(t)
        PROVE  Conserved'
    BY <1>2, <1>3 DEF Wait, SpuriousWakeUp, Deadline, GiveUp, Goto, initVars, TypeOK
  <1>4. ASSUME NEW t \in Threads, NotifyOne(t)
        PROVE  Conserved'
    BY <1>2, <1>4 DEF NotifyOne, Goto, Waiting, TypeOK
  <1>5. CASE Open \/ OpenFails
    <2>1. UNCHANGED <<pool, pc, conn, raced>>
      BY <1>5 DEF Open, OpenFails
    <2>2. Absent' = Absent
      <3>1. CASE Open
        <4>1. opening' \in unopened
          BY <3>1 DEF Open
        <4> QED
          BY <3>1, <4>1 DEF Open, Absent, TypeOK
      <3> QED
        BY <1>5, <3>1 DEF OpenFails, Absent
    <2> QED
      BY <2>1, <2>2 DEF Conserved, Unshared, Pooled, Holders
  <1>6. CASE Push
    BY <1>6, PushUnshared DEF Push, Conserved
  <1>7. CASE UNCHANGED vars
    BY <1>2, <1>7 DEF vars, initVars
  <1> QED
    BY <1>1, <1>3, <1>4, <1>5, <1>6, <1>7 DEF Next, Fill

LEMMA PoolInvariant == Spec => [](TypeOK /\ Conserved /\ OpensOnce)
  <1> QED
    BY TypeInductive, ConservedInductive, OpensOnceInductive, PTL DEF Spec

\* The types of the pool.
THEOREM TypeCorrect == Spec => []TypeOK
  <1> QED
    BY PoolInvariant, PTL

\* A connection Init pushed is in the pool or with one thread, unless a region
\* ran in the middle of a push.
THEOREM ConnectionsConserved == Spec => []Conserved
  <1> QED
    BY PoolInvariant, PTL

-----------------------------------------------------------------------------
\* Exchanging an element of a finite set for another keeps its size.
LEMMA Swapped ==
    ASSUME NEW S, IsFiniteSet(S), NEW a \in S, NEW b, b \notin S
    PROVE  Cardinality((S \ {a}) \cup {b}) = Cardinality(S)
  <1> DEFINE R == S \ {a}
  <1>1. /\ IsFiniteSet(R) /\ Cardinality(R) = Cardinality(S) - 1
        /\ Cardinality(S) \in Nat
    BY FS_RemoveElement, FS_CardinalityType
  <1>2. b \notin R
    OBVIOUS
  <1> HIDE DEF R
  <1>3. Cardinality(R \cup {b}) = Cardinality(R) + 1
    BY <1>1, <1>2, FS_AddElement
  <1> QED
    BY <1>1, <1>3 DEF R

\* Every connection put back brings a notification, and a woken thread takes a
\* connection before it stops counting: no waiter is forgotten while there is
\* something to take, but for what Init pushes past it.
THEOREM NoWakeUpLost == Spec => []NoLostWakeUp
  <1> USE PoolAssumption
  <1>1. Init => NoLostWakeUp
    BY DEF Init, NoLostWakeUp, Waiting
  <1> USE DEF initVars, openVars, WakesFrom
  <1>2. TypeOK /\ NoLostWakeUp /\ [Next]_vars => NoLostWakeUp'
    <2> SUFFICES ASSUME TypeOK, NoLostWakeUp, [Next]_vars
                 PROVE  NoLostWakeUp'
      OBVIOUS
    <2>1. /\ IsFiniteSet(OnTheWay) /\ Cardinality(OnTheWay) \in Nat
          /\ Len(pool) \in Nat /\ quiet \in Nat
      BY FS_Subset, FS_CardinalityType, LenProperties
      DEF OnTheWay, PoolAssumption, TypeOK
    <2>2. ASSUME NEW t \in Threads, Get(t)
          PROVE  NoLostWakeUp'
      <3>1. Len(pool') = Len(pool) - 1
        BY <2>2, PopBack DEF Get, Available, Take, TypeOK
      <3>2. Waiting' = Waiting
        BY <2>2 DEF Get, Goto, Waiting, TypeOK
      <3>5. (~raced' => ~raced) /\ quiet' = quiet
        BY <2>2 DEF Get, Disturb
      <3>3. OnTheWay' = OnTheWay \ {t}
        BY <2>2 DEF Get, Goto, OnTheWay, TypeOK
      <3>4. Cardinality(OnTheWay') \in {Cardinality(OnTheWay), Cardinality(OnTheWay) - 1}
        BY <2>1, <3>3, FS_RemoveElement
      <3> QED
        BY <2>1, <3>1, <3>2, <3>4, <3>5 DEF NoLostWakeUp
    <2>3. ASSUME NEW t \in Threads, Wait(t)
          PROVE  NoLostWakeUp'
      <3>1. Len(pool') = 0
        BY <2>3, EmptySeq DEF Wait, Available
      <3>2. IsFiniteSet(OnTheWay') /\ Cardinality(OnTheWay') \in Nat
        BY FS_Subset, FS_CardinalityType DEF OnTheWay, PoolAssumption
      <3> QED
        BY <2>1, <2>3, <3>1, <3>2 DEF Wait, NoLostWakeUp
    <2>4. ASSUME NEW t \in Threads, SpuriousWakeUp(t)
          PROVE  NoLostWakeUp'
      <3>1. OnTheWay' = OnTheWay \cup {t} /\ Waiting # {}
        BY <2>4 DEF SpuriousWakeUp, Goto, OnTheWay, Waiting, TypeOK
      <3>2. Cardinality(OnTheWay') \in {Cardinality(OnTheWay), Cardinality(OnTheWay) + 1}
        BY <2>1, <3>1, FS_AddElement
      <3> QED
        BY <2>1, <2>4, <3>1, <3>2 DEF SpuriousWakeUp, NoLostWakeUp
    <2>5. ASSUME NEW t \in Threads, Deadline(t) \/ GiveUp(t)
          PROVE  NoLostWakeUp'
      <3>1. /\ OnTheWay' = OnTheWay /\ Waiting' \subseteq Waiting
            /\ Waiting' # {} => quiet' = quiet
        BY <2>5 DEF Deadline, GiveUp, Goto, OnTheWay, Waiting, TypeOK
      <3> QED
        BY <2>5, <3>1 DEF Deadline, GiveUp, NoLostWakeUp
    <2>6. ASSUME NEW t \in Threads, Return(t)
          PROVE  NoLostWakeUp'
      <3>1. Len(pool') = Len(pool) + 1
        BY <2>6, LenProperties DEF Return, PutBack, TypeOK
      <3>2. OnTheWay' = OnTheWay \cup {t} /\ t \notin OnTheWay /\ Waiting' = Waiting
        BY <2>6 DEF Return, Goto, OnTheWay, Waiting, TypeOK
      <3>3. Cardinality(OnTheWay') = Cardinality(OnTheWay) + 1
        BY <2>1, <3>2, FS_AddElement
      <3>4. (~raced' => ~raced) /\ quiet' = quiet
        BY <2>6 DEF Return, Disturb
      <3> QED
        BY <2>1, <3>1, <3>2, <3>3, <3>4 DEF NoLostWakeUp
    <2>7. ASSUME NEW t \in Threads, NotifyOne(t)
          PROVE  NoLostWakeUp'
      <3>1. CASE Waiting = {}
        BY <2>7, <3>1 DEF NotifyOne, Goto, Waiting, NoLostWakeUp, TypeOK
      <3>2. ASSUME NEW u \in Waiting, pc' = [pc EXCEPT ![t] = "idle", ![u] = "awake"]
            PROVE  NoLostWakeUp'
        <4>1. /\ OnTheWay' = (OnTheWay \ {t}) \cup {u}
              /\ t \in OnTheWay /\ u \notin OnTheWay
          BY <2>7, <3>2 DEF NotifyOne, OnTheWay, Waiting, TypeOK
        <4>2. Cardinality(OnTheWay') = Cardinality(OnTheWay)
          BY <2>1, <4>1, Swapped
        <4> QED
          BY <2>7, <3>2, <4>2 DEF NotifyOne, NoLostWakeUp
      <3> QED
        BY <2>7, <3>1, <3>2 DEF NotifyOne
    <2>8. CASE Open \/ OpenFails
      BY <2>8 DEF Open, OpenFails, NoLostWakeUp, Waiting, OnTheWay
    <2>9. CASE Push
      <3>1. ~raced => Len(pool') = Len(pool) + 1
        <4>1. opening \in Connections
          BY <2>9 DEF Push, TypeOK
        <4> QED
          BY <2>9, <4>1, AppendProperties DEF Push, TypeOK
      <3>2. /\ Waiting' = Waiting /\ OnTheWay' = OnTheWay /\ raced' = raced
            /\ ~raced /\ Waiting # {} => quiet' = quiet + 1
        BY <2>9 DEF Push, Waiting, OnTheWay
      <3> QED
        BY <2>1, <3>1, <3>2 DEF NoLostWakeUp
    <2>10. CASE UNCHANGED vars
      BY <2>10 DEF vars, NoLostWakeUp, Waiting, OnTheWay
    <2> QED
      BY <2>2, <2>3, <2>4, <2>5, <2>6, <2>7, <2>8, <2>9, <2>10 DEF Next, Fill
  <1> QED
    BY <1>1, <1>2, PoolInvariant, PTL DEF Spec

-----------------------------------------------------------------------------
(* The insert packets *)

\* A step of a thread is a step of the pool or leaves it alone.
THEOREM UsesPool == StatementsSpec => Spec
  <1>1. StatementsInit => Init
    BY DEF StatementsInit
  <1>2. [StatementsNext]_allVars => [Next]_vars
    <2> SUFFICES ASSUME [StatementsNext]_allVars PROVE [Next]_vars
      OBVIOUS
    <2>1. ASSUME NEW t \in Threads, NEW p \in Packets, Handle(t, p)
          PROVE  Next
      BY <2>1 DEF Handle, Next
    <2>2. ASSUME NEW t \in Threads, Advance(t)
          PROVE  [Next]_vars
      BY <2>2 DEF Advance, LookAgain, NoConnection, Execute, Fail,
                  BreakUnder, GiveBack, NotifyAndFinish, Next
    <2>3. ASSUME NEW t \in Threads, WhileWaiting(t)
          PROVE  Next
      BY <2>3 DEF WhileWaiting, Next
    <2>4. CASE FlushRow
      BY <2>4, StatementsAssumption DEF FlushRow, Next
    <2>5. CASE Fill
      BY <2>5 DEF Next
    <2>6. CASE UNCHANGED allVars
      BY <2>6 DEF allVars
    <2> QED
      BY <2>1, <2>2, <2>3, <2>4, <2>5, <2>6 DEF StatementsNext
  <1> QED
    BY <1>1, <1>2, PTL DEF StatementsSpec, Spec

\* Handlers share no connection and lose none, whatever fails.
THEOREM HandlersShareNone == StatementsSpec => []Conserved
  <1> QED
    BY UsesPool, ConnectionsConserved, PTL

\* No handler sleeps beside a free connection, whatever fails.
THEOREM HandlersAreWoken == StatementsSpec => []NoLostWakeUp
  <1> QED
    BY UsesPool, NoWakeUpLost, PTL

-----------------------------------------------------------------------------
\* Where a thread's answer and packet stand.
InOrder ==
    \A t \in Threads :
        /\ pc[t] = "idle" <=> job[t] = NoPacket
        /\ pc[t] = "using" => job[t] \in Packets \cup {Update}
        /\ pc[t] = "notify" <=> answer[t] # "none" /\ pc[t] # "using"
        /\ job[t] \in Packets => job[t] \notin done
        /\ \A u \in Threads : job[t] \in Packets /\ job[u] = job[t] => u = t

\* A packet's row, its answer and its report agree.
Agreeing ==
    /\ reported \subseteq done
    /\ done \subseteq stored \cup reported
    /\ \A p \in stored : p \in done \/ \E t \in Threads : job[t] = p /\ answer[t] # "none"
    /\ \A t \in Threads : job[t] \in Packets /\ answer[t] = "ok" => job[t] \in stored

\* Packets whose row is in and whose failure is, or will be, reported.
Ambiguous ==
    { p \in stored : p \in reported
                     \/ \E t \in Threads : job[t] = p /\ answer[t] = "failed" }
Broken  == Connections \ usable
Bounded == Cardinality(Ambiguous) <= Cardinality(Broken)

StatementsInv == StatementsTypeOK /\ InOrder /\ Agreeing /\ Bounded

\* What a step of the pool does to the threads' places.
LEMMA Places ==
    ASSUME TypeOK, NEW t \in Threads
    PROVE  /\ Get(t) => /\ pc[t] \in {"idle", "awake", "late"}
                        /\ pc' = [pc EXCEPT ![t] = "using"]
           /\ Wait(t) => /\ pc[t] \in {"idle", "awake"}
                         /\ pc' = [pc EXCEPT ![t] = "waiting"]
           /\ SpuriousWakeUp(t) \/ Deadline(t) =>
                  /\ pc[t] = "waiting"
                  /\ \E l \in {"awake", "late"} : pc' = [pc EXCEPT ![t] = l]
           /\ GiveUp(t) => pc[t] = "late" /\ pc' = [pc EXCEPT ![t] = "idle"]
           /\ Return(t) => pc[t] = "using" /\ pc' = [pc EXCEPT ![t] = "notify"]
           /\ NotifyOne(t) =>
                  /\ pc[t] = "notify" /\ pc'[t] = "idle"
                  /\ pc' \in [Threads -> Labels]
                  /\ \A u \in Threads \ {t} :
                         pc'[u] = pc[u] \/ (pc[u] = "waiting" /\ pc'[u] = "awake")
  <1> USE DEF Goto
  <1>1. NotifyOne(t) =>
                  /\ pc[t] = "notify" /\ pc'[t] = "idle"
                  /\ pc' \in [Threads -> Labels]
                  /\ \A u \in Threads \ {t} :
                         pc'[u] = pc[u] \/ (pc[u] = "waiting" /\ pc'[u] = "awake")
    BY DEF NotifyOne, Waiting, TypeOK, Labels
  <1>2. SpuriousWakeUp(t) \/ Deadline(t) =>
                  /\ pc[t] = "waiting"
                  /\ \E l \in {"awake", "late"} : pc' = [pc EXCEPT ![t] = l]
    BY DEF SpuriousWakeUp, Deadline
  <1> QED
    BY <1>1, <1>2 DEF Get, Wait, GiveUp, Return

\* A thread that has no answer yet has inserted nothing.
LEMMA NotYetStored ==
    ASSUME InOrder, Agreeing, NEW t \in Threads, job[t] \in Packets, answer[t] = "none"
    PROVE  job[t] \notin stored
  BY DEF InOrder, Agreeing

\* A thread takes up a packet.
LEMMA TakenUp ==
    ASSUME StatementsInv, TypeOK', NEW t \in Threads, NEW p \in Packets \cup {Update},
           pc[t] = "idle", p \notin stored, p \notin InHand \/ p = Update,
           job' = [job EXCEPT ![t] = p], done' = done \ {p}, reported' = reported \ {p},
           Get(t) \/ Wait(t),
           UNCHANGED <<answer, usable, stored>>
    PROVE  StatementsInv'
  <1> USE StatementsAssumption
  <1>1. /\ answer[t] = "none" /\ job[t] = NoPacket
        /\ \E l \in {"using", "waiting"} : pc' = [pc EXCEPT ![t] = l]
    BY Places DEF StatementsInv, StatementsTypeOK, InOrder
  <1>2. StatementsTypeOK'
    BY DEF StatementsInv, StatementsTypeOK
  <1>3. InOrder'
    <2>1. \A u \in Threads : p # Update => job[u] # p
      BY DEF InHand
    <2>2. \A u \in Threads \ {t} : pc'[u] = pc[u] /\ job'[u] = job[u] /\ answer'[u] = answer[u]
      BY <1>1 DEF StatementsInv, StatementsTypeOK, TypeOK
    <2>3. pc'[t] \in {"using", "waiting"} /\ job'[t] = p /\ answer'[t] = "none"
      BY <1>1 DEF StatementsInv, StatementsTypeOK, TypeOK
    <2> QED
      BY <2>1, <2>2, <2>3 DEF StatementsInv, InOrder
  <1>4. Agreeing'
    BY <1>1 DEF StatementsInv, StatementsTypeOK, InOrder, Agreeing
  <1>5. Ambiguous' = Ambiguous /\ Broken' = Broken
    BY <1>1 DEF StatementsInv, StatementsTypeOK, Ambiguous, Broken
  <1> QED
    BY <1>2, <1>3, <1>4, <1>5 DEF StatementsInv, Bounded

\* Only places change, and not where the packets are.
LEMMA OnlyPlaces ==
    ASSUME StatementsInv, TypeOK', UNCHANGED tableVars,
           \A u \in Threads :
               /\ pc'[u] = "idle" <=> pc[u] = "idle"
               /\ pc'[u] = "notify" <=> answer[u] # "none" /\ pc'[u] # "using"
    PROVE  StatementsInv'
  <1>1. StatementsTypeOK'
    BY DEF StatementsInv, StatementsTypeOK, tableVars
  <1>2. InOrder'
    BY StatementsAssumption
    DEF StatementsInv, StatementsTypeOK, InOrder, tableVars
  <1>3. Agreeing'
    BY DEF StatementsInv, Agreeing, tableVars
  <1>4. Ambiguous' = Ambiguous /\ Broken' = Broken
    BY DEF Ambiguous, Broken, tableVars
  <1> QED
    BY <1>1, <1>2, <1>3, <1>4 DEF StatementsInv, Bounded

\* A thread is done with its packet and reports what its function said.
LEMMA Finished ==
    ASSUME StatementsInv, TypeOK', NEW t \in Threads, NEW said \in {"ok", "failed"},
           Finish(t, said),
           \/ GiveUp(t) /\ said = "failed"
           \/ NotifyOne(t) /\ said = answer[t]
    PROVE  StatementsInv'
  <1> USE StatementsAssumption
  <1>1. /\ pc'[t] = "idle" /\ pc[t] \in {"late", "notify"}
        /\ \A u \in Threads \ {t} :
               pc'[u] = pc[u] \/ (pc[u] = "waiting" /\ pc'[u] = "awake")
    BY Places DEF StatementsInv, StatementsTypeOK, TypeOK
  <1>2. /\ job[t] \in Packets \cup {Update}
        /\ answer[t] \in {"none", said}
        /\ said = "ok" => answer[t] = "ok"
    BY Places DEF StatementsInv, StatementsTypeOK, InOrder
  <1>3. StatementsTypeOK'
    BY <1>2 DEF StatementsInv, StatementsTypeOK, Finish
  <1>4. InOrder'
    <2>1. \A u \in Threads \ {t} : job'[u] = job[u] /\ answer'[u] = answer[u]
      BY DEF StatementsInv, StatementsTypeOK, Finish
    <2>2. /\ job'[t] = NoPacket /\ answer'[t] = "none"
          /\ \A u \in Threads \ {t} : job[u] \in Packets => job[u] \notin done'
      BY <1>2 DEF StatementsInv, StatementsTypeOK, InOrder, Finish
    <2> QED
      BY <1>1, <2>1, <2>2 DEF StatementsInv, InOrder
  <1>5. Agreeing'
    BY <1>2 DEF StatementsInv, StatementsTypeOK, InOrder, Agreeing, Finish
  <1>6. Ambiguous' = Ambiguous /\ Broken' = Broken
    BY <1>2 DEF StatementsInv, StatementsTypeOK, InOrder, Agreeing, Ambiguous, Broken, Finish
  <1> QED
    BY <1>3, <1>4, <1>5, <1>6 DEF StatementsInv, Bounded

\* The statement ends.
LEMMA Answered ==
    ASSUME StatementsInv, NEW t \in Threads, Ready(t),
           NEW said \in {"ok", "failed"}, answer' = [answer EXCEPT ![t] = said],
           UNCHANGED <<vars, job, reported, done>>,
           stored' = stored \/ stored' = stored \cup ({job[t]} \cap Packets),
           said = "ok" /\ job[t] \in Packets => job[t] \in stored',
           usable' \subseteq Connections
    PROVE  /\ StatementsTypeOK' /\ InOrder' /\ Agreeing'
           /\ stored' = stored \/ said = "ok" => Ambiguous' = Ambiguous
           /\ Ambiguous' \subseteq Ambiguous \cup ({job[t]} \cap Packets)
  <1> USE StatementsAssumption
  <1>1. StatementsTypeOK'
    BY DEF StatementsInv, StatementsTypeOK, TypeOK, vars, initVars, openVars
  <1>2. InOrder'
    BY DEF StatementsInv, StatementsTypeOK, InOrder, Ready, vars
  <1>3. Agreeing'
    BY DEF StatementsInv, StatementsTypeOK, InOrder, Agreeing, Ready
  <1>4. Ambiguous' \subseteq Ambiguous \cup ({job[t]} \cap Packets)
    BY DEF StatementsInv, StatementsTypeOK, Ambiguous
  <1>5. stored' = stored \/ said = "ok" => Ambiguous' = Ambiguous
    BY NotYetStored
    DEF StatementsInv, StatementsTypeOK, InOrder, Agreeing, Ambiguous, Ready
  <1> QED
    BY <1>1, <1>2, <1>3, <1>4, <1>5

\* A statement ends on a connection that works, or that broke.
LEMMA Executed ==
    ASSUME StatementsInv, Conserved, NEW t \in Threads,
           Execute(t) \/ Fail(t) \/ BreakUnder(t)
    PROVE  StatementsInv'
  <1> USE StatementsAssumption, PoolAssumption
  <1>1. /\ Ready(t)
        /\ Effect(job[t]) = stored \/ Effect(job[t]) = stored \cup ({job[t]} \cap Packets)
    BY DEF StatementsInv, StatementsTypeOK, InOrder, Ready,
           Execute, Fail, BreakUnder, Effect
  <1>2. /\ IsFiniteSet(Broken) /\ Cardinality(Broken) \in Nat
        /\ IsFiniteSet(Ambiguous) /\ Cardinality(Ambiguous) \in Nat
        /\ Cardinality(Ambiguous) <= Cardinality(Broken)
    BY FS_Subset, FS_CardinalityType
    DEF StatementsInv, StatementsTypeOK, Bounded, Ambiguous, Broken
  <1>3. CASE Execute(t)
    <2>1. /\ Outcome(job[t]) \in {"ok", "failed"}
          /\ Outcome(job[t]) = "ok" /\ job[t] \in Packets => job[t] \in Effect(job[t])
          /\ Effect(job[t]) = stored \/ Outcome(job[t]) = "ok"
      BY DEF Outcome, Effect
    <2>2. StatementsTypeOK' /\ InOrder' /\ Agreeing' /\ Ambiguous' = Ambiguous
      BY <1>1, <1>3, <2>1, Answered DEF Execute, StatementsInv, StatementsTypeOK
    <2>3. Broken' = Broken
      BY <1>3 DEF Execute, Broken
    <2> QED
      BY <2>2, <2>3 DEF StatementsInv, Bounded
  <1>4. CASE Fail(t)
    <2>1. StatementsTypeOK' /\ InOrder' /\ Agreeing' /\ Ambiguous' = Ambiguous
      BY <1>1, <1>4, Answered DEF Fail, StatementsInv, StatementsTypeOK
    <2>2. Broken \subseteq Broken' /\ IsFiniteSet(Broken')
      BY <1>4, FS_Subset DEF Fail, Broken
    <2>3. Cardinality(Broken) <= Cardinality(Broken')
      BY <2>2, FS_Subset
    <2>4. Cardinality(Broken') \in Nat
      BY <2>2, FS_CardinalityType
    <2> QED
      BY <1>2, <2>1, <2>3, <2>4 DEF StatementsInv, Bounded
  <1>5. CASE BreakUnder(t)
    <2>1. /\ StatementsTypeOK' /\ InOrder' /\ Agreeing'
          /\ Ambiguous' \subseteq Ambiguous \cup {job[t]}
      BY <1>1, <1>5, Answered DEF BreakUnder, StatementsInv, StatementsTypeOK
    <2>2. Cardinality(Ambiguous') <= Cardinality(Ambiguous) + 1
      <3>1. /\ IsFiniteSet(Ambiguous \cup {job[t]})
            /\ Cardinality(Ambiguous \cup {job[t]})
                 \in {Cardinality(Ambiguous), Cardinality(Ambiguous) + 1}
        BY <1>2, FS_AddElement
      <3>2. /\ Cardinality(Ambiguous') <= Cardinality(Ambiguous \cup {job[t]})
            /\ Cardinality(Ambiguous') \in Nat
        BY <2>1, <3>1, FS_Subset, FS_CardinalityType
      <3> QED
        BY <1>2, <3>1, <3>2
    <2>3. Cardinality(Broken') = Cardinality(Broken) + 1
      <3>1. conn[t] \in Connections /\ conn[t] \notin Broken
        BY <1>5 DEF BreakUnder, StatementsInv, StatementsTypeOK, Broken
      <3>2. Broken' = Broken \cup {conn[t]}
        BY <1>5, <3>1 DEF BreakUnder, Broken
      <3> QED
        BY <1>2, <3>1, <3>2, FS_AddElement
    <2>4. Cardinality(Ambiguous') \in Nat
      <3>1. IsFiniteSet(Ambiguous')
        BY <2>1, FS_Subset DEF StatementsTypeOK, Ambiguous
      <3> QED
        BY <3>1, FS_CardinalityType
    <2> QED
      BY <1>2, <2>1, <2>2, <2>3, <2>4 DEF StatementsInv, Bounded
  <1> QED
    BY <1>3, <1>4, <1>5

\* The invariant is inductive.
LEMMA StatementsInductive ==
    /\ StatementsInit /\ TypeOK => StatementsInv
    /\ StatementsInv /\ Conserved /\ TypeOK' /\ [StatementsNext]_allVars => StatementsInv'
  <1> USE StatementsAssumption, PoolAssumption
  <1>1. StatementsInit /\ TypeOK => StatementsInv
    <2> SUFFICES ASSUME StatementsInit, TypeOK PROVE StatementsInv
      OBVIOUS
    <2>1. StatementsTypeOK /\ InOrder /\ Agreeing
      BY DEF StatementsInit, Init, StatementsTypeOK, InOrder, Agreeing
    <2>2. Ambiguous = {} /\ Broken = {}
      BY DEF StatementsInit, Ambiguous, Broken
    <2> QED
      BY <2>1, <2>2, FS_EmptySet DEF StatementsInv, Bounded
  <1>2. ASSUME StatementsInv, Conserved, TypeOK', [StatementsNext]_allVars
        PROVE  StatementsInv'
    <2>0. TypeOK /\ InOrder
      BY <1>2 DEF StatementsInv, StatementsTypeOK
    <2>1. ASSUME NEW t \in Threads, NEW p \in Packets, Handle(t, p)
          PROVE  StatementsInv'
      BY <1>2, <2>1, TakenUp DEF Handle
    <2>2. CASE FlushRow
      BY <1>2, <2>2, TakenUp DEF FlushRow, StatementsInv, StatementsTypeOK
    <2>3. ASSUME NEW t \in Threads, LookAgain(t) \/ GiveBack(t) \/ WhileWaiting(t)
          PROVE  StatementsInv'
      <3>1. UNCHANGED tableVars
        BY <2>3 DEF LookAgain, GiveBack, WhileWaiting
      <3>2. \A u \in Threads :
               /\ pc'[u] = "idle" <=> pc[u] = "idle"
               /\ pc'[u] = "notify" <=> answer[u] # "none" /\ pc'[u] # "using"
        <4>1. CASE LookAgain(t)
          BY <2>0, <4>1, Places DEF LookAgain, TypeOK, InOrder
        <4>2. CASE GiveBack(t)
          BY <2>0, <4>2, Places DEF GiveBack, TypeOK, InOrder
        <4>3. CASE WhileWaiting(t)
          BY <2>0, <4>3, Places DEF WhileWaiting, TypeOK, InOrder
        <4> QED
          BY <2>3, <4>1, <4>2, <4>3
      <3> QED
        BY <1>2, <3>1, <3>2, OnlyPlaces
    <2>4. ASSUME NEW t \in Threads, NoConnection(t)
          PROVE  StatementsInv'
      BY <1>2, <2>4, Finished DEF NoConnection
    <2>5. ASSUME NEW t \in Threads, NotifyAndFinish(t)
          PROVE  StatementsInv'
      <3>1. answer[t] \in {"ok", "failed"}
        BY <1>2, <2>0, <2>5, Places
        DEF NotifyAndFinish, StatementsInv, StatementsTypeOK, InOrder
      <3> QED
        BY <1>2, <2>5, <3>1, Finished DEF NotifyAndFinish
    <2>6. ASSUME NEW t \in Threads, Execute(t) \/ Fail(t) \/ BreakUnder(t)
          PROVE  StatementsInv'
      BY <1>2, <2>6, Executed
    <2>7. CASE (Fill \/ UNCHANGED vars) /\ UNCHANGED tableVars
      <3>1. pc' = pc
        BY <2>7 DEF Fill, Open, OpenFails, Push, vars
      <3> QED
        BY <1>2, <2>0, <2>7, <3>1, OnlyPlaces DEF InOrder
    <2>8. CASE UNCHANGED allVars
      BY <2>7, <2>8 DEF allVars
    <2> QED
      BY <1>2, <2>1, <2>2, <2>3, <2>4, <2>5, <2>6, <2>7, <2>8
      DEF StatementsNext, Advance
  <1> QED
    BY <1>1, <1>2

LEMMA StatementsInvariant == StatementsSpec => []StatementsInv
  <1> QED
    BY UsesPool, TypeCorrect, ConnectionsConserved, StatementsInductive, PTL
    DEF StatementsSpec

\* The types of the statements' state.
THEOREM StatementsTypeCorrect == StatementsSpec => []StatementsTypeOK
  <1>1. StatementsInv => StatementsTypeOK
    BY DEF StatementsInv
  <1> QED
    BY <1>1, StatementsInvariant, PTL

\* A packet whose handler returned is in its table or in the log, and in both
\* at most once for every connection that broke.
THEOREM NothingInSilence == StatementsSpec => []StoredOrReported
  <1>1. StatementsInv => StoredOrReported
    <2> SUFFICES ASSUME StatementsInv PROVE StoredOrReported
      OBVIOUS
    <2>1. /\ IsFiniteSet(Ambiguous) /\ stored \cap reported \subseteq Ambiguous
          /\ IsFiniteSet(Broken)
      BY StatementsAssumption, PoolAssumption, FS_Subset
      DEF StatementsInv, StatementsTypeOK, Ambiguous, Broken
    <2>2. /\ Cardinality(stored \cap reported) <= Cardinality(Ambiguous)
          /\ Cardinality(stored \cap reported) \in Nat
          /\ Cardinality(Ambiguous) \in Nat /\ Cardinality(Broken) \in Nat
      BY <2>1, FS_Subset, FS_CardinalityType
    <2>3. Cardinality(Ambiguous) <= Cardinality(Broken)
      BY DEF StatementsInv, Bounded
    <2>4. Cardinality(stored \cap reported) <= Cardinality(Broken)
      BY <2>2, <2>3
    <2> QED
      BY <2>4 DEF StatementsInv, Agreeing, StoredOrReported, Broken
  <1> QED
    BY <1>1, StatementsInvariant, PTL
=============================================================================
