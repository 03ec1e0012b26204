------------------------------- MODULE DBPool -------------------------------
(***************************************************************************)
(* DBManager's pool of MySQL connections: Init, GetConnection and          *)
(* ReturnConnection (Dbmanager.cpp).  Statements has what happens between  *)
(* the last two.                                                           *)
(*                                                                         *)
(* The threads are the IOCP workers and SyncWorker's thread.  A region     *)
(* under m_poolLock is a step.  m_poolCondition is a wait set: waiting     *)
(* gives up the lock and joins it in one step; notify_one, called after    *)
(* the lock is released, moves one thread out of it; a wake-up or the end  *)
(* of the 5 seconds only makes a thread look again.                        *)
(*                                                                         *)
(* main calls Init when the workers already run (main.cpp:36, 44).  It     *)
(* takes no lock and notifies nobody, so its push_back is two steps: what  *)
(* it reads of the vector, and what it writes.  A region that runs in      *)
(* between is a data race.                                                 *)
(***************************************************************************)
EXTENDS Integers, Sequences, FiniteSets

CONSTANTS
    Threads,
    Connections,  \* those Init opens if none fails, CONNECTION_POOL_SIZE
    NoConn        \* nullptr

ASSUME PoolAssumption ==
    /\ IsFiniteSet(Threads)
    /\ IsFiniteSet(Connections)
    /\ NoConn \notin Connections

VARIABLES
    pool,      \* m_connectionPool
    pc,        \* where each thread is
    conn,      \* its connection
    filling,   \* Init is still running
    unopened,  \* connections it has not opened
    opening,   \* the connection its push_back is at
    seen,      \* the pool as that push_back read it
    quiet,     \* history: connections it pushed past threads that wait
    raced      \* history: a region ran in the middle of a push_back

openVars == <<filling, unopened, opening, seen>>
initVars == <<openVars, quiet>>
vars == <<pool, pc, conn, initVars, raced>>

-----------------------------------------------------------------------------
Goto(t, label) == pc' = [pc EXCEPT ![t] = label]

(* Mistakes the properties are tried against, each in place of the         *)
(* definition named.                                                       *)

\* Take: back() is handed out, the front removed
TakeFirst(t) ==
    /\ conn' = [conn EXCEPT ![t] = pool[Len(pool)]]
    /\ pool' = Tail(pool)
\* PutBack: the thread's pointer is cleared before it is pushed
PutBackNull(t) ==
    /\ pool' = Append(pool, NoConn)
    /\ conn' = [conn EXCEPT ![t] = NoConn]
\* NotifyOne: no notification
NotifyNobody(t) ==
    /\ pc[t] = "notify"
    /\ Goto(t, "idle")
    /\ UNCHANGED <<pool, conn, initVars, raced>>
\* Deadline: wait instead of wait_for
NoDeadline(t) == FALSE /\ UNCHANGED vars

-----------------------------------------------------------------------------
Available == pool # <<>>

\* back() and pop_back()
Take(t) ==
    /\ conn' = [conn EXCEPT ![t] = pool[Len(pool)]]
    /\ pool' = SubSeq(pool, 1, Len(pool) - 1)

PutBack(t) ==
    /\ pool' = Append(pool, conn[t])
    /\ conn' = [conn EXCEPT ![t] = NoConn]

Waiting == { t \in Threads : pc[t] = "waiting" }

\* The workers run; main calls DBManager::Init.
Init ==
    /\ pool = <<>>
    /\ pc = [t \in Threads |-> "idle"]
    /\ conn = [t \in Threads |-> NoConn]
    /\ filling = TRUE
    /\ unopened = Connections
    /\ opening = NoConn
    /\ seen = <<>>
    /\ quiet = 0
    /\ raced = FALSE

(* DBManager::Init *)

\* mysql_init and mysql_real_connect, and the first half of push_back
Open ==
    /\ filling /\ opening = NoConn
    /\ unopened # {}
    /\ opening' = CHOOSE c \in unopened : TRUE
    /\ unopened' = unopened \ {opening'}
    /\ seen' = pool
    /\ UNCHANGED <<pool, pc, conn, filling, quiet, raced>>

\* One of them fails: Init returns, and main goes on.
OpenFails ==
    /\ filling /\ opening = NoConn
    /\ filling' = FALSE
    /\ UNCHANGED <<pool, pc, conn, unopened, opening, seen, quiet, raced>>

\* The other half.  After a race either side's write may be the one that stays,
\* or the process ends, which is a behaviour that takes no more steps.
Push ==
    /\ opening # NoConn
    /\ pool' \in {Append(pool, opening)}
                  \cup (IF raced THEN {pool, Append(seen, opening)} ELSE {})
    /\ opening' = NoConn
    /\ seen' = <<>>
    /\ filling' = (unopened # {})
    /\ quiet' = IF raced \/ Waiting = {} THEN quiet ELSE quiet + 1
    /\ UNCHANGED <<pc, conn, unopened, raced>>

Fill == Open \/ OpenFails \/ Push

\* What a region that changes the pool does to a push_back that is not over.
Disturb == raced' = (raced \/ opening # NoConn)

(* GetConnection *)

\* The predicate holds at the first look, or after a wake-up or the deadline.
Get(t) ==
    /\ pc[t] \in {"idle", "awake", "late"}
    /\ Available
    /\ Take(t)
    /\ Goto(t, "using")
    /\ Disturb
    /\ UNCHANGED initVars

\* It does not, and there is time left: wait (again).
Wait(t) ==
    /\ pc[t] \in {"idle", "awake"}
    /\ ~Available
    /\ Goto(t, "waiting")
    /\ UNCHANGED <<pool, conn, initVars, raced>>

\* quiet counts for as long as somebody waits.
WakesFrom == quiet' = IF Waiting' = {} THEN 0 ELSE quiet

SpuriousWakeUp(t) ==
    /\ pc[t] = "waiting"
    /\ Goto(t, "awake")
    /\ WakesFrom
    /\ UNCHANGED <<pool, conn, openVars, raced>>

\* The 5 seconds are over.
Deadline(t) ==
    /\ pc[t] = "waiting"
    /\ Goto(t, "late")
    /\ WakesFrom
    /\ UNCHANGED <<pool, conn, openVars, raced>>

\* A late thread that finds nothing returns nullptr; its statement fails.
GiveUp(t) ==
    /\ pc[t] = "late"
    /\ ~Available
    /\ Goto(t, "idle")
    /\ UNCHANGED <<pool, conn, initVars, raced>>

(* ReturnConnection, after the statement *)

Return(t) ==
    /\ pc[t] = "using"
    /\ PutBack(t)
    /\ Goto(t, "notify")
    /\ Disturb
    /\ UNCHANGED initVars

\* notify_one wakes one of the threads that wait, if any does.
NotifyOne(t) ==
    /\ pc[t] = "notify"
    /\ \/ Waiting = {} /\ Goto(t, "idle")
       \/ \E u \in Waiting : pc' = [pc EXCEPT ![t] = "idle", ![u] = "awake"]
    /\ WakesFrom
    /\ UNCHANGED <<pool, conn, openVars, raced>>

Next ==
    \/ Fill
    \/ \E t \in Threads :
        \/ Get(t)
        \/ Wait(t)
        \/ SpuriousWakeUp(t)
        \/ Deadline(t)
        \/ GiveUp(t)
        \/ Return(t)
        \/ NotifyOne(t)

Spec == Init /\ [][Next]_vars

-----------------------------------------------------------------------------
Labels == {"idle", "waiting", "awake", "late", "using", "notify"}

\* The types.
TypeOK ==
    /\ pool \in Seq(Connections)
    /\ pc \in [Threads -> Labels]
    /\ conn \in [Threads -> Connections \cup {NoConn}]
    /\ filling \in BOOLEAN
    /\ unopened \subseteq Connections
    /\ opening \in Connections \cup {NoConn}
    /\ seen \in Seq(Connections)
    /\ quiet \in Nat
    /\ raced \in BOOLEAN

Pooled(c)  == \E i \in 1 .. Len(pool) : pool[i] = c
Holders(c) == { t \in Threads : conn[t] = c }

\* Connections Init has not pushed.
Absent == unopened \cup ({opening} \ {NoConn})

\* Each connection Init has pushed is in the pool, once, or with one thread,
\* which is using it: a MYSQL* is never used by two threads and never lost,
\* however the waits, wake-ups, deadlines, returns and Init's own pushes
\* interleave, unless a region and a push_back ran into each other.
Unshared ==
    /\ \A i, j \in 1 .. Len(pool) : pool[i] = pool[j] => i = j
    /\ \A c \in Absent : ~Pooled(c) /\ Holders(c) = {}
    /\ \A c \in Connections \ Absent : Pooled(c) <=> Holders(c) = {}
    /\ \A t, u \in Threads : conn[t] = conn[u] /\ conn[t] # NoConn => t = u
Conserved ==
    /\ \A t \in Threads : conn[t] # NoConn <=> pc[t] = "using"
    /\ ~raced => Unshared

\* While threads wait, every connection in the pool has a thread on its way
\* that will take it or tell a waiter: no wake-up is lost, but for the
\* connections Init pushes past threads that wait already.
OnTheWay == { t \in Threads : pc[t] \in {"awake", "notify"} }
NoLostWakeUp ==
    ~raced /\ Waiting # {} => Len(pool) <= Cardinality(OnTheWay) + quiet
=============================================================================
