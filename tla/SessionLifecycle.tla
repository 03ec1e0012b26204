-------------------------- MODULE SessionLifecycle --------------------------
(***************************************************************************)
(* From a connection in the listen backlog to the end of its Session:      *)
(* Acceptor::Init, OnAcceptCompleted and RegisterAccept, the worker loop   *)
(* of IocpCore, Session::PostRecv and the overlapped structures'           *)
(* keepAlive, and SessionManager.                                          *)
(*                                                                         *)
(* main starts the workers, then has Acceptor::Init post the accepts, and  *)
(* only then tells IocpCore of the Acceptor.  A worker that takes an       *)
(* accept before that calls through a null m_acceptor and the process      *)
(* dies.                                                                   *)
(*                                                                         *)
(* A worker takes one completion at a time and runs its handler to the     *)
(* end; what the handler calls on shared state is one step each.  What     *)
(* OnRecvCompleted does with the bytes is RecvPath, and the send queue is  *)
(* SendQueue; here a send is only outstanding or not.                      *)
(*                                                                         *)
(* A Session is named by its client.  It lives while some shared_ptr       *)
(* refers to it: SessionManager's, a worker's local, or a keepAlive, which *)
(* is a member of the Session itself.                                      *)
(***************************************************************************)
EXTENDS Naturals, FiniteSets, Sequences

CONSTANTS
    Clients,          \* connections, one each
    Workers,          \* IOCP worker threads
    PENDING_ACCEPTS,  \* Acceptor::PENDING_ACCEPTS
    NoClient          \* no client

ASSUME LifecycleAssumption ==
    /\ IsFiniteSet(Clients)
    /\ IsFiniteSet(Workers)
    /\ PENDING_ACCEPTS \in Nat \ {0}
    /\ NoClient \notin Clients

VARIABLES
    main,      \* where main is: "listen", "post" and "set" before its loop
    toPost,    \* accepts Acceptor::Init has still to post
    peer,      \* each client's side of the connection
    stage,     \* how far its accept is
    accepts,   \* AcceptEx calls outstanding
    recv,      \* WSARecv of each session
    send,      \* WSASend of each session; "busy": m_isSending, none outstanding
    keep,      \* which of a session's overlapped structures hold its keepAlive
    registry,  \* SessionManager::m_sessions
    worker,    \* where each worker is and the session its local refers to
    refused,   \* history: RegisterAccept calls that failed
    broken     \* history: sessions whose WSARecv failed at once or whose
               \* handler threw

failures == <<refused, broken>>
startup == <<main, toPost>>
vars == <<startup, peer, stage, accepts, recv, send, keep, registry, worker, failures>>

\* An operation is posted, then completed: with data, or with 0 bytes.
Outstanding == {"posted", "data", "zero"}

-----------------------------------------------------------------------------
(* Mistakes the properties are tried against, each in place of the         *)
(* definition named.                                                       *)

\* KeepAlive: the overlapped structure does not hold the session
NoKeepAlive(c, io) == UNCHANGED keep
\* AcceptOrder: the first recv is posted before the session is registered
PostThenAdd == <<"post", "add", "refill">>
\* RecvOrder: the next recv is posted before the bytes are handled
RepostThenHandle == <<"repost", "handle">>
\* Refilled: twice, or never
RefilledTwice == accepts + 2
NotRefilled   == accepts
\* Removed: the session stays registered
NotRemoved(c) == registry

-----------------------------------------------------------------------------
(* What the source computes.                                               *)

\* What OnAcceptCompleted does, and what the RECV case does.
AcceptOrder == <<"add", "post", "refill">>
RecvOrder   == <<"handle", "repost">>

Successor(order, at) ==
    IF \E i \in 1 .. Len(order) - 1 : order[i] = at
    THEN order[1 + CHOOSE i \in 1 .. Len(order) - 1 : order[i] = at]
    ELSE "wait"
After(at) == IF at \in {"add", "post", "refill"} THEN Successor(AcceptOrder, at)
                                                 ELSE Successor(RecvOrder, at)

Waiting == [at |-> "wait", client |-> NoClient]
Work(w, at, c) == worker' = [worker EXCEPT ![w] = [at |-> at, client |-> c]]

\* On to the handler's next step; the local goes out of scope at its end.
Proceed(w) ==
    LET at == After(worker[w].at)
    IN worker' = [worker EXCEPT ![w] =
                     IF at = "wait" THEN Waiting ELSE [@ EXCEPT !.at = at]]

KeepAlive(c, io) == keep' = [keep EXCEPT ![c] = @ \cup {io}]
Refilled   == accepts + 1
Removed(c) == registry \ {c}

-----------------------------------------------------------------------------
\* The workers run (IocpCore::Start) and Acceptor::Init begins.
Init ==
    /\ main = "listen"
    /\ toPost = PENDING_ACCEPTS
    /\ peer = [c \in Clients |-> "away"]
    /\ stage = [c \in Clients |-> "none"]
    /\ accepts = 0
    /\ recv = [c \in Clients |-> "none"]
    /\ send = [c \in Clients |-> "none"]
    /\ keep = [c \in Clients |-> {}]
    /\ registry = {}
    /\ worker = [w \in Workers |-> Waiting]
    /\ refused = 0
    /\ broken = {}

(* main *)

\* WSASocket, bind, listen.  If one fails Init returns, and main goes on.
Listen ==
    /\ main = "listen"
    /\ main' \in {"post", "set"}
    /\ UNCHANGED <<toPost, peer, stage, accepts, recv, send, keep, registry,
                   worker, failures>>

\* Init's RegisterAccept, PENDING_ACCEPTS times.
PostAccept ==
    /\ main = "post"
    /\ toPost' = toPost - 1
    /\ main' = IF toPost' = 0 THEN "set" ELSE "post"
    /\ \/ accepts' = Refilled /\ UNCHANGED refused
       \/ accepts' = accepts /\ refused' = refused + 1
    /\ UNCHANGED <<peer, stage, recv, send, keep, registry, worker, broken>>

SetAcceptor ==
    /\ main = "set"
    /\ main' = "loop"
    /\ UNCHANGED <<toPost, peer, stage, accepts, recv, send, keep, registry,
                   worker, failures>>

\* A worker takes an accept while m_acceptor is null.
EarlyAccept(w, c) ==
    /\ main \notin {"loop", "dead"}
    /\ worker[w].at = "wait"
    /\ stage[c] = "accepted"
    /\ main' = "dead"
    /\ UNCHANGED <<toPost, peer, stage, accepts, recv, send, keep, registry,
                   worker, failures>>

(* The network and the I/O completions.  None of the following steps is    *)
(* main's.                                                                 *)

Listening == main = "post" \/ toPost < PENDING_ACCEPTS

Connect(c) ==
    /\ Listening
    /\ peer[c] = "away"
    /\ peer' = [peer EXCEPT ![c] = "open"]
    /\ stage' = [stage EXCEPT ![c] = "backlog"]
    /\ UNCHANGED <<accepts, recv, send, keep, registry, worker, failures>>

\* FIN or RST reaches the server.
Close(c) ==
    /\ peer[c] = "open"
    /\ peer' = [peer EXCEPT ![c] = "closed"]
    /\ UNCHANGED <<stage, accepts, recv, send, keep, registry, worker, failures>>

\* An AcceptEx completes with a connection of the backlog.
Accepted(c) ==
    /\ stage[c] = "backlog"
    /\ accepts > 0
    /\ accepts' = accepts - 1
    /\ stage' = [stage EXCEPT ![c] = "accepted"]
    /\ UNCHANGED <<peer, recv, send, keep, registry, worker, failures>>

RecvCompletes(c) ==
    /\ recv[c] = "posted"
    /\ recv' = [recv EXCEPT ![c] = IF peer[c] = "open" THEN "data" ELSE "zero"]
    /\ UNCHANGED <<peer, stage, accepts, send, keep, registry, worker, failures>>

SendCompletes(c) ==
    /\ send[c] = "posted"
    /\ \/ send' = [send EXCEPT ![c] = "data"]
       \/ peer[c] = "closed" /\ send' = [send EXCEPT ![c] = "zero"]
    /\ UNCHANGED <<peer, stage, accepts, recv, keep, registry, worker, failures>>

(* A worker takes a completion. *)

TakeAccept(w, c) ==
    /\ main = "loop"
    /\ worker[w].at = "wait"
    /\ stage[c] = "accepted"
    /\ stage' = [stage EXCEPT ![c] = "session"]
    /\ Work(w, AcceptOrder[1], c)
    /\ UNCHANGED <<peer, accepts, recv, send, keep, registry, failures>>

TakeRecv(w, c) ==
    /\ worker[w].at = "wait"
    /\ recv[c] \in {"data", "zero"}
    /\ recv' = [recv EXCEPT ![c] = "none"]
    /\ Work(w, IF recv[c] = "zero" THEN "remove" ELSE RecvOrder[1], c)
    /\ UNCHANGED <<peer, stage, accepts, send, keep, registry, failures>>

\* With 0 bytes SendCompleted is not called and m_isSending stays set.
TakeSend(w, c) ==
    /\ worker[w].at = "wait"
    /\ send[c] \in {"data", "zero"}
    /\ send' = [send EXCEPT ![c] = "busy"]
    /\ Work(w, IF send[c] = "zero" THEN "remove" ELSE "sent", c)
    /\ UNCHANGED <<peer, stage, accepts, recv, keep, registry, failures>>

(* OnAcceptCompleted *)

\* make_shared<Session>, AddSession
AddSession(w) ==
    /\ worker[w].at = "add"
    /\ registry' = registry \cup {worker[w].client}
    /\ Proceed(w)
    /\ UNCHANGED <<peer, stage, accepts, recv, send, keep, failures>>

\* PostRecv, at the end of the RECV case too.  keepAlive is set before WSARecv
\* is called; when that fails it is only logged.
PostRecv(w) ==
    LET c == worker[w].client IN
    /\ worker[w].at \in {"post", "repost"}
    /\ KeepAlive(c, "recv")
    /\ \/ recv' = [recv EXCEPT ![c] = "posted"] /\ UNCHANGED broken
       \/ recv' = recv /\ broken' = broken \cup {c}
    /\ Proceed(w)
    /\ UNCHANGED <<peer, stage, accepts, send, registry, refused>>

\* RegisterAccept; when it fails it is only logged.
RegisterAccept(w) ==
    /\ worker[w].at = "refill"
    /\ \/ accepts' = Refilled /\ UNCHANGED refused
       \/ accepts' = accepts /\ refused' = refused + 1
    /\ Proceed(w)
    /\ UNCHANGED <<peer, stage, recv, send, keep, registry, broken>>

(* The RECV and SEND cases, and 0 bytes *)

OnRecvCompleted(w) ==
    /\ worker[w].at = "handle"
    /\ Proceed(w)
    /\ UNCHANGED <<peer, stage, accepts, recv, send, keep, registry, failures>>

\* A handler throws: the worker catches it and waits for the next completion.
HandlerThrows(w) ==
    /\ worker[w].at = "handle"
    /\ worker' = [worker EXCEPT ![w] = Waiting]
    /\ broken' = broken \cup {worker[w].client}
    /\ UNCHANGED <<peer, stage, accepts, recv, send, keep, registry, refused>>

\* RegisterSend: the queue holds another message, or none.
SendCompleted(w) ==
    LET c == worker[w].client IN
    /\ worker[w].at = "sent"
    /\ \/ send' = [send EXCEPT ![c] = "posted"] /\ KeepAlive(c, "send")
       \/ send' = [send EXCEPT ![c] = "none"] /\ UNCHANGED keep
    /\ Proceed(w)
    /\ UNCHANGED <<peer, stage, accepts, recv, registry, failures>>

RemoveSession(w) ==
    /\ worker[w].at = "remove"
    /\ registry' = Removed(worker[w].client)
    /\ Proceed(w)
    /\ UNCHANGED <<peer, stage, accepts, recv, send, keep, failures>>

\* SessionManager::Broadcast's PostSend to a session that is not sending.
Broadcast(c) ==
    /\ c \in registry
    /\ send[c] = "none"
    /\ send' = [send EXCEPT ![c] = "posted"]
    /\ KeepAlive(c, "send")
    /\ UNCHANGED <<peer, stage, accepts, recv, registry, worker, failures>>

-----------------------------------------------------------------------------
Take(c) == \E w \in Workers : TakeAccept(w, c) \/ TakeRecv(w, c) \/ TakeSend(w, c)

Run(w) ==
    \/ AddSession(w)
    \/ PostRecv(w)
    \/ RegisterAccept(w)
    \/ OnRecvCompleted(w)
    \/ HandlerThrows(w)
    \/ SendCompleted(w)
    \/ RemoveSession(w)

Main == Listen \/ PostAccept \/ SetAcceptor

Serve ==
    \/ \E c \in Clients :
           \/ Connect(c)
           \/ Close(c)
           \/ Accepted(c)
           \/ RecvCompletes(c)
           \/ SendCompletes(c)
           \/ Take(c)
           \/ Broadcast(c)
    \/ \E w \in Workers : Run(w)

Next ==
    \/ Main
    \/ \E w \in Workers, c \in Clients : EarlyAccept(w, c)
    \/ main # "dead" /\ Serve /\ UNCHANGED startup

Spec == Init /\ [][Next]_vars

\* main goes on, workers run on, the end of a connection completes its receive,
\* and a send completes, as long as the process lives.  The backlog and the
\* completion queue are FIFO, so no connection and no completion is passed over
\* for ever.
Alive == main # "dead" /\ UNCHANGED startup
Fairness ==
    /\ WF_vars(Main)
    /\ \A w \in Workers : WF_vars(Alive /\ Run(w))
    /\ \A c \in Clients :
          /\ WF_vars(Alive /\ peer[c] = "closed" /\ RecvCompletes(c))
          /\ WF_vars(Alive /\ SendCompletes(c))
          /\ SF_vars(Alive /\ Accepted(c))
          /\ SF_vars(Alive /\ \E w \in Workers : TakeAccept(w, c))
          /\ SF_vars(Alive /\ \E w \in Workers : TakeRecv(w, c))
          /\ SF_vars(Alive /\ \E w \in Workers : TakeSend(w, c))
FairSpec == Spec /\ Fairness

-----------------------------------------------------------------------------
Labels == {"wait", "add", "post", "refill", "handle", "repost", "sent", "remove"}

\* The types.
TypeOK ==
    /\ main \in {"listen", "post", "set", "loop", "dead"}
    /\ toPost \in 0 .. PENDING_ACCEPTS
    /\ peer \in [Clients -> {"away", "open", "closed"}]
    /\ stage \in [Clients -> {"none", "backlog", "accepted", "session"}]
    /\ accepts \in 0 .. PENDING_ACCEPTS
    /\ recv \in [Clients -> Outstanding \cup {"none"}]
    /\ send \in [Clients -> Outstanding \cup {"none", "busy"}]
    /\ keep \in [Clients -> SUBSET {"recv", "send"}]
    /\ registry \subseteq Clients
    /\ worker \in [Workers -> [at : Labels, client : Clients \cup {NoClient}]]
    /\ refused \in 0 .. PENDING_ACCEPTS
    /\ broken \subseteq Clients

On(c)    == { w \in Workers : worker[w].client = c }
Owned(c) == c \in registry \/ keep[c] # {} \/ On(c) # {}

\* No completion arrives for a Session that is gone: while the system has one
\* of its overlapped structures, something keeps the Session alive, whichever
\* of its operations ended first and removed it (Session.h:18).
NoOrphanCompletion ==
    \A c \in Clients : {recv[c], send[c]} \cap Outstanding # {} => Owned(c)

\* One worker at a time assembles and handles the packets of a session, and no
\* receive into its buffer is outstanding meanwhile: the ring buffer needs no
\* lock, and the packets of a session are handled one after another.
Receiving(w) == worker[w].at \in {"add", "post", "handle", "repost"}
SoleReceiver ==
    \A w \in Workers : Receiving(w) =>
        /\ recv[worker[w].client] = "none"
        /\ \A u \in Workers :
               Receiving(u) /\ worker[u].client = worker[w].client => u = w

\* A registered session is served: a receive is outstanding, or a worker is at
\* it.  None is added after its connection was already given up.  Only after a
\* failed WSARecv or an exception (Session.cpp:42, IocpCore.cpp:101) nothing may
\* ever complete for it.
RegisteredIsServed ==
    \A c \in registry \ broken :
        \/ recv[c] # "none"
        \/ \E w \in On(c) : worker[w].at \in {"post", "handle", "repost", "remove"}

\* No accept slot is lost or doubled: each is to be posted by main, outstanding,
\* completed, or with the worker that will post it again (Acceptor.cpp:138),
\* however main's posting and the workers' interleave.  A RegisterAccept that
\* fails loses one for ever, and nothing else does.
SlotsKept ==
    toPost + accepts + Cardinality({ c \in Clients : stage[c] = "accepted" })
            + Cardinality({ w \in Workers : worker[w].at \in {"add", "post", "refill"} })
            + refused
        = PENDING_ACCEPTS

\* Every connection gets a registered session, those that come while main still
\* posts the accepts included, as long as RegisterAccept has not failed for every
\* slot and no accept was taken before SetAcceptor.
ConnectionIsServed ==
    \A c \in Clients :
        stage[c] = "backlog" ~>
            c \in registry \/ refused = PENDING_ACCEPTS \/ main = "dead"

\* A session whose client is gone leaves SessionManager, for good
\* (architecture.md:493-495), unless it was left without a receive.
ClosedLeavesRegistry ==
    \A c \in Clients :
        peer[c] = "closed" ~>
            c \in broken \/ main = "dead" \/ [](c \notin registry)

\* A Session that was removed and has nothing outstanding is destroyed
\* (architecture.md:496-497).
RemovedIsDestroyed ==
    \A c \in Clients :
        /\ stage[c] = "session"
        /\ peer[c] = "closed"
        /\ c \notin registry
        /\ On(c) = {}
        /\ {recv[c], send[c]} \cap Outstanding = {}
        => ~Owned(c)
=============================================================================
