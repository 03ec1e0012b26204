----------------------- MODULE SessionLifecycleProofs -----------------------
(***************************************************************************)
(* Proofs about SessionLifecycle, for any number of clients and workers.   *)
(***************************************************************************)
EXTENDS SessionLifecycle, FiniteSetTheorems, TLAPS

\* TypeOK but for the bounds on the counters, which are a consequence of SlotsKept;
\* and a worker that does something has a client.
Types ==
    /\ peer \in [Clients -> {"away", "open", "closed"}]
    /\ stage \in [Clients -> {"none", "backlog", "accepted", "session"}]
    /\ accepts \in Nat
    /\ recv \in [Clients -> Outstanding \cup {"none"}]
    /\ send \in [Clients -> Outstanding \cup {"none", "busy"}]
    /\ keep \in [Clients -> SUBSET {"recv", "send"}]
    /\ registry \subseteq Clients
    /\ refused \in Nat
    /\ broken \subseteq Clients
    /\ worker \in [Workers -> [at : Labels, client : Clients \cup {NoClient}]]
    /\ \A w \in Workers : worker[w].at # "wait" => worker[w].client \in Clients

\* Each outstanding operation's structure holds the session.
Held ==
    \A c \in Clients :
        /\ recv[c] \in Outstanding => "recv" \in keep[c]
        /\ send[c] \in Outstanding => "send" \in keep[c]

\* Before a worker takes its accept, nothing receives on a connection; and
\* there is no accept before the client connects.
Untouched ==
    \A c \in Clients :
        /\ stage[c] # "session" =>
               /\ recv[c] = "none"
               /\ \A w \in Workers : Receiving(w) => worker[w].client # c
        /\ peer[c] = "away" => stage[c] = "none"

IInv == Types /\ Held /\ Untouched /\ SoleReceiver

\* main posts as long as there is an accept to post.
MainInv ==
    /\ main \in {"listen", "post", "set", "loop", "dead"}
    /\ toPost \in Nat
    /\ main \in {"listen", "post"} => toPost > 0

-----------------------------------------------------------------------------
\* A step that stands once in an order, and not last, is followed by the next.
LEMMA SuccessorStep ==
    ASSUME NEW order, NEW at, NEW k \in 1 .. Len(order) - 1, order[k] = at,
           \A i \in 1 .. Len(order) - 1 : order[i] = at => i = k
    PROVE  Successor(order, at) = order[1 + k]
<1>1. (CHOOSE i \in 1 .. Len(order) - 1 : order[i] = at) = k
  OBVIOUS
<1> QED BY <1>1, Zenon DEF Successor

\* What follows each step of a handler.
LEMMA AfterStep ==
    /\ After("add") = "post"
    /\ After("post") = "refill"
    /\ After("refill") = "wait"
    /\ After("handle") = "repost"
    /\ After("repost") = "wait"
    /\ After("sent") = "wait"
    /\ After("remove") = "wait"
<1>1. /\ Len(AcceptOrder) = 3 /\ AcceptOrder[1] = "add"
      /\ AcceptOrder[2] = "post" /\ AcceptOrder[3] = "refill"
  BY DEF AcceptOrder
<1>2. Len(RecvOrder) = 2 /\ RecvOrder[1] = "handle" /\ RecvOrder[2] = "repost"
  BY DEF RecvOrder
<1>3. Successor(AcceptOrder, "add") = AcceptOrder[1 + 1]
  BY <1>1, SuccessorStep
<1>4. Successor(AcceptOrder, "post") = AcceptOrder[1 + 2]
  BY <1>1, SuccessorStep
<1>5. Successor(AcceptOrder, "refill") = "wait"
  BY <1>1 DEF Successor
<1>6. Successor(RecvOrder, "handle") = RecvOrder[1 + 1]
  <2>1. 1 \in 1 .. Len(RecvOrder) - 1 /\ \A i \in 1 .. Len(RecvOrder) - 1 : i = 1
    BY <1>2
  <2> QED BY <1>2, <2>1, SuccessorStep, Zenon
<1>7. \A at \in {"repost", "sent", "remove"} : Successor(RecvOrder, at) = "wait"
  BY <1>2 DEF Successor
<1> QED BY <1>1, <1>2, <1>3, <1>4, <1>5, <1>6, <1>7 DEF After

\* What Proceed leaves of its worker, and of the others.
LEMMA ProceedEffect ==
    ASSUME Types, NEW w \in Workers, worker[w].at # "wait", Proceed(w)
    PROVE  /\ worker' \in [Workers -> [at : Labels, client : Clients \cup {NoClient}]]
           /\ worker'[w].at = After(worker[w].at)
           /\ worker'[w].at # "wait" => worker'[w].client = worker[w].client
           /\ \A u \in Workers \ {w} : worker'[u] = worker[u]
<1>1. worker[w] \in [at : Labels, client : Clients \cup {NoClient}]
  BY DEF Types
<1>2. After(worker[w].at) \in Labels
  BY <1>1, AfterStep DEF Labels
<1>3. CASE After(worker[w].at) = "wait"
  <2>1. worker' = [worker EXCEPT ![w] = Waiting]
    BY <1>3 DEF Proceed
  <2>2. Waiting \in [at : Labels, client : Clients \cup {NoClient}]
    BY DEF Waiting, Labels
  <2> QED BY <1>3, <2>1, <2>2 DEF Types, Waiting
<1>4. CASE After(worker[w].at) # "wait"
  <2>1. worker' = [worker EXCEPT ![w] = [@ EXCEPT !.at = After(worker[w].at)]]
    BY <1>4 DEF Proceed
  <2>2. [worker[w] EXCEPT !.at = After(worker[w].at)]
            \in [at : Labels, client : Clients \cup {NoClient}]
    BY <1>1, <1>2
  <2>3. /\ [worker[w] EXCEPT !.at = After(worker[w].at)].at = After(worker[w].at)
        /\ [worker[w] EXCEPT !.at = After(worker[w].at)].client = worker[w].client
    BY <1>1
  <2> QED BY <1>4, <2>1, <2>2, <2>3 DEF Types
<1> QED BY <1>3, <1>4

\* What Work leaves of its worker, and of the others.
LEMMA WorkEffect ==
    ASSUME Types, NEW w \in Workers, NEW at \in Labels, NEW c \in Clients,
           Work(w, at, c)
    PROVE  /\ worker' \in [Workers -> [at : Labels, client : Clients \cup {NoClient}]]
           /\ worker'[w].at = at
           /\ worker'[w].client = c
           /\ \A u \in Workers \ {w} : worker'[u] = worker[u]
  BY DEF Work, Types
-----------------------------------------------------------------------------
\* The initial states satisfy the invariant.
LEMMA InitIInv == Init => IInv
<1> SUFFICES ASSUME Init PROVE IInv
  OBVIOUS
<1> USE DEF Init
<1>1. \A w \in Workers : worker[w].at = "wait" /\ worker[w].client = NoClient
  BY DEF Waiting
<1>2. Types
  BY <1>1, LifecycleAssumption DEF Types, Waiting, Labels, Outstanding
<1>3. Held /\ Untouched /\ SoleReceiver
  BY <1>1 DEF Held, Untouched, SoleReceiver, Receiving, Outstanding
<1> QED BY <1>2, <1>3 DEF IInv

\* Whether a worker receives depends on where it is.
LEMMA ReceivingStep ==
    ASSUME Types, NEW w \in Workers, worker[w].at # "wait", Proceed(w)
    PROVE  /\ Receiving(w)' => Receiving(w) /\ worker'[w].client = worker[w].client
           /\ worker[w].at \in {"post", "repost", "refill", "sent", "remove"} => ~Receiving(w)'
           /\ \A u \in Workers \ {w} : Receiving(u)' <=> Receiving(u)
<1>1. worker[w].at \in {"add", "post", "refill", "handle", "repost", "sent", "remove"}
  BY DEF Types, Labels
<1> QED BY <1>1, ProceedEffect, AfterStep DEF Receiving

\* Every step keeps the invariant.
LEMMA StepIInv == IInv /\ [Next]_vars => IInv'
<1> SUFFICES ASSUME IInv, [Next]_vars PROVE IInv'
  OBVIOUS
<1> USE DEF IInv
<1>1. ASSUME NEW c \in Clients, Connect(c) PROVE IInv'
  <2>1. Types'
    BY <1>1 DEF Connect, Types, failures
  <2>2. Held' /\ SoleReceiver'
    BY <1>1 DEF Connect, Held, SoleReceiver, Receiving
  <2>3. Untouched'
    BY <1>1 DEF Connect, Types, Untouched, Receiving
  <2> QED BY <2>1, <2>2, <2>3
<1>2. ASSUME NEW c \in Clients, Close(c) PROVE IInv'
  BY <1>2 DEF Close, Types, failures, Held, Untouched, SoleReceiver, Receiving
<1>3. ASSUME NEW c \in Clients, Accepted(c) PROVE IInv'
  BY <1>3 DEF Accepted, Types, failures, Held, Untouched, SoleReceiver, Receiving
<1>4. ASSUME NEW c \in Clients, RecvCompletes(c) PROVE IInv'
  <2>1. Types'
    BY <1>4 DEF RecvCompletes, Types, failures, Outstanding
  <2>2. Held'
    BY <1>4 DEF RecvCompletes, Types, Held, Outstanding
  <2>3. Untouched'
    BY <1>4 DEF RecvCompletes, Types, Untouched, Receiving
  <2>4. SoleReceiver'
    BY <1>4 DEF RecvCompletes, Types, SoleReceiver, Receiving
  <2> QED BY <2>1, <2>2, <2>3, <2>4
<1>5. ASSUME NEW c \in Clients, SendCompletes(c) PROVE IInv'
  <2>1. Types'
    BY <1>5 DEF SendCompletes, Types, failures, Outstanding
  <2>2. Held'
    BY <1>5 DEF SendCompletes, Types, Held, Outstanding
  <2>3. Untouched' /\ SoleReceiver'
    BY <1>5 DEF SendCompletes, Untouched, SoleReceiver, Receiving
  <2> QED BY <2>1, <2>2, <2>3
<1>6. ASSUME NEW w \in Workers, NEW c \in Clients, TakeAccept(w, c) PROVE IInv'
  <2>1. AcceptOrder[1] = "add" /\ "add" \in Labels
    BY DEF AcceptOrder, Labels
  <2>2. /\ worker' \in [Workers -> [at : Labels, client : Clients \cup {NoClient}]]
        /\ worker'[w].at = "add" /\ worker'[w].client = c
        /\ \A u \in Workers \ {w} : worker'[u] = worker[u]
    BY <1>6, <2>1, WorkEffect DEF TakeAccept
  <2>3. Types'
    BY <1>6, <2>2 DEF TakeAccept, Types, failures
  <2>4. Held'
    BY <1>6 DEF TakeAccept, Held
  <2>5. Untouched'
    <3>1. /\ stage' = [stage EXCEPT ![c] = "session"]
          /\ UNCHANGED <<peer, recv>> /\ stage[c] = "accepted"
      BY <1>6 DEF TakeAccept
    <3>2. \A d \in Clients \ {c} : stage'[d] = stage[d]
      BY <3>1 DEF Types
    <3>3. stage'[c] = "session" /\ peer[c] # "away"
      BY <3>1 DEF Types, Untouched
    <3>4. \A d \in Clients \ {c}, u \in Workers :
              Receiving(u)' /\ worker'[u].client = d
                  => Receiving(u) /\ worker[u].client = d
      BY <2>2 DEF Receiving
    <3> QED BY <3>1, <3>2, <3>3, <3>4 DEF Untouched
  <2>6. SoleReceiver'
    <3>1. stage[c] = "accepted" /\ UNCHANGED recv
      BY <1>6 DEF TakeAccept
    <3>2. recv[c] = "none" /\ \A u \in Workers : Receiving(u) => worker[u].client # c
      BY <3>1 DEF Untouched
    <3>3. \A u \in Workers \ {w} : Receiving(u)' => Receiving(u)
      BY <2>2 DEF Receiving
    <3> QED BY <2>2, <3>1, <3>2, <3>3 DEF SoleReceiver
  <2> QED BY <2>3, <2>4, <2>5, <2>6
<1>7. ASSUME NEW w \in Workers, NEW c \in Clients, TakeRecv(w, c) PROVE IInv'
  <2> DEFINE at == IF recv[c] = "zero" THEN "remove" ELSE RecvOrder[1]
  <2>1. at \in {"remove", "handle"} /\ at \in Labels
    BY DEF RecvOrder, Labels
  <2>2. /\ worker' \in [Workers -> [at : Labels, client : Clients \cup {NoClient}]]
        /\ worker'[w].at = at /\ worker'[w].client = c
        /\ \A u \in Workers \ {w} : worker'[u] = worker[u]
    BY <1>7, <2>1, WorkEffect DEF TakeRecv
  <2> HIDE DEF at
  <2>3. Types'
    BY <1>7, <2>2 DEF TakeRecv, Types, failures
  <2>4. Held'
    BY <1>7 DEF TakeRecv, Types, Held, Outstanding
  <2>5. stage[c] = "session" /\ \A u \in Workers : Receiving(u) => worker[u].client # c
    BY <1>7 DEF TakeRecv, Untouched, SoleReceiver
  <2>6. Untouched'
    BY <1>7, <2>2, <2>5 DEF TakeRecv, Untouched, Types, Receiving
  <2>7. SoleReceiver'
    BY <1>7, <2>2, <2>5 DEF TakeRecv, SoleReceiver, Types, Receiving
  <2> QED BY <2>3, <2>4, <2>6, <2>7
<1>8. ASSUME NEW w \in Workers, NEW c \in Clients, TakeSend(w, c) PROVE IInv'
  <2> DEFINE at == IF send[c] = "zero" THEN "remove" ELSE "sent"
  <2>1. at \in {"remove", "sent"} /\ at \in Labels
    BY DEF Labels
  <2>2. /\ worker' \in [Workers -> [at : Labels, client : Clients \cup {NoClient}]]
        /\ worker'[w].at = at /\ worker'[w].client = c
        /\ \A u \in Workers \ {w} : worker'[u] = worker[u]
    BY <1>8, <2>1, WorkEffect DEF TakeSend
  <2> HIDE DEF at
  <2>3. Types'
    BY <1>8, <2>2 DEF TakeSend, Types, failures
  <2>4. Held'
    BY <1>8 DEF TakeSend, Types, Held, Outstanding
  <2>5. ~Receiving(w)' /\ \A u \in Workers \ {w} : Receiving(u)' <=> Receiving(u)
    BY <2>1, <2>2 DEF Receiving
  <2>6. Untouched'
    BY <1>8, <2>2, <2>5 DEF TakeSend, Untouched
  <2>7. SoleReceiver'
    BY <1>8, <2>2, <2>5 DEF TakeSend, SoleReceiver
  <2> QED BY <2>3, <2>4, <2>6, <2>7
<1>9. ASSUME NEW c \in Clients, Broadcast(c) PROVE IInv'
  <2>1. Types'
    BY <1>9 DEF Broadcast, KeepAlive, Types, failures, Outstanding
  <2>2. Held'
    BY <1>9 DEF Broadcast, KeepAlive, Types, Held, Outstanding
  <2>3. Untouched' /\ SoleReceiver'
    BY <1>9 DEF Broadcast, Untouched, SoleReceiver, Receiving
  <2> QED BY <2>1, <2>2, <2>3
<1>10. ASSUME NEW w \in Workers, AddSession(w) PROVE IInv'
  <2>1. worker[w].at # "wait" /\ Proceed(w) /\ worker[w].client \in Clients
    BY <1>10 DEF AddSession, Types, failures
  <2>2. Types'
    BY <1>10, <2>1, ProceedEffect DEF AddSession, Types, failures
  <2>3. Held'
    BY <1>10 DEF AddSession, Held
  <2>4. Untouched' /\ SoleReceiver'
    BY <1>10, <2>1, ProceedEffect, ReceivingStep DEF AddSession, Untouched, SoleReceiver
  <2> QED BY <2>2, <2>3, <2>4
<1>11. ASSUME NEW w \in Workers, PostRecv(w) PROVE IInv'
  <2> DEFINE c == worker[w].client
  <2>1. worker[w].at # "wait" /\ Proceed(w) /\ c \in Clients /\ Receiving(w)
    BY <1>11 DEF PostRecv, Types, Receiving
  <2>2. /\ keep' = [keep EXCEPT ![c] = @ \cup {"recv"}]
        /\ recv' = [recv EXCEPT ![c] = "posted"] \/ recv' = recv
        /\ broken' \in {broken, broken \cup {c}}
        /\ UNCHANGED <<peer, stage, accepts, send, registry, refused>>
    BY <1>11 DEF PostRecv, KeepAlive
  <2>3. stage[c] = "session"
    BY <2>1 DEF Untouched
  <2> HIDE DEF c
  <2>4. Types'
    <3>1. broken' \subseteq Clients
      BY <2>1, <2>2 DEF Types
    <3>2. recv' \in [Clients -> Outstanding \cup {"none"}]
      BY <2>1, <2>2 DEF Types, Outstanding
    <3>3. keep' \in [Clients -> SUBSET {"recv", "send"}]
      BY <2>1, <2>2 DEF Types
    <3> QED
      BY <2>1, <2>2, <3>1, <3>2, <3>3, ProceedEffect DEF Types
  <2>5. Held'
    BY <2>1, <2>2 DEF Types, Held, Outstanding
  <2>6. ~Receiving(w)' /\ \A u \in Workers \ {w} : Receiving(u)' <=> Receiving(u)
    BY <1>11, <2>1, ReceivingStep DEF PostRecv
  <2>7. Untouched'
    BY <2>1, <2>2, <2>3, <2>6, ProceedEffect DEF Untouched, Types
  <2>8. \A u \in Workers \ {w} : Receiving(u) => worker[u].client # c
    BY <2>1 DEF SoleReceiver, c
  <2>9. \A u \in Workers \ {w} : worker'[u] = worker[u]
    BY <2>1, ProceedEffect
  <2>10. \A d \in Clients \ {c} : recv'[d] = recv[d]
    BY <2>2 DEF Types
  <2>11. ASSUME NEW u \in Workers, Receiving(u)'
         PROVE  /\ u # w /\ Receiving(u) /\ worker'[u] = worker[u]
                /\ worker[u].client \in Clients \ {c}
    BY <2>6, <2>8, <2>9, <2>11 DEF Types, Receiving
  <2>12. SoleReceiver'
    BY <2>10, <2>11 DEF SoleReceiver
  <2> QED BY <2>4, <2>5, <2>7, <2>12
<1>12. ASSUME NEW w \in Workers, RegisterAccept(w) PROVE IInv'
  <2>1. worker[w].at # "wait" /\ Proceed(w)
    BY <1>12 DEF RegisterAccept
  <2>2. Types'
    BY <1>12, <2>1, ProceedEffect DEF RegisterAccept, Refilled, Types
  <2>3. Held'
    BY <1>12 DEF RegisterAccept, Held
  <2>4. Untouched' /\ SoleReceiver'
    BY <1>12, <2>1, ProceedEffect, ReceivingStep DEF RegisterAccept, Untouched, SoleReceiver
  <2> QED BY <2>2, <2>3, <2>4
<1>13. ASSUME NEW w \in Workers, OnRecvCompleted(w) PROVE IInv'
  <2>1. worker[w].at # "wait" /\ Proceed(w)
    BY <1>13 DEF OnRecvCompleted
  <2>2. Types'
    BY <1>13, <2>1, ProceedEffect DEF OnRecvCompleted, Types, failures
  <2>3. Held'
    BY <1>13 DEF OnRecvCompleted, Held
  <2>4. Untouched' /\ SoleReceiver'
    BY <1>13, <2>1, ProceedEffect, ReceivingStep DEF OnRecvCompleted, Untouched, SoleReceiver
  <2> QED BY <2>2, <2>3, <2>4
<1>14. ASSUME NEW w \in Workers, HandlerThrows(w) PROVE IInv'
  <2>1. /\ worker' = [worker EXCEPT ![w] = Waiting]
        /\ Waiting \in [at : Labels, client : Clients \cup {NoClient}]
        /\ Waiting.at = "wait"
    BY <1>14 DEF HandlerThrows, Waiting, Labels
  <2>2. Types'
    BY <1>14, <2>1 DEF HandlerThrows, Types
  <2>3. Held'
    BY <1>14 DEF HandlerThrows, Held
  <2>4. Untouched' /\ SoleReceiver'
    BY <1>14, <2>1 DEF HandlerThrows, Untouched, SoleReceiver, Receiving, Types
  <2> QED BY <2>2, <2>3, <2>4
<1>15. ASSUME NEW w \in Workers, SendCompleted(w) PROVE IInv'
  <2> DEFINE c == worker[w].client
  <2>1. worker[w].at # "wait" /\ Proceed(w) /\ c \in Clients
    BY <1>15 DEF SendCompleted, Types, failures
  <2>2. \/ /\ send' = [send EXCEPT ![c] = "posted"]
           /\ keep' = [keep EXCEPT ![c] = @ \cup {"send"}]
        \/ send' = [send EXCEPT ![c] = "none"] /\ UNCHANGED keep
    BY <1>15 DEF SendCompleted, KeepAlive
  <2> HIDE DEF c
  <2>3. Types'
    BY <1>15, <2>1, <2>2, ProceedEffect DEF SendCompleted, Types, failures, Outstanding
  <2>4. Held'
    BY <1>15, <2>1, <2>2 DEF SendCompleted, Types, Held, Outstanding
  <2>5. Untouched' /\ SoleReceiver'
    BY <1>15, <2>1, ProceedEffect, ReceivingStep DEF SendCompleted, Untouched, SoleReceiver
  <2> QED BY <2>3, <2>4, <2>5
<1>16. ASSUME NEW w \in Workers, RemoveSession(w) PROVE IInv'
  <2>1. worker[w].at # "wait" /\ Proceed(w)
    BY <1>16 DEF RemoveSession
  <2>2. Types'
    BY <1>16, <2>1, ProceedEffect DEF RemoveSession, Removed, Types, failures
  <2>3. Held'
    BY <1>16 DEF RemoveSession, Held
  <2>4. Untouched' /\ SoleReceiver'
    BY <1>16, <2>1, ProceedEffect, ReceivingStep DEF RemoveSession, Untouched, SoleReceiver
  <2> QED BY <2>2, <2>3, <2>4
<1>17. CASE UNCHANGED vars
  BY <1>17 DEF vars, failures, Types, Held, Untouched, SoleReceiver, Receiving
<1>18. CASE Listen \/ SetAcceptor \/ \E w \in Workers, c \in Clients : EarlyAccept(w, c)
  BY <1>18 DEF Listen, SetAcceptor, EarlyAccept, failures, Types, Held, Untouched,
               SoleReceiver, Receiving
<1>19. CASE PostAccept
  <2>1. Types'
    BY <1>19 DEF PostAccept, Refilled, Types
  <2>2. Held' /\ Untouched' /\ SoleReceiver'
    BY <1>19 DEF PostAccept, Held, Untouched, SoleReceiver, Receiving
  <2> QED BY <2>1, <2>2
<1> QED
  BY <1>1, <1>2, <1>3, <1>4, <1>5, <1>6, <1>7, <1>8, <1>9, <1>10, <1>11, <1>12,
     <1>13, <1>14, <1>15, <1>16, <1>17, <1>18, <1>19 DEF Next, Main, Serve, Take, Run

\* The invariant, of every behaviour, with and without failures.
LEMMA Invariant == Spec => []IInv
<1>1. Init => IInv
  BY InitIInv
<1>2. IInv /\ [Next]_vars => IInv'
  BY StepIInv
<1> QED BY <1>1, <1>2, PTL DEF Spec

LEMMA MainInvariant == Spec => []MainInv
<1>1. Init => MainInv
  BY LifecycleAssumption DEF Init, MainInv
<1>2. MainInv /\ [Next]_vars => MainInv'
  <2> SUFFICES ASSUME MainInv, [Next]_vars PROVE MainInv'
    OBVIOUS
  <2>1. CASE Listen \/ SetAcceptor \/ \E w \in Workers, c \in Clients : EarlyAccept(w, c)
    BY <2>1 DEF MainInv, Listen, SetAcceptor, EarlyAccept
  <2>2. CASE PostAccept
    BY <2>2 DEF MainInv, PostAccept
  <2>3. CASE UNCHANGED startup
    BY <2>3 DEF MainInv, startup
  <2> QED BY <2>1, <2>2, <2>3 DEF Next, Main, vars
<1> QED BY <1>1, <1>2, PTL DEF Spec

\* No completion finds its Session gone, whatever fails.
THEOREM NoOrphan == Spec => []NoOrphanCompletion
<1>1. IInv => NoOrphanCompletion
  BY DEF IInv, Held, NoOrphanCompletion, Owned
<1> QED BY <1>1, Invariant, PTL

\* A session is received and handled by one worker at a time, whatever fails.
THEOREM Sole == Spec => []SoleReceiver
<1>1. IInv => SoleReceiver
  BY DEF IInv
<1> QED BY <1>1, Invariant, PTL

-----------------------------------------------------------------------------
(* The accept slots *)

Completed == { c \in Clients : stage[c] = "accepted" }
Refilling == { w \in Workers : worker[w].at \in {"add", "post", "refill"} }
Slots     == toPost + accepts + Cardinality(Completed) + Cardinality(Refilling) + refused
SlotsInv  == Slots = PENDING_ACCEPTS

LEMMA SlotsFinite ==
    /\ IsFiniteSet(Completed) /\ Cardinality(Completed) \in Nat
    /\ IsFiniteSet(Refilling) /\ Cardinality(Refilling) \in Nat
<1>1. Completed \subseteq Clients /\ Refilling \subseteq Workers
  BY DEF Completed, Refilling
<1> QED BY <1>1, LifecycleAssumption, FS_Subset, FS_CardinalityType

\* A handler's step leaves the slots alone unless it is the last of an accept.
LEMMA ProceedSlots ==
    ASSUME Types, NEW w \in Workers, Proceed(w),
           worker[w].at \in {"add", "post", "handle", "repost", "sent", "remove"}
    PROVE  Refilling' = Refilling
<1>1. worker[w].at # "wait"
  OBVIOUS
<1>2. worker'[w].at \in {"add", "post", "refill"} <=> worker[w].at \in {"add", "post", "refill"}
  BY <1>1, ProceedEffect, AfterStep
<1>3. \A u \in Workers \ {w} : worker'[u] = worker[u]
  BY <1>1, ProceedEffect
<1> QED BY <1>2, <1>3 DEF Refilling

\* Nor does a worker that was waiting, when it takes a receive or a send.
LEMMA WorkSlots ==
    ASSUME Types, NEW w \in Workers, NEW c \in Clients,
           NEW at \in {"handle", "remove", "sent"},
           Work(w, at, c), worker[w].at = "wait"
    PROVE  Refilling' = Refilling
<1>1. at \in Labels
  BY DEF Labels
<1>2. worker'[w].at = at /\ \A u \in Workers \ {w} : worker'[u] = worker[u]
  BY <1>1, WorkEffect
<1> QED BY <1>2 DEF Refilling

\* Steps that change neither the counters nor the two sets.
LEMMA SlotsUnchanged ==
    ASSUME SlotsInv, toPost' = toPost, accepts' = accepts, refused' = refused,
           Completed' = Completed, Refilling' = Refilling
    PROVE  SlotsInv'
  BY DEF SlotsInv, Slots

\* The workers and the network keep the sum.
LEMMA ServeSlots ==
    ASSUME IInv, MainInv, SlotsInv, Serve, UNCHANGED startup
    PROVE  SlotsInv'
<1>0. Types /\ toPost' = toPost /\ toPost \in Nat
  BY DEF IInv, MainInv, startup
<1>1. ASSUME NEW c \in Clients, Connect(c) PROVE SlotsInv'
  <2>1. stage[c] = "none"
    BY <1>1 DEF Connect, IInv, Untouched
  <2>2. Completed' = Completed /\ Refilling' = Refilling /\ UNCHANGED <<accepts, refused>>
    BY <1>0, <1>1, <2>1 DEF Connect, Completed, Refilling, Types, failures
  <2> QED BY <1>0, <2>2, SlotsUnchanged
<1>2. ASSUME NEW c \in Clients, Close(c) \/ RecvCompletes(c) \/ SendCompletes(c) \/ Broadcast(c)
      PROVE  SlotsInv'
  <2>1. UNCHANGED <<stage, worker, accepts, refused>>
    BY <1>2 DEF Close, RecvCompletes, SendCompletes, Broadcast, failures
  <2> QED BY <1>0, <2>1, SlotsUnchanged DEF Completed, Refilling
<1>3. ASSUME NEW c \in Clients, Accepted(c) PROVE SlotsInv'
  <2>1. c \notin Completed /\ Completed' = Completed \cup {c}
    BY <1>0, <1>3 DEF Accepted, Completed, Types
  <2>2. Cardinality(Completed') = Cardinality(Completed) + 1
    BY <2>1, SlotsFinite, FS_AddElement
  <2>3. Refilling' = Refilling /\ accepts' = accepts - 1 /\ refused' = refused
    BY <1>3 DEF Accepted, Refilling, failures
  <2>4. Slots' = Slots
    BY <1>0, <2>2, <2>3, SlotsFinite DEF Slots, Types
  <2> QED BY <2>4 DEF SlotsInv
<1>4. ASSUME NEW w \in Workers, NEW c \in Clients, TakeAccept(w, c) PROVE SlotsInv'
  <2>1. c \in Completed /\ Completed' = Completed \ {c}
    BY <1>0, <1>4 DEF TakeAccept, Completed, Types
  <2>2. Cardinality(Completed') = Cardinality(Completed) - 1
    BY <2>1, SlotsFinite, FS_RemoveElement
  <2>3. AcceptOrder[1] = "add" /\ "add" \in Labels
    BY DEF AcceptOrder, Labels
  <2>4. worker'[w].at = "add" /\ \A u \in Workers \ {w} : worker'[u] = worker[u]
    BY <1>0, <1>4, <2>3, WorkEffect DEF TakeAccept
  <2>5. w \notin Refilling /\ Refilling' = Refilling \cup {w}
    BY <1>4, <2>4 DEF TakeAccept, Refilling
  <2>6. Cardinality(Refilling') = Cardinality(Refilling) + 1
    BY <2>5, SlotsFinite, FS_AddElement
  <2>7. Slots' = Slots
    BY <1>0, <1>4, <2>2, <2>6, SlotsFinite DEF TakeAccept, Slots, Types, failures
  <2> QED BY <2>7 DEF SlotsInv
<1>5. ASSUME NEW w \in Workers, NEW c \in Clients, TakeRecv(w, c) PROVE SlotsInv'
  <2>1. (IF recv[c] = "zero" THEN "remove" ELSE RecvOrder[1]) \in {"handle", "remove", "sent"}
    BY DEF RecvOrder
  <2>2. Refilling' = Refilling
    BY <1>0, <1>5, <2>1, WorkSlots DEF TakeRecv
  <2> QED BY <1>0, <1>5, <2>2, SlotsUnchanged DEF TakeRecv, Completed, failures
<1>6. ASSUME NEW w \in Workers, NEW c \in Clients, TakeSend(w, c) PROVE SlotsInv'
  <2>1. (IF send[c] = "zero" THEN "remove" ELSE "sent") \in {"handle", "remove", "sent"}
    OBVIOUS
  <2>2. Refilling' = Refilling
    BY <1>0, <1>6, <2>1, WorkSlots DEF TakeSend
  <2> QED BY <1>0, <1>6, <2>2, SlotsUnchanged DEF TakeSend, Completed, failures
<1>7. ASSUME NEW w \in Workers,
             AddSession(w) \/ PostRecv(w) \/ OnRecvCompleted(w) \/ SendCompleted(w) \/ RemoveSession(w)
      PROVE  SlotsInv'
  <2>1. /\ Proceed(w)
        /\ worker[w].at \in {"add", "post", "handle", "repost", "sent", "remove"}
        /\ UNCHANGED <<stage, accepts, refused>>
    BY <1>7 DEF AddSession, PostRecv, OnRecvCompleted, SendCompleted, RemoveSession, failures
  <2>2. Refilling' = Refilling
    BY <1>0, <2>1, ProceedSlots
  <2> QED BY <1>0, <2>1, <2>2, SlotsUnchanged DEF Completed
<1>8. ASSUME NEW w \in Workers, HandlerThrows(w) PROVE SlotsInv'
  <2>1. Refilling' = Refilling
    BY <1>0, <1>8 DEF HandlerThrows, Refilling, Waiting, Types
  <2> QED BY <1>0, <1>8, <2>1, SlotsUnchanged DEF HandlerThrows, Completed
<1>9. ASSUME NEW w \in Workers, RegisterAccept(w) PROVE SlotsInv'
  <2>1. worker'[w].at = "wait" /\ \A u \in Workers \ {w} : worker'[u] = worker[u]
    BY <1>0, <1>9, ProceedEffect, AfterStep DEF RegisterAccept
  <2>2. w \in Refilling /\ Refilling' = Refilling \ {w}
    BY <1>9, <2>1 DEF RegisterAccept, Refilling
  <2>3. Cardinality(Refilling') = Cardinality(Refilling) - 1
    BY <2>2, SlotsFinite, FS_RemoveElement
  <2>4. Completed' = Completed
    BY <1>9 DEF RegisterAccept, Completed
  <2>5. \/ accepts' = accepts + 1 /\ refused' = refused
        \/ accepts' = accepts /\ refused' = refused + 1
    BY <1>9 DEF RegisterAccept, Refilled
  <2>6. /\ accepts \in Nat /\ refused \in Nat
        /\ Cardinality(Completed) \in Nat /\ Cardinality(Refilling) \in Nat
    BY <1>0, SlotsFinite DEF Types
  <2>7. Slots' = Slots
    BY <1>0, <2>3, <2>4, <2>5, <2>6 DEF Slots
  <2> QED BY <2>7 DEF SlotsInv
<1> QED
  BY <1>1, <1>2, <1>3, <1>4, <1>5, <1>6, <1>7, <1>8, <1>9 DEF Serve, Take, Run

LEMMA StepSlots == IInv /\ MainInv /\ SlotsInv /\ [Next]_vars => SlotsInv'
<1> SUFFICES ASSUME IInv, MainInv, SlotsInv, [Next]_vars PROVE SlotsInv'
  OBVIOUS
<1>1. CASE Serve /\ UNCHANGED startup
  BY <1>1, ServeSlots
<1>2. CASE Listen \/ SetAcceptor \/ \E w \in Workers, c \in Clients : EarlyAccept(w, c)
  BY <1>2, SlotsUnchanged
     DEF Listen, SetAcceptor, EarlyAccept, failures, Completed, Refilling
<1>3. CASE PostAccept
  <2>1. /\ toPost' = toPost - 1
        /\ \/ accepts' = accepts + 1 /\ refused' = refused
           \/ accepts' = accepts /\ refused' = refused + 1
    BY <1>3 DEF PostAccept, Refilled
  <2>2. Completed' = Completed /\ Refilling' = Refilling
    BY <1>3 DEF PostAccept, Completed, Refilling
  <2>3. /\ toPost \in Nat /\ accepts \in Nat /\ refused \in Nat
        /\ Cardinality(Completed) \in Nat /\ Cardinality(Refilling) \in Nat
    BY SlotsFinite DEF IInv, Types, MainInv
  <2>4. Slots' = Slots
    BY <2>1, <2>2, <2>3 DEF Slots
  <2> QED BY <2>4 DEF SlotsInv
<1>4. CASE UNCHANGED vars
  BY <1>4, SlotsUnchanged DEF vars, startup, failures, Completed, Refilling
<1> QED BY <1>1, <1>2, <1>3, <1>4 DEF Next, Main

LEMMA SlotsInvariant == Spec => []SlotsInv
<1>1. Init => SlotsInv
  <2> SUFFICES ASSUME Init PROVE SlotsInv
    OBVIOUS
  <2>1. Completed = {} /\ Refilling = {}
    BY DEF Init, Completed, Refilling, Waiting
  <2>2. Slots = PENDING_ACCEPTS /\ PENDING_ACCEPTS \in Nat
    BY <2>1, FS_EmptySet, LifecycleAssumption DEF Init, Slots
  <2> QED BY <2>2 DEF SlotsInv
<1>2. IInv /\ MainInv /\ SlotsInv /\ [Next]_vars => SlotsInv'
  BY StepSlots
<1> QED BY <1>1, <1>2, Invariant, MainInvariant, PTL DEF Spec

\* The types, whatever fails: there are never more accepts outstanding than
\* were posted at the start.
THEOREM TypeCorrect == Spec => []TypeOK
<1>1. IInv /\ MainInv /\ SlotsInv => TypeOK
  <2> SUFFICES ASSUME IInv, MainInv, SlotsInv PROVE TypeOK
    OBVIOUS
  <2> DEFINE Counter == {toPost, accepts, refused}
  <2>1. toPost \in Nat /\ accepts \in Nat /\ refused \in Nat
    BY DEF IInv, MainInv, Types
  <2>2. \A n \in Counter : n <= PENDING_ACCEPTS
    BY <2>1, SlotsFinite, LifecycleAssumption DEF SlotsInv, Slots
  <2>3. \A n \in Counter : n \in 0 .. PENDING_ACCEPTS
    BY <2>1, <2>2, LifecycleAssumption
  <2> QED BY <2>3 DEF IInv, MainInv, Types, TypeOK
<1> QED BY <1>1, Invariant, MainInvariant, SlotsInvariant, PTL

\* Whatever fails, no slot is doubled, and none is lost but by a RegisterAccept
\* that fails.
THEOREM NoSlotLost == Spec => []SlotsKept
<1>1. SlotsInv => SlotsKept
  BY DEF SlotsInv, Slots, Completed, Refilling, SlotsKept
<1> QED BY <1>1, SlotsInvariant, PTL

-----------------------------------------------------------------------------
\* Where a worker serves the session it is at.
Serving == {"post", "handle", "repost", "remove"}
IsServed(c) ==
    recv[c] # "none" \/ \E u \in Workers : worker[u].client = c /\ worker[u].at \in Serving

\* A session is served as long as its receive stays outstanding or taken and
\* no worker serving it moves.
LEMMA StillServed ==
    ASSUME RegisteredIsServed,
           NEW c \in registry \ broken,
           recv[c] # "none" => recv'[c] # "none",
           \A u \in Workers : worker[u].at \in Serving => worker'[u] = worker[u]
    PROVE  IsServed(c)'
  BY DEF RegisteredIsServed, On, IsServed, Serving

\* Once a session was left without a receive, that is remembered.
LEMMA BrokenStays == [Next]_vars => broken \subseteq broken'
<1> QED
  BY DEF Next, Main, Listen, PostAccept, SetAcceptor, EarlyAccept, Serve, Take, Run,
         startup, Connect, Close, Accepted, RecvCompletes, SendCompletes,
         TakeAccept, TakeRecv, TakeSend, Broadcast, AddSession, PostRecv,
         RegisterAccept, OnRecvCompleted, HandlerThrows, SendCompleted,
         RemoveSession, vars, failures

LEMMA StepServed ==
    IInv /\ RegisteredIsServed /\ [Next]_vars => RegisteredIsServed'
<1> SUFFICES ASSUME IInv, RegisteredIsServed, [Next]_vars,
                    NEW c \in registry' \ broken'
             PROVE  IsServed(c)'
  BY DEF RegisteredIsServed, On, IsServed, Serving
<1>0. Types /\ c \in Clients /\ c \notin broken
  <2>1. registry' \subseteq Clients
    BY StepIInv DEF IInv, Types
  <2> QED BY <2>1, BrokenStays DEF IInv
<1>1. ASSUME NEW d \in Clients,
             Connect(d) \/ Close(d) \/ Accepted(d) \/ RecvCompletes(d) \/ SendCompletes(d) \/ Broadcast(d)
      PROVE  IsServed(c)'
  <2>1. worker' = worker /\ registry' = registry /\ (recv[c] # "none" => recv'[c] # "none")
    BY <1>0, <1>1 DEF Connect, Close, Accepted, RecvCompletes, SendCompletes, Broadcast, Types
  <2> QED BY <1>0, <2>1, StillServed
<1>2. ASSUME NEW w \in Workers, NEW d \in Clients, TakeAccept(w, d) \/ TakeSend(w, d)
      PROVE  IsServed(c)'
  <2>1. worker[w].at = "wait" /\ recv' = recv /\ registry' = registry
    BY <1>2 DEF TakeAccept, TakeSend
  <2>2. \A u \in Workers \ {w} : worker'[u] = worker[u]
    BY <1>0, <1>2 DEF TakeAccept, TakeSend, Work, Types
  <2> QED BY <1>0, <2>1, <2>2, StillServed DEF Serving
<1>3. ASSUME NEW w \in Workers, NEW d \in Clients, TakeRecv(w, d)
      PROVE  IsServed(c)'
  <2>1. RecvOrder[1] = "handle"
    BY DEF RecvOrder
  <2>2. worker'[w].client = d /\ worker'[w].at \in Serving
    BY <1>0, <1>3, <2>1 DEF TakeRecv, Work, Types, Serving
  <2>3. CASE c = d
    BY <2>2, <2>3 DEF IsServed
  <2>4. CASE c # d
    <3>1. worker[w].at = "wait" /\ registry' = registry /\ recv'[c] = recv[c]
      BY <1>0, <1>3, <2>4 DEF TakeRecv, Types
    <3>2. \A u \in Workers \ {w} : worker'[u] = worker[u]
      BY <1>0, <1>3 DEF TakeRecv, Work, Types
    <3> QED BY <1>0, <3>1, <3>2, StillServed DEF Serving
  <2> QED BY <2>3, <2>4
<1>4. ASSUME NEW w \in Workers, AddSession(w)
      PROVE  IsServed(c)'
  <2>1. /\ worker[w].at = "add" /\ worker'[w].at = "post"
        /\ worker'[w].client = worker[w].client
        /\ \A u \in Workers \ {w} : worker'[u] = worker[u]
    BY <1>0, <1>4, ProceedEffect, AfterStep DEF AddSession
  <2>2. CASE c = worker[w].client
    BY <2>1, <2>2 DEF IsServed, Serving
  <2>3. CASE c # worker[w].client
    <3>1. c \in registry /\ recv' = recv
      BY <1>4, <2>3 DEF AddSession
    <3> QED BY <1>0, <2>1, <3>1, StillServed DEF Serving
  <2> QED BY <2>2, <2>3
<1>5. ASSUME NEW w \in Workers, PostRecv(w)
      PROVE  IsServed(c)'
  <2>1. /\ worker[w].at # "wait" /\ registry' = registry
        /\ \/ recv' = [recv EXCEPT ![worker[w].client] = "posted"]
           \/ recv' = recv /\ worker[w].client \in broken'
    BY <1>5 DEF PostRecv
  <2>2. CASE c = worker[w].client
    BY <1>0, <2>1, <2>2 DEF IsServed, Types
  <2>3. CASE c # worker[w].client
    <3>1. recv'[c] = recv[c]
      BY <1>0, <2>1, <2>3 DEF Types
    <3>2. \A u \in Workers \ {w} : worker'[u] = worker[u]
      BY <1>0, <1>5, <2>1, ProceedEffect DEF PostRecv
    <3>3. IsServed(c)
      BY <1>0, <2>1 DEF RegisteredIsServed, On, IsServed, Serving
    <3> QED BY <2>3, <3>1, <3>2, <3>3 DEF IsServed
  <2> QED BY <2>2, <2>3
<1>6. ASSUME NEW w \in Workers, RegisterAccept(w) \/ SendCompleted(w)
      PROVE  IsServed(c)'
  <2>1. worker[w].at \in {"refill", "sent"} /\ registry' = registry /\ recv' = recv
    BY <1>6 DEF RegisterAccept, SendCompleted
  <2>2. \A u \in Workers \ {w} : worker'[u] = worker[u]
    BY <1>0, <1>6, <2>1, ProceedEffect DEF RegisterAccept, SendCompleted
  <2> QED BY <1>0, <2>1, <2>2, StillServed DEF Serving
<1>7. ASSUME NEW w \in Workers, OnRecvCompleted(w)
      PROVE  IsServed(c)'
  <2>1. /\ worker'[w].at = "repost" /\ worker'[w].client = worker[w].client
        /\ \A u \in Workers \ {w} : worker'[u] = worker[u]
    BY <1>0, <1>7, ProceedEffect, AfterStep DEF OnRecvCompleted
  <2>2. IsServed(c)
    BY <1>0, <1>7 DEF OnRecvCompleted, RegisteredIsServed, On, IsServed, Serving
  <2>3. recv' = recv
    BY <1>7 DEF OnRecvCompleted
  <2> QED BY <2>1, <2>2, <2>3 DEF IsServed, Serving
<1>8. ASSUME NEW w \in Workers, RemoveSession(w)
      PROVE  IsServed(c)'
  <2>1. c \in registry /\ c # worker[w].client /\ recv' = recv
    BY <1>8 DEF RemoveSession, Removed
  <2>2. \A u \in Workers \ {w} : worker'[u] = worker[u]
    BY <1>0, <1>8, ProceedEffect DEF RemoveSession
  <2>3. IsServed(c)
    BY <1>0, <2>1 DEF RegisteredIsServed, On, IsServed, Serving
  <2> QED BY <2>1, <2>2, <2>3 DEF IsServed
<1>9. ASSUME NEW w \in Workers, HandlerThrows(w)
      PROVE  IsServed(c)'
  <2>1. c # worker[w].client /\ registry' = registry /\ recv' = recv
    BY <1>9 DEF HandlerThrows
  <2>2. \A u \in Workers \ {w} : worker'[u] = worker[u]
    BY <1>0, <1>9 DEF HandlerThrows, Types
  <2>3. IsServed(c)
    BY <1>0, <2>1 DEF RegisteredIsServed, On, IsServed, Serving
  <2> QED BY <2>1, <2>2, <2>3 DEF IsServed
<1>10. CASE UNCHANGED vars \/ Main \/ \E w \in Workers, d \in Clients : EarlyAccept(w, d)
  <2>1. UNCHANGED <<worker, registry, recv>>
    BY <1>10 DEF vars, Main, Listen, PostAccept, SetAcceptor, EarlyAccept
  <2> QED BY <1>0, <2>1, StillServed
<1> QED
  BY <1>1, <1>2, <1>3, <1>4, <1>5, <1>6, <1>7, <1>8, <1>9, <1>10 DEF Next, Serve, Take, Run

\* A registered session has a receive outstanding or a worker at it, unless its
\* WSARecv failed or a handler threw.
THEOREM RegisteredServed == Spec => []RegisteredIsServed
<1>1. Init => RegisteredIsServed
  BY DEF Init, RegisteredIsServed
<1>2. IInv /\ RegisteredIsServed /\ [Next]_vars => RegisteredIsServed'
  BY StepServed
<1> QED BY <1>1, <1>2, Invariant, PTL DEF Spec
=============================================================================
