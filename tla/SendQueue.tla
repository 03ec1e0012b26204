----------------------------- MODULE SendQueue -----------------------------
(***************************************************************************)
(* The outgoing side of a Session: PostSend, RegisterSend, SendCompleted   *)
(* and the worker loop's SEND case.                                        *)
(*                                                                         *)
(* Any number of threads broadcast to a session at once.  The regions      *)
(* under m_sendLock are steps, and so is the exchange on m_isSending       *)
(* between them.  The socket takes one overlapped send at a time           *)
(* (m_sendOverlapped is one structure) from the front of the queue, whose  *)
(* memory must stay in place until the completion.                         *)
(*                                                                         *)
(* A message is named by the number of its push.                           *)
(***************************************************************************)
EXTENDS Naturals, Sequences

CONSTANTS
    Senders,   \* threads that call PostSend
    MaxSent    \* bound: messages pushed

ASSUME SendAssumption == MaxSent \in Nat

VARIABLES
    queue,      \* m_sendQueue
    isSending,  \* m_isSending
    pc,         \* where each sender is in PostSend
    completer,  \* where the worker that completes a send is
    inFlight,   \* sends the socket has not completed, by message
    pushed,     \* history: messages in the order of their pushes
    posted,     \* history: messages in the order WSASend took them
    failed      \* history: WSASend failed at once, or a completion had 0 bytes

vars == <<queue, isSending, pc, completer, inFlight, pushed, posted, failed>>

-----------------------------------------------------------------------------
(* Mistakes the properties are tried against, each in place of the         *)
(* definition named.                                                       *)

\* Claims: PostSend registers whatever exchange returned
ClaimsAlways(old) == TRUE
\* Rest: m_isSending is not reset when the queue is empty
RestStillSending ==
    /\ queue = <<>>
    /\ UNCHANGED <<isSending, inFlight, posted, failed>>
\* PostFront: m_isSending is reset although the send is under way
PostFrontReset ==
    /\ queue # <<>>
    /\ inFlight' = Append(inFlight, Head(queue))
    /\ posted' = Append(posted, Head(queue))
    /\ isSending' = FALSE
    /\ UNCHANGED failed
\* Enqueued: the newest message goes first
EnqueuedFirst(message) == <<message>> \o queue

-----------------------------------------------------------------------------
Enqueued(message) == Append(queue, message)

\* PostSend goes on to RegisterSend if exchange(true) returned false.
Claims(old) == old = FALSE

\* RegisterSend, under m_sendLock: nothing to send ...
Rest ==
    /\ queue = <<>>
    /\ isSending' = FALSE
    /\ UNCHANGED <<inFlight, posted, failed>>

\* ... or WSASend takes the front ...
PostFront ==
    /\ queue # <<>>
    /\ inFlight' = Append(inFlight, Head(queue))
    /\ posted' = Append(posted, Head(queue))
    /\ UNCHANGED <<isSending, failed>>

\* ... or refuses it: the message stays in the queue, with no one to send it.
Refused ==
    /\ queue # <<>>
    /\ isSending' = FALSE
    /\ failed' = TRUE
    /\ UNCHANGED <<inFlight, posted>>

RegisterSend == Rest \/ PostFront \/ Refused

Init ==
    /\ queue = <<>>
    /\ isSending = FALSE
    /\ pc = [t \in Senders |-> "idle"]
    /\ completer = "idle"
    /\ inFlight = <<>>
    /\ pushed = <<>>
    /\ posted = <<>>
    /\ failed = FALSE

(* PostSend *)

Push(t) ==
    LET message == Len(pushed) + 1 IN
    /\ pc[t] = "idle"
    /\ message <= MaxSent
    /\ queue' = Enqueued(message)
    /\ pushed' = Append(pushed, message)
    /\ pc' = [pc EXCEPT ![t] = "exchange"]
    /\ UNCHANGED <<isSending, completer, inFlight, posted, failed>>

Exchange(t) ==
    /\ pc[t] = "exchange"
    /\ isSending' = TRUE
    /\ pc' = [pc EXCEPT ![t] = IF Claims(isSending) THEN "register" ELSE "idle"]
    /\ UNCHANGED <<queue, completer, inFlight, pushed, posted, failed>>

Register(t) ==
    /\ pc[t] = "register"
    /\ RegisterSend
    /\ pc' = [pc EXCEPT ![t] = "idle"]
    /\ UNCHANGED <<queue, completer, pushed>>

(* A worker dequeues the completion of a send. *)

\* SendCompleted: the sent message leaves the queue ...
PopSent ==
    /\ inFlight # <<>>
    /\ inFlight' = Tail(inFlight)
    /\ queue' = Tail(queue)
    /\ completer' = "register"
    /\ UNCHANGED <<isSending, pc, pushed, posted, failed>>

\* ... and the next one is sent.
RegisterNext ==
    /\ completer = "register"
    /\ RegisterSend
    /\ completer' = "idle"
    /\ UNCHANGED <<queue, pc, pushed>>

\* A completion of 0 bytes: the session is removed, SendCompleted not called.
SendBroken ==
    /\ inFlight # <<>>
    /\ failed' = TRUE
    /\ inFlight' = Tail(inFlight)
    /\ UNCHANGED <<queue, isSending, pc, completer, pushed, posted>>

Next ==
    \/ \E t \in Senders : Push(t) \/ Exchange(t) \/ Register(t)
    \/ PopSent
    \/ RegisterNext
    \/ SendBroken

Spec == Init /\ [][Next]_vars

\* Threads run on, and the socket completes what it took, one way or the other.
Fairness ==
    /\ \A t \in Senders : WF_vars(Exchange(t) \/ Register(t))
    /\ WF_vars(PopSent \/ SendBroken)
    /\ WF_vars(RegisterNext)
FairSpec == Spec /\ Fairness

-----------------------------------------------------------------------------
Messages == 1 .. MaxSent

\* The types.
TypeOK ==
    /\ queue \in Seq(Messages)
    /\ isSending \in BOOLEAN
    /\ pc \in [Senders -> {"idle", "exchange", "register"}]
    /\ completer \in {"idle", "register"}
    /\ inFlight \in Seq(Messages)
    /\ pushed \in Seq(Messages)
    /\ posted \in Seq(Messages)
    /\ failed \in BOOLEAN

\* At most one overlapped send uses m_sendOverlapped, and its buffer is the
\* front of the queue, still in place: no interleaving of senders and completion
\* posts a second send or pops a message the socket is reading.
OneSendOutstanding ==
    /\ Len(inFlight) <= 1
    /\ inFlight # <<>> => queue # <<>> /\ inFlight[1] = queue[1]

\* Who has taken m_isSending owns the sending: the two never act together.
Owners == { t \in Senders : pc[t] = "register" }
SoleOwner ==
    /\ \A t, u \in Owners : t = u
    /\ Owners # {} => inFlight = <<>> /\ completer = "idle" /\ isSending
    /\ completer = "register" => inFlight = <<>> /\ isSending
    /\ inFlight # <<>> => isSending

\* While no send fails, no message waits in the queue with nobody left to send
\* it.  (A refused message waits for the next PostSend.)
NoneStranded ==
    queue # <<>> =>
        \/ inFlight # <<>>
        \/ completer = "register"
        \/ \E t \in Senders : pc[t] # "idle"
        \/ failed

Promise == INSTANCE OrderedDelivery WITH
    Items <- Messages, MaxItems <- MaxSent, accepted <- pushed, delivered <- posted

\* What WSASend took is what was pushed, in that order, each message once, even
\* when sends are refused or break off ...
KeepsOrder == Promise!Spec

\* ... and as long as none does, every message is sent.  The send path
\* implements the promise.
KeepsPromise == KeepsOrder /\ ([]~failed => Promise!Fairness)
=============================================================================
