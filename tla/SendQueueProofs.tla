-------------------------- MODULE SendQueueProofs --------------------------
(***************************************************************************)
(* Who may touch the socket: for any number of senders and messages, with  *)
(* sends refused or broken off, m_isSending has one owner at a time, and   *)
(* the buffer given to WSASend stays at the front of the queue.            *)
(***************************************************************************)
EXTENDS SendQueue, SequenceTheorems, TLAPS

\* The messages a step of RegisterSend can move are messages.
LEMMA HeadIsMessage ==
    ASSUME NEW S, NEW q \in Seq(S), q # <<>>
    PROVE  Head(q) \in S /\ Tail(q) \in Seq(S) /\ Head(q) = q[1]
  <1> QED
    BY HeadTailProperties

\* The types, as long as the send the socket completes is still in the queue.
LEMMA TypeInductive ==
    /\ Init => TypeOK
    /\ TypeOK /\ OneSendOutstanding /\ [Next]_vars => TypeOK'
  <1> USE SendAssumption
  <1>1. Init => TypeOK
    <2>1. <<>> \in Seq(Messages)
      OBVIOUS
    <2> QED
      BY <2>1 DEF Init, TypeOK
  <1>2. TypeOK /\ OneSendOutstanding /\ [Next]_vars => TypeOK'
    <2> SUFFICES ASSUME TypeOK, OneSendOutstanding, [Next]_vars
                 PROVE  TypeOK'
      OBVIOUS
    <2>1. ASSUME NEW t \in Senders, Push(t)
          PROVE  TypeOK'
      <3>1. Len(pushed) + 1 \in Messages
        <4>1. Len(pushed) \in Nat
          BY LenProperties DEF TypeOK
        <4> QED
          BY <2>1, <4>1 DEF Push, Messages, SendAssumption
      <3> QED
        BY <2>1, <3>1, AppendProperties DEF Push, Enqueued, TypeOK
    <2>2. ASSUME NEW t \in Senders, Exchange(t)
          PROVE  TypeOK'
      BY <2>2 DEF Exchange, TypeOK
    <2>3. ASSUME RegisterSend, UNCHANGED queue
          PROVE  /\ isSending' \in BOOLEAN
                 /\ inFlight' \in Seq(Messages)
                 /\ posted' \in Seq(Messages)
                 /\ failed' \in BOOLEAN
      <3>1. CASE Rest \/ Refused
        BY <3>1 DEF Rest, Refused, TypeOK
      <3>2. CASE PostFront
        BY <3>2, HeadIsMessage, AppendProperties DEF PostFront, TypeOK
      <3> QED
        BY <2>3, <3>1, <3>2 DEF RegisterSend
    <2>4. ASSUME NEW t \in Senders, Register(t)
          PROVE  TypeOK'
      BY <2>3, <2>4 DEF Register, TypeOK
    <2>5. ASSUME PopSent
          PROVE  TypeOK'
      <3>1. inFlight' \in Seq(Messages)
        BY <2>5, HeadIsMessage DEF PopSent, TypeOK
      <3>2. queue' \in Seq(Messages)
        BY <2>5, HeadIsMessage DEF PopSent, OneSendOutstanding, TypeOK
      <3> QED
        BY <2>5, <3>1, <3>2 DEF PopSent, TypeOK
    <2>6. ASSUME RegisterNext
          PROVE  TypeOK'
      BY <2>3, <2>6 DEF RegisterNext, TypeOK
    <2>7. ASSUME SendBroken
          PROVE  TypeOK'
      BY <2>7, HeadIsMessage DEF SendBroken, TypeOK
    <2>8. CASE UNCHANGED vars
      BY <2>8 DEF vars, TypeOK
    <2> QED
      BY <2>1, <2>2, <2>4, <2>5, <2>6, <2>7, <2>8 DEF Next
  <1> QED
    BY <1>1, <1>2

-----------------------------------------------------------------------------
\* A queue of at most one element is empty after its tail is taken.
LEMMA TailOfOne ==
    ASSUME NEW S, NEW q \in Seq(S), q # <<>>, Len(q) <= 1
    PROVE  Tail(q) = <<>>
  <1> QED
    BY HeadTailProperties, EmptySeq

\* The two invariants hold each other up: the owner of m_isSending is alone, so
\* it posts only when nothing is in flight; and what is in flight is the front
\* of the queue, so its completion removes the message it sent.
LEMMA OwnerInductive ==
    /\ Init => OneSendOutstanding /\ SoleOwner
    /\ TypeOK /\ OneSendOutstanding /\ SoleOwner /\ [Next]_vars
          => (OneSendOutstanding /\ SoleOwner)'
  <1>1. Init => OneSendOutstanding /\ SoleOwner
    BY DEF Init, OneSendOutstanding, SoleOwner, Owners
  <1>2. TypeOK /\ OneSendOutstanding /\ SoleOwner /\ [Next]_vars
            => (OneSendOutstanding /\ SoleOwner)'
    <2> SUFFICES ASSUME TypeOK, OneSendOutstanding, SoleOwner, [Next]_vars
                 PROVE  (OneSendOutstanding /\ SoleOwner)'
      OBVIOUS
    <2>1. ASSUME NEW t \in Senders, Push(t)
          PROVE  (OneSendOutstanding /\ SoleOwner)'
      <3>1. Owners' = Owners
        BY <2>1 DEF Push, Owners, TypeOK
      <3>2. inFlight # <<>> => queue' # <<>> /\ queue'[1] = queue[1]
        <4>1. queue' = Append(queue, Len(pushed) + 1) /\ queue \in Seq(Messages)
          BY <2>1 DEF Push, Enqueued, TypeOK
        <4>2. inFlight # <<>> => queue # <<>>
          BY DEF OneSendOutstanding
        <4> QED
          BY <4>1, <4>2
      <3> QED
        BY <2>1, <3>1, <3>2 DEF Push, OneSendOutstanding, SoleOwner
    <2>2. ASSUME NEW t \in Senders, Exchange(t)
          PROVE  (OneSendOutstanding /\ SoleOwner)'
      <3>1. CASE isSending
        <4>1. Owners' = Owners
          BY <2>2, <3>1 DEF Exchange, Claims, Owners, TypeOK
        <4> QED
          BY <2>2, <3>1, <4>1 DEF Exchange, OneSendOutstanding, SoleOwner
      <3>2. CASE ~isSending
        <4>1. Owners' = Owners \cup {t}
          BY <2>2, <3>2 DEF Exchange, Claims, Owners, TypeOK
        <4>2. Owners = {} /\ inFlight = <<>> /\ completer = "idle"
          BY <3>2 DEF SoleOwner, TypeOK
        <4> QED
          BY <2>2, <4>1, <4>2 DEF Exchange, OneSendOutstanding, SoleOwner
      <3> QED
        BY <3>1, <3>2
    <2>3. ASSUME RegisterSend, UNCHANGED queue, inFlight = <<>>, isSending,
                 Owners' = {}, completer' = "idle"
          PROVE  (OneSendOutstanding /\ SoleOwner)'
      <3>1. CASE Rest \/ Refused
        BY <2>3, <3>1 DEF Rest, Refused, OneSendOutstanding, SoleOwner
      <3>2. CASE PostFront
        <4>1. queue # <<>> /\ inFlight' = <<queue[1]>>
          BY <2>3, <3>2, HeadIsMessage, AppendProperties DEF PostFront, TypeOK
        <4> QED
          BY <2>3, <3>2, <4>1 DEF PostFront, OneSendOutstanding, SoleOwner
      <3> QED
        BY <2>3, <3>1, <3>2 DEF RegisterSend
    <2>4. ASSUME NEW t \in Senders, Register(t)
          PROVE  (OneSendOutstanding /\ SoleOwner)'
      <3>1. t \in Owners /\ Owners' = Owners \ {t}
        BY <2>4 DEF Register, Owners, TypeOK
      <3>2. Owners' = {} /\ inFlight = <<>> /\ completer = "idle" /\ isSending
        BY <3>1 DEF SoleOwner
      <3> QED
        BY <2>3, <2>4, <3>2 DEF Register
    <2>5. ASSUME PopSent
          PROVE  (OneSendOutstanding /\ SoleOwner)'
      <3>1. inFlight' = <<>>
        BY <2>5, TailOfOne DEF PopSent, OneSendOutstanding, TypeOK
      <3>2. Owners' = {} /\ isSending'
        BY <2>5 DEF PopSent, SoleOwner, Owners
      <3> QED
        BY <3>1, <3>2 DEF OneSendOutstanding, SoleOwner
    <2>6. ASSUME RegisterNext
          PROVE  (OneSendOutstanding /\ SoleOwner)'
      <3>1. Owners' = {} /\ inFlight = <<>> /\ isSending
        BY <2>6 DEF RegisterNext, SoleOwner, Owners
      <3> QED
        BY <2>3, <2>6, <3>1 DEF RegisterNext
    <2>7. ASSUME SendBroken
          PROVE  (OneSendOutstanding /\ SoleOwner)'
      <3>1. inFlight' = <<>>
        BY <2>7, TailOfOne DEF SendBroken, OneSendOutstanding, TypeOK
      <3>2. Owners' = {} /\ isSending' /\ completer' = completer
        BY <2>7 DEF SendBroken, SoleOwner, Owners
      <3> QED
        BY <3>1, <3>2 DEF OneSendOutstanding, SoleOwner
    <2>8. CASE UNCHANGED vars
      BY <2>8 DEF vars, OneSendOutstanding, SoleOwner, Owners
    <2> QED
      BY <2>1, <2>2, <2>4, <2>5, <2>6, <2>7, <2>8 DEF Next
  <1> QED
    BY <1>1, <1>2

\* The types do not depend on the interleaving.
THEOREM TypeCorrect == Spec => []TypeOK
  <1> QED
    BY TypeInductive, OwnerInductive, PTL DEF Spec

\* One overlapped send at a time, from a buffer that stays in place.
THEOREM OneSend == Spec => []OneSendOutstanding
  <1> QED
    BY TypeInductive, OwnerInductive, PTL DEF Spec

\* One owner of m_isSending at a time.
THEOREM OneOwner == Spec => []SoleOwner
  <1> QED
    BY TypeInductive, OwnerInductive, PTL DEF Spec

-----------------------------------------------------------------------------
\* While no send fails, m_isSending is set only as long as someone is there to
\* reset it or to send on ...
Attended ==
    isSending => inFlight # <<>> \/ completer = "register" \/ Owners # {} \/ failed

\* ... and so every queued message has someone to send it.
THEOREM NothingStranded == Spec => []NoneStranded
  <1> DEFINE Inv == TypeOK /\ OneSendOutstanding /\ SoleOwner
  <1>1. Init => Attended /\ NoneStranded
    BY DEF Init, Attended, NoneStranded
  <1>2. Inv /\ Attended /\ NoneStranded /\ [Next]_vars
            => (Attended /\ NoneStranded)'
    <2> SUFFICES ASSUME Inv, Attended, NoneStranded, [Next]_vars
                 PROVE  (Attended /\ NoneStranded)'
      OBVIOUS
    <2>1. ASSUME NEW t \in Senders, Push(t)
          PROVE  (Attended /\ NoneStranded)'
      BY <2>1 DEF Push, Attended, NoneStranded, Owners, TypeOK
    <2>2. ASSUME NEW t \in Senders, Exchange(t)
          PROVE  (Attended /\ NoneStranded)'
      BY <2>2 DEF Exchange, Claims, Attended, NoneStranded, Owners, TypeOK
    <2>3. ASSUME RegisterSend, UNCHANGED queue
          PROVE  \/ queue' = <<>> /\ ~isSending'
                 \/ inFlight' # <<>>
                 \/ failed'
      <3>1. CASE PostFront
        BY <3>1, HeadIsMessage, AppendProperties DEF PostFront, TypeOK
      <3> QED
        BY <2>3, <3>1 DEF RegisterSend, Rest, Refused
    <2>4. ASSUME NEW t \in Senders, Register(t)
          PROVE  (Attended /\ NoneStranded)'
      BY <2>3, <2>4 DEF Register, Attended, NoneStranded
    <2>5. ASSUME PopSent
          PROVE  (Attended /\ NoneStranded)'
      BY <2>5 DEF PopSent, Attended, NoneStranded
    <2>6. ASSUME RegisterNext
          PROVE  (Attended /\ NoneStranded)'
      BY <2>3, <2>6 DEF RegisterNext, Attended, NoneStranded
    <2>7. ASSUME SendBroken
          PROVE  (Attended /\ NoneStranded)'
      BY <2>7 DEF SendBroken, Attended, NoneStranded
    <2>8. CASE UNCHANGED vars
      BY <2>8 DEF vars, Attended, NoneStranded, Owners
    <2> QED
      BY <2>1, <2>2, <2>4, <2>5, <2>6, <2>7, <2>8 DEF Next
  <1> QED
    BY <1>1, <1>2, TypeInductive, OwnerInductive, PTL DEF Spec

-----------------------------------------------------------------------------
\* Where the queue stands in the stream: messages are their numbers, those in
\* the queue are the last ones pushed, and those before them have been posted.
\* A posted message stays in the queue until its completion; after a completion
\* of 0 bytes it stays for good, and m_isSending with it.
Numbered ==
    /\ \A i \in 1 .. Len(pushed) : pushed[i] = i
    /\ \A i \in 1 .. Len(queue) : queue[i] = Len(pushed) - Len(queue) + i
    /\ Len(queue) <= Len(pushed)
ToPost == Len(pushed) - Len(posted)
InPlace ==
    /\ inFlight = <<>> /\ (completer = "register" \/ Owners # {} \/ ~isSending)
          => Len(queue) = ToPost
    /\ inFlight # <<>> => Len(queue) = ToPost + 1
LEMMA PlaceInductive ==
    /\ Init => Numbered /\ InPlace
    /\ TypeOK /\ OneSendOutstanding /\ SoleOwner /\ Numbered /\ InPlace /\ [Next]_vars
          => (Numbered /\ InPlace)'
  <1>1. Init => Numbered /\ InPlace
    BY DEF Init, Numbered, InPlace, ToPost
  <1>2. TypeOK /\ OneSendOutstanding /\ SoleOwner /\ Numbered /\ InPlace /\ [Next]_vars
            => (Numbered /\ InPlace)'
    <2> SUFFICES ASSUME TypeOK, OneSendOutstanding, SoleOwner, Numbered, InPlace,
                        [Next]_vars
                 PROVE  (Numbered /\ InPlace)'
      OBVIOUS
    <2>0. /\ Len(queue) \in Nat /\ Len(pushed) \in Nat /\ Len(posted) \in Nat
          /\ queue = <<>> => Len(queue) = 0
      BY LenProperties, EmptySeq DEF TypeOK
    <2>1. ASSUME NEW t \in Senders, Push(t)
          PROVE  (Numbered /\ InPlace)'
      <3> DEFINE message == Len(pushed) + 1
      <3>1. message \in Messages
        BY <2>0, <2>1, SendAssumption DEF Push, Messages
      <3>2. queue' = Append(queue, message) /\ pushed' = Append(pushed, message)
        BY <2>1 DEF Push, Enqueued
      <3> HIDE DEF message
      <3>3. /\ Len(queue') = Len(queue) + 1 /\ Len(pushed') = Len(pushed) + 1
            /\ \A i \in 1 .. Len(queue) : queue'[i] = queue[i]
            /\ \A i \in 1 .. Len(pushed) : pushed'[i] = pushed[i]
            /\ queue'[Len(queue) + 1] = message
            /\ pushed'[Len(pushed) + 1] = message
        BY <3>1, <3>2, AppendProperties DEF TypeOK
      <3>4. Numbered'
        <4>1. ASSUME NEW i \in 1 .. Len(pushed')
              PROVE  pushed'[i] = i
          <5>1. i = Len(pushed) + 1 \/ i \in 1 .. Len(pushed)
            BY <2>0, <3>3
          <5> QED
            BY <3>3, <5>1 DEF Numbered, message
        <4>2. ASSUME NEW i \in 1 .. Len(queue')
              PROVE  queue'[i] = Len(pushed') - Len(queue') + i
          <5>1. /\ i = Len(queue) + 1 \/ i \in 1 .. Len(queue)
                /\ Len(pushed') - Len(queue') = Len(pushed) - Len(queue)
            BY <2>0, <3>3
          <5>2. CASE i \in 1 .. Len(queue)
            BY <3>3, <5>1, <5>2 DEF Numbered
          <5>3. CASE i = Len(queue) + 1
            BY <2>0, <3>3, <5>1, <5>3 DEF message
          <5> QED
            BY <5>1, <5>2, <5>3
        <4>3. Len(queue') <= Len(pushed')
          BY <2>0, <3>3 DEF Numbered
        <4> QED
          BY <4>1, <4>2, <4>3 DEF Numbered
      <3>5. Owners' = Owners
        BY <2>1 DEF Push, Owners, TypeOK
      <3>6. /\ ToPost' = ToPost + 1
            /\ UNCHANGED <<inFlight, completer, isSending>>
        BY <2>0, <2>1, <3>3 DEF Push, ToPost
      <3>7. InPlace'
        BY <2>0, <3>3, <3>5, <3>6 DEF InPlace, ToPost
      <3> QED
        BY <3>4, <3>7
    <2>2. ASSUME NEW t \in Senders, Exchange(t)
          PROVE  (Numbered /\ InPlace)'
      <3>1. Owners' = Owners \/ ~isSending
        BY <2>2 DEF Exchange, Claims, Owners, TypeOK
      <3> QED
        BY <2>2, <3>1 DEF Exchange, Numbered, InPlace, ToPost
    <2>3. ASSUME RegisterSend, UNCHANGED <<queue, pushed>>,
                 inFlight = <<>>, Len(queue) = ToPost
          PROVE  (Numbered /\ InPlace)'
      <3>1. CASE Rest \/ Refused
        BY <2>3, <3>1 DEF Rest, Refused, Numbered, InPlace, ToPost
      <3>2. CASE PostFront
        <4>1. /\ inFlight' # <<>>
              /\ Len(posted') = Len(posted) + 1
          BY <3>2, HeadIsMessage, AppendProperties DEF PostFront, TypeOK
        <4> QED
          BY <2>0, <2>3, <4>1 DEF Numbered, InPlace, ToPost
      <3> QED
        BY <2>3, <3>1, <3>2 DEF RegisterSend
    <2>4. ASSUME NEW t \in Senders, Register(t)
          PROVE  (Numbered /\ InPlace)'
      <3>1. t \in Owners
        BY <2>4 DEF Register, Owners
      <3> QED
        BY <2>3, <2>4, <3>1 DEF Register, SoleOwner, InPlace
    <2>5. ASSUME PopSent
          PROVE  (Numbered /\ InPlace)'
      <3>1. queue # <<>> /\ Len(queue) = ToPost + 1
        BY <2>5 DEF PopSent, OneSendOutstanding, InPlace
      <3>2. /\ Len(queue') = Len(queue) - 1
            /\ \A i \in 1 .. Len(queue') : queue'[i] = queue[i + 1]
        BY <2>5, <3>1, HeadTailProperties DEF PopSent, TypeOK
      <3>3. inFlight' = <<>>
        BY <2>5, TailOfOne DEF PopSent, OneSendOutstanding, TypeOK
      <3>4. Numbered'
        <4>1. pushed' = pushed
          BY <2>5 DEF PopSent
        <4>2. ASSUME NEW i \in 1 .. Len(queue')
              PROVE  queue'[i] = Len(pushed') - Len(queue') + i
          <5>1. i + 1 \in 1 .. Len(queue)
            BY <2>0, <3>2
          <5>2. queue[i + 1] = Len(pushed) - Len(queue) + (i + 1)
            BY <5>1 DEF Numbered
          <5> QED
            BY <2>0, <3>2, <4>1, <5>1, <5>2
        <4>3. Len(queue') <= Len(pushed')
          BY <2>0, <3>2, <4>1 DEF Numbered
        <4> QED
          BY <4>1, <4>2, <4>3 DEF Numbered
      <3> QED
        BY <2>0, <2>5, <3>1, <3>2, <3>3, <3>4 DEF PopSent, InPlace, ToPost
    <2>6. ASSUME RegisterNext
          PROVE  (Numbered /\ InPlace)'
      BY <2>3, <2>6 DEF RegisterNext, SoleOwner, InPlace
    <2>7. ASSUME SendBroken
          PROVE  (Numbered /\ InPlace)'
      <3>1. /\ inFlight' = <<>> /\ isSending' /\ Owners' = {}
            /\ completer' # "register"
        BY <2>7, TailOfOne
        DEF SendBroken, OneSendOutstanding, SoleOwner, Owners, TypeOK
      <3> QED
        BY <2>7, <3>1 DEF SendBroken, Numbered, InPlace
    <2>8. CASE UNCHANGED vars
      BY <2>8 DEF vars, Numbered, InPlace, ToPost, Owners
    <2> QED
      BY <2>1, <2>2, <2>4, <2>5, <2>6, <2>7, <2>8 DEF Next
  <1> QED
    BY <1>1, <1>2

\* Every step of the send path is a step of the promise or none: a push accepts
\* a message, WSASend takes the next one in the order of the pushes, and
\* refusals and broken sends change neither.
THEOREM OrderKept == Spec => KeepsOrder
  <1> DEFINE Inv == TypeOK /\ OneSendOutstanding /\ SoleOwner /\ Numbered /\ InPlace
  <1>1. Init => Promise!Init
    BY DEF Init, Promise!Init
  <1>2. Inv /\ [Next]_vars => [Promise!Next]_(Promise!vars)
    <2> SUFFICES ASSUME Inv, Next
                 PROVE  Promise!Next \/ UNCHANGED Promise!vars
      BY DEF vars, Promise!vars
    <2>1. ASSUME NEW t \in Senders, Push(t)
          PROVE  Promise!Next
      <3>1. Len(pushed) + 1 \in Messages /\ Len(pushed) < MaxSent
        <4>1. Len(pushed) \in Nat
          BY LenProperties DEF TypeOK
        <4> QED
          BY <2>1, <4>1, SendAssumption DEF Push, Messages
      <3> QED
        BY <2>1, <3>1 DEF Push, Promise!Next, Promise!Accept
    <2>2. ASSUME RegisterSend, UNCHANGED <<queue, pushed>>,
                 inFlight = <<>>, Len(queue) = ToPost
          PROVE  Promise!Next \/ UNCHANGED Promise!vars
      <3>1. CASE PostFront
        <4>1. /\ Len(queue) \in Nat \ {0}
              /\ Len(pushed) \in Nat /\ Len(posted) \in Nat
          BY <3>1, EmptySeq, LenProperties DEF PostFront, TypeOK
        <4>2. Head(queue) = queue[1]
          BY <3>1, HeadIsMessage DEF PostFront, TypeOK
        <4>3. /\ Len(posted) < Len(pushed)
              /\ queue[1] = Len(posted) + 1
              /\ pushed[Len(posted) + 1] = Len(posted) + 1
          BY <2>2, <4>1 DEF Numbered, ToPost
        <4> QED
          BY <2>2, <3>1, <4>2, <4>3 DEF PostFront, Promise!Next, Promise!Deliver
      <3> QED
        BY <2>2, <3>1 DEF RegisterSend, Rest, Refused, Promise!vars
    <2>3. ASSUME NEW t \in Senders, Register(t)
          PROVE  Promise!Next \/ UNCHANGED Promise!vars
      <3>1. t \in Owners
        BY <2>3 DEF Register, Owners
      <3> QED
        BY <2>2, <2>3, <3>1 DEF Register, SoleOwner, InPlace
    <2>4. CASE RegisterNext
      BY <2>2, <2>4 DEF RegisterNext, SoleOwner, InPlace
    <2>5. CASE PopSent \/ SendBroken \/ \E t \in Senders : Exchange(t)
      BY <2>5 DEF PopSent, SendBroken, Exchange, Promise!vars
    <2> QED
      BY <2>1, <2>3, <2>4, <2>5 DEF Next
  <1> QED
    BY <1>1, <1>2, TypeInductive, OwnerInductive, PlaceInductive, PTL
    DEF Spec, KeepsOrder, Promise!Spec
=============================================================================
