------------------------- MODULE AsyncLoggerProofs -------------------------
(***************************************************************************)
(* Proofs about AsyncLogger: no wake-up is lost, no line and no error is   *)
(* lost, doubled or overtaken, nothing logged before the destructor is     *)
(* left behind, and the cool-down holds, for any threads and any clock.    *)
(***************************************************************************)
EXTENDS AsyncLogger, SequenceTheorems, TLAPS

\* No wake-up is lost.  The invariant is inductive as it stands: whoever fills
\* a queue or ends the server notifies afterwards, and the logger goes to sleep
\* only when it sees nothing to do, under the same mutex.
THEOREM NoWakeUpLost == Spec => []NoSleepOverWork
<1>1. Init => NoSleepOverWork
  BY DEF Init, NoSleepOverWork
<1>2. NoSleepOverWork /\ [Next]_vars => NoSleepOverWork'
  <2> SUFFICES ASSUME NoSleepOverWork, [Next]_vars PROVE NoSleepOverWork'
    OBVIOUS
  <2> USE DEF NoSleepOverWork
  <2>1. CASE Tick
    BY <2>1 DEF Tick, queues
  <2>2. CASE Configure
    BY <2>2 DEF Configure, queues
  <2>3. ASSUME NEW t \in Threads, Log(t) \/ LogError(t) PROVE NoSleepOverWork'
    BY <2>3 DEF Log, LogError, Push
  <2>4. ASSUME NEW t \in Threads, NotifyOne(t) PROVE NoSleepOverWork'
    <3>1. logger' # "asleep"
      BY <2>4 DEF NotifyOne, Woken
    <3> QED BY <3>1
  <2>5. CASE Destroy
    BY <2>5 DEF Destroy, queues
  <2>6. CASE NotifyAll
    <3>1. logger' # "asleep"
      BY <2>6 DEF NotifyAll, Woken
    <3> QED BY <3>1
  <2>7. CASE SpuriousWakeUp \/ End \/ Pop \/ Write \/ WriteThrows \/ Skip \/ AskLlm \/ SendToDiscord
    <3>1. logger' # "asleep"
      BY <2>7 DEF SpuriousWakeUp, End, Pop, Write, WriteThrows, Skip, AskLlm, SendToDiscord
    <3> QED BY <3>1
  <2>8. CASE Sleep
    BY <2>8 DEF Sleep, HasWork, queues
  <2>9. CASE UNCHANGED vars
    BY <2>9 DEF vars, queues
  <2> QED
    BY <2>1, <2>2, <2>3, <2>4, <2>5, <2>6, <2>7, <2>8, <2>9 DEF Next, Step, ProcessLoop
<1> QED BY <1>1, <1>2, PTL DEF Spec

-----------------------------------------------------------------------------
\* LinesConserved, line by line: the lines printed are the first ones, the one
\* in hand is the next, and the queue holds the rest.
InHand == IF line = 0 THEN 0 ELSE 1
Base   == Len(printed) + InHand

LinesInv ==
    /\ count \in Nat
    /\ line \in Nat
    /\ printed \in Seq(Nat)
    /\ logQueue \in Seq(Nat)
    /\ Base + Len(logQueue) = count
    /\ \A i \in 1 .. Len(printed) : printed[i] = i
    /\ line # 0 => line = Len(printed) + 1
    /\ \A i \in 1 .. Len(logQueue) : logQueue[i] = Base + i
    /\ logger # "write" => line = 0

\* The front of a queue, and what is left.
LEMMA FrontPopped ==
    ASSUME NEW q \in Seq(Nat), q # <<>>
    PROVE  /\ Front(q) = q[1] /\ q[1] \in Nat
           /\ Popped(q) \in Seq(Nat)
           /\ Len(Popped(q)) = Len(q) - 1
           /\ \A i \in 1 .. Len(Popped(q)) : Popped(q)[i] = q[i + 1]
  BY HeadTailProperties DEF Front, Popped

\* Steps that touch no line, and leave no line in hand.
LEMMA LinesUntouched ==
    ASSUME LinesInv,
           UNCHANGED <<count, line, printed, logQueue>>,
           logger' = "write" \/ logger # "write"
    PROVE  LinesInv'
  BY DEF LinesInv, Base, InHand

\* The line in hand goes to the end, if there is one.
LEMMA HeldAppended ==
    ASSUME NEW s \in Seq(Nat), NEW x \in Nat
    PROVE  s \o Held(x) = IF x = 0 THEN s ELSE Append(s, x)
  BY AppendIsConcat, ConcatEmptySeq DEF Held

LEMMA PrintedGrows ==
    ASSUME LinesInv
    PROVE  printed \o Held(line) = IF line = 0 THEN printed ELSE Append(printed, line)
  BY HeldAppended DEF LinesInv

LEMMA StepLines == LinesInv /\ [Next]_vars => LinesInv'
<1> SUFFICES ASSUME LinesInv, [Next]_vars PROVE LinesInv'
  OBVIOUS
<1>1. CASE Tick \/ Configure \/ Destroy \/ Sleep \/ SpuriousWakeUp \/ End
           \/ Skip \/ AskLlm \/ SendToDiscord
  <2>1. /\ UNCHANGED <<count, line, printed, logQueue>>
        /\ logger' = logger \/ logger # "write"
    BY <1>1 DEF Tick, Configure, Destroy, Sleep, SpuriousWakeUp, End, Skip, AskLlm,
                SendToDiscord, queues, histories
  <2> QED BY <2>1, LinesUntouched
<1>2. ASSUME NEW t \in Threads, NotifyOne(t) PROVE LinesInv'
  <2>1. /\ UNCHANGED <<count, line, printed, logQueue>>
        /\ logger' = "write" \/ logger # "write"
    BY <1>2 DEF NotifyOne, Woken, queues, histories
  <2> QED BY <2>1, LinesUntouched
<1>3. ASSUME NEW t \in Threads, Log(t) \/ LogError(t) PROVE LinesInv'
  <2>1. /\ count' = count + 1
        /\ logQueue' = Append(logQueue, count + 1)
        /\ UNCHANGED <<line, printed, logger>>
    BY <1>3 DEF Log, LogError, Push, histories
  <2>2. /\ logQueue' \in Seq(Nat)
        /\ Len(logQueue') = Len(logQueue) + 1
        /\ \A i \in 1 .. Len(logQueue) : logQueue'[i] = logQueue[i]
        /\ logQueue'[Len(logQueue) + 1] = count + 1
    BY <2>1, AppendProperties DEF LinesInv
  <2>3. Base' = Base /\ Base \in Nat /\ Len(logQueue) \in Nat
    BY <2>1, LenProperties DEF LinesInv, Base, InHand
  <2>4. ASSUME NEW i \in 1 .. Len(logQueue') PROVE logQueue'[i] = Base' + i
    <3>1. i \in 1 .. Len(logQueue) \/ i = Len(logQueue) + 1
      BY <2>2, <2>3
    <3>2. count + 1 = Base + (Len(logQueue) + 1)
      <4>1. Base + Len(logQueue) = count
        BY DEF LinesInv
      <4> QED BY <2>3, <4>1
    <3> QED BY <2>2, <2>3, <3>1, <3>2 DEF LinesInv
  <2> QED BY <2>1, <2>2, <2>3, <2>4 DEF LinesInv
<1>4. CASE Pop
  <2>1. line = 0 /\ Base = Len(printed) /\ Len(printed) \in Nat
    BY <1>4, LenProperties DEF Pop, LinesInv, Base, InHand
  <2>2. UNCHANGED <<count, printed>> /\ logger' = "write"
    BY <1>4 DEF Pop, histories
  <2>3. CASE logQueue = <<>>
    <3>1. line' = 0 /\ logQueue' = logQueue
      BY <1>4, <2>3 DEF Pop, Front, Popped
    <3> QED BY <2>1, <2>2, <3>1 DEF LinesInv, Base, InHand
  <2>4. CASE logQueue # <<>>
    <3>1. line' = Front(logQueue) /\ logQueue' = Popped(logQueue)
      BY <1>4 DEF Pop
    <3>2. Len(logQueue) \in Nat \ {0}
      BY <2>4, EmptySeq, LenProperties DEF LinesInv
    <3>3. line' = Len(printed) + 1
      <4>1. line' = logQueue[1]
        BY <2>4, <3>1, FrontPopped DEF LinesInv
      <4>2. 1 \in 1 .. Len(logQueue)
        BY <3>2
      <4>3. logQueue[1] = Base + 1
        BY <4>2 DEF LinesInv
      <4> QED BY <2>1, <4>1, <4>3
    <3>4. Base' = Base + 1
      BY <2>1, <2>2, <3>3 DEF Base, InHand
    <3>5. /\ logQueue' \in Seq(Nat)
          /\ Len(logQueue') = Len(logQueue) - 1
          /\ \A i \in 1 .. Len(logQueue') : logQueue'[i] = logQueue[i + 1]
      BY <2>4, <3>1, FrontPopped DEF LinesInv
    <3>6. ASSUME NEW i \in 1 .. Len(logQueue') PROVE logQueue'[i] = Base' + i
      <4>1. i + 1 \in 1 .. Len(logQueue) /\ logQueue'[i] = logQueue[i + 1]
        BY <3>2, <3>5
      <4>2. logQueue[i + 1] = Base + (i + 1)
        BY <4>1 DEF LinesInv
      <4> QED BY <2>1, <3>4, <4>1, <4>2
    <3>7. Base' + Len(logQueue') = count'
      <4>1. Base + Len(logQueue) = count /\ count \in Nat
        BY DEF LinesInv
      <4>2. Base \in Nat
        BY <2>1
      <4>3. Len(logQueue') = Len(logQueue) - 1 /\ count' = count
        BY <2>2, <3>5
      <4> QED BY <3>2, <3>4, <4>1, <4>2, <4>3
    <3> QED BY <2>1, <2>2, <3>3, <3>5, <3>6, <3>7 DEF LinesInv
  <2> QED BY <2>3, <2>4
<1>5. CASE Write \/ WriteThrows
  <2>1. /\ UNCHANGED <<count, logQueue>> /\ line' = 0 /\ logger' # "write"
        /\ \/ line = 0 /\ printed' = printed
           \/ line # 0 /\ printed' = Append(printed, line)
    BY <1>5, PrintedGrows DEF Write, WriteThrows, queues
  <2>2. Len(printed) \in Nat
    BY LenProperties DEF LinesInv
  <2>3. CASE line = 0
    <3>1. UNCHANGED <<count, line, printed, logQueue>>
      BY <2>1, <2>3
    <3> QED BY <2>1, <2>3, <3>1 DEF LinesInv, Base, InHand
  <2>4. CASE line # 0
    <3>0. printed' = Append(printed, line)
      BY <2>1, <2>4
    <3>1. /\ printed' \in Seq(Nat)
          /\ Len(printed') = Len(printed) + 1
          /\ \A i \in 1 .. Len(printed) : printed'[i] = printed[i]
          /\ printed'[Len(printed) + 1] = line
      BY <3>0, AppendProperties DEF LinesInv
    <3>2. ASSUME NEW i \in 1 .. Len(printed') PROVE printed'[i] = i
      <4>1. i \in 1 .. Len(printed) \/ i = Len(printed) + 1
        BY <2>2, <3>1
      <4> QED BY <2>4, <3>1, <4>1 DEF LinesInv
    <3>3. Base' = Base
      BY <2>1, <2>2, <2>4, <3>1 DEF Base, InHand
    <3> QED BY <2>1, <3>1, <3>2, <3>3 DEF LinesInv
  <2> QED BY <2>3, <2>4
<1>6. CASE NotifyAll
  <2>1. /\ UNCHANGED <<count, line, printed, logQueue>>
        /\ logger' = "write" \/ logger # "write"
    BY <1>6 DEF NotifyAll, Woken, queues, histories
  <2> QED BY <2>1, LinesUntouched
<1>7. CASE UNCHANGED vars
  BY <1>7, LinesUntouched DEF vars, queues, histories
<1> QED
  BY <1>1, <1>2, <1>3, <1>4, <1>5, <1>6, <1>7 DEF Next, Step, ProcessLoop

LEMMA LinesInvariant == Spec => []LinesInv
<1>1. Init => LinesInv
  <2> SUFFICES ASSUME Init PROVE LinesInv
    OBVIOUS
  <2>1. <<>> \in Seq(Nat) /\ Len(<<>>) = 0
    OBVIOUS
  <2> QED BY <2>1 DEF Init, LinesInv, Base, InHand
<1> QED BY <1>1, StepLines, PTL DEF Spec

\* A sequence that counts from 1, and one that goes on from there.
LEMMA ConcatCounts ==
    ASSUME NEW s \in Seq(Nat), NEW r \in Seq(Nat),
           \A i \in 1 .. Len(s) : s[i] = i,
           \A i \in 1 .. Len(r) : r[i] = Len(s) + i
    PROVE  /\ s \o r \in Seq(Nat)
           /\ Len(s \o r) = Len(s) + Len(r)
           /\ \A i \in 1 .. Len(s \o r) : (s \o r)[i] = i
<1>1. /\ s \o r \in Seq(Nat)
      /\ Len(s \o r) = Len(s) + Len(r)
      /\ Len(s) \in Nat /\ Len(r) \in Nat
  BY ConcatProperties, LenProperties
<1>2. ASSUME NEW i \in 1 .. Len(s \o r) PROVE (s \o r)[i] = i
  <2>1. (s \o r)[i] = IF i <= Len(s) THEN s[i] ELSE r[i - Len(s)]
    BY <1>1, ConcatProperties
  <2>2. CASE i <= Len(s)
    BY <1>1, <2>1, <2>2
  <2>3. CASE ~(i <= Len(s))
    <3>1. i - Len(s) \in 1 .. Len(r)
      BY <1>1, <2>3
    <3>2. r[i - Len(s)] = Len(s) + (i - Len(s))
      BY <3>1
    <3> QED BY <1>1, <2>1, <2>3, <3>2
  <2> QED BY <2>2, <2>3
<1> QED BY <1>1, <1>2

\* The lines printed, in hand and queued, in this order, are those logged.
THEOREM NoLineLost == Spec => []LinesConserved
<1>1. LinesInv => LinesConserved
  <2> SUFFICES ASSUME LinesInv PROVE LinesConserved
    OBVIOUS
  <2> DEFINE all == printed \o Held(line) \o logQueue
             one == printed \o Held(line)
  <2>1. Held(line) \in Seq(Nat) /\ Len(Held(line)) = InHand
    BY DEF Held, InHand, LinesInv
  <2>2. \A i \in 1 .. Len(Held(line)) : Held(line)[i] = Len(printed) + i
    BY DEF Held, LinesInv
  <2>3. /\ one \in Seq(Nat) /\ Len(one) = Base
        /\ \A i \in 1 .. Len(one) : one[i] = i
    BY <2>1, <2>2, ConcatCounts DEF LinesInv, Base
  <2>4. /\ all \in Seq(Nat) /\ Len(all) = count
        /\ \A i \in 1 .. Len(all) : all[i] = i
    <3> HIDE DEF one
    <3>1. \A i \in 1 .. Len(logQueue) : logQueue[i] = Len(one) + i
      BY <2>3 DEF LinesInv
    <3>2. /\ one \o logQueue \in Seq(Nat)
          /\ Len(one \o logQueue) = Len(one) + Len(logQueue)
          /\ \A i \in 1 .. Len(one \o logQueue) : (one \o logQueue)[i] = i
      BY <2>3, <3>1, ConcatCounts DEF LinesInv
    <3>3. all = one \o logQueue
      BY DEF one
    <3> QED BY <2>3, <3>2, <3>3 DEF LinesInv
  <2>5. all = [i \in 1 .. count |-> i]
    <3> HIDE DEF all
    <3>1. all = [i \in 1 .. Len(all) |-> all[i]]
      BY <2>4
    <3> QED BY <2>4, <3>1
  <2> QED BY <2>5 DEF LinesConserved
<1> QED BY <1>1, LinesInvariant, PTL

-----------------------------------------------------------------------------
\* What the destructor was promised has been logged, and the logger ends only
\* after the destructor began, with every line printed.
EndInv ==
    /\ promised \in Nat /\ promised <= count
    /\ running <=> destructor = "no"
    /\ logger = "ended" => ~running /\ promised <= Len(printed)

\* Steps that change neither the destructor's promise nor the end.
LEMMA EndUntouched ==
    ASSUME LinesInv, EndInv,
           UNCHANGED <<promised, running>>,
           destructor' = destructor \/ (destructor # "no" /\ destructor' # "no"),
           count' \in Nat, count <= count',
           logger' = "ended" => logger = "ended" /\ printed' = printed
    PROVE  EndInv'
  BY DEF EndInv, LinesInv

LEMMA StepEnd == LinesInv /\ EndInv /\ [Next]_vars => EndInv'
<1> SUFFICES ASSUME LinesInv, EndInv, [Next]_vars PROVE EndInv'
  OBVIOUS
<1>0. count \in Nat
  BY DEF LinesInv
<1>1. CASE Tick \/ Configure \/ Sleep \/ SpuriousWakeUp \/ Pop \/ Write
           \/ WriteThrows \/ Skip \/ AskLlm \/ SendToDiscord
  <2>1. /\ UNCHANGED <<promised, running, destructor, count>>
        /\ logger' = "ended" => logger = "ended" /\ printed' = printed
    BY <1>1 DEF Tick, Configure, Sleep, SpuriousWakeUp, Pop, Write, WriteThrows, Skip,
                AskLlm, SendToDiscord, queues, histories
  <2> QED BY <1>0, <2>1, EndUntouched
<1>2. ASSUME NEW t \in Threads, Log(t) \/ LogError(t) PROVE EndInv'
  <2>1. UNCHANGED <<promised, running, destructor, printed, logger>> /\ count' = count + 1
    BY <1>2 DEF Log, LogError, Push, histories
  <2> QED BY <1>0, <2>1, EndUntouched
<1>3. ASSUME NEW t \in Threads, NotifyOne(t) PROVE EndInv'
  <2>1. /\ UNCHANGED <<promised, running, destructor, count, printed>>
        /\ logger' = "ended" => logger = "ended"
    BY <1>3 DEF NotifyOne, Woken, queues, histories
  <2> QED BY <1>0, <2>1, EndUntouched
<1>4. CASE NotifyAll
  <2>1. /\ UNCHANGED <<promised, running, count, printed>>
        /\ destructor # "no" /\ destructor' # "no"
        /\ logger' = "ended" => logger = "ended"
    BY <1>4 DEF NotifyAll, Woken, queues, histories
  <2> QED BY <1>0, <2>1, EndUntouched
<1>5. CASE Destroy
  BY <1>0, <1>5 DEF Destroy, EndInv, queues
<1>6. CASE End
  <2>1. ~running /\ logQueue = <<>> /\ line = 0
    BY <1>6 DEF End, Finished, LinesInv
  <2>2. count = Len(printed)
    BY <2>1, LenProperties DEF LinesInv, Base, InHand
  <2>3. UNCHANGED <<promised, running, destructor, count, printed>>
    BY <1>6 DEF End, queues, histories
  <2> QED BY <2>1, <2>2, <2>3 DEF EndInv
<1>7. CASE UNCHANGED vars
  BY <1>0, <1>7, EndUntouched DEF vars, queues, histories
<1> QED
  BY <1>1, <1>2, <1>3, <1>4, <1>5, <1>6, <1>7 DEF Next, Step, ProcessLoop

-----------------------------------------------------------------------------
\* The log files.
FileInv ==
    /\ written \in Seq(Nat)
    /\ missed \subseteq 1 .. Len(printed)
    /\ FileKept

LEMMA StepFile == LinesInv /\ FileInv /\ [Next]_vars => FileInv'
<1> SUFFICES ASSUME LinesInv, FileInv, [Next]_vars PROVE FileInv'
  OBVIOUS
<1>0. /\ printed \in Seq(Nat) /\ line \in Nat /\ written \in Seq(Nat)
      /\ Len(printed) \in Nat /\ Len(written) \in Nat
      /\ line # 0 => line = Len(printed) + 1
      /\ missed \subseteq 1 .. Len(printed)
      /\ InFile = (1 .. Len(printed)) \ missed
      /\ \A i, j \in 1 .. Len(written) : i < j => written[i] < written[j]
  BY LenProperties DEF LinesInv, FileInv, FileKept
<1>1. CASE UNCHANGED <<printed, written, missed>>
  BY <1>1 DEF FileInv, FileKept, InFile
<1>2. ASSUME line # 0, printed' = Append(printed, line),
             written' = written, missed' = missed \cup {line}
      PROVE  FileInv'
  <2>1. Len(printed') = Len(printed) + 1
    BY <1>0, <1>2, AppendProperties
  <2>2. missed' \subseteq 1 .. Len(printed')
    BY <1>0, <1>2, <2>1
  <2>3. InFile' = (1 .. Len(printed')) \ missed'
    <3>1. InFile' = InFile
      BY <1>2 DEF InFile
    <3>2. (1 .. Len(printed')) \ missed' = (1 .. Len(printed)) \ missed
      BY <1>0, <1>2, <2>1
    <3> QED BY <1>0, <3>1, <3>2
  <2> QED BY <1>0, <1>2, <2>2, <2>3 DEF FileInv, FileKept
<1>3. ASSUME line # 0, printed' = Append(printed, line),
             written' = Append(written, line), missed' = missed
      PROVE  FileInv'
  <2>1. Len(printed') = Len(printed) + 1
    BY <1>0, <1>3, AppendProperties
  <2>2. /\ written' \in Seq(Nat) /\ Len(written') = Len(written) + 1
        /\ \A i \in 1 .. Len(written) : written'[i] = written[i]
        /\ written'[Len(written) + 1] = line
    BY <1>0, <1>3, AppendProperties
  <2>3. \A i \in 1 .. Len(written) : written[i] \in InFile /\ written[i] < line
    <3>1. \A i \in 1 .. Len(written) : written[i] \in InFile
      BY DEF InFile
    <3>2. \A n \in InFile : n < line
      BY <1>0, <1>3
    <3> QED BY <3>1, <3>2
  <2>4. ASSUME NEW i \in 1 .. Len(written'), NEW j \in 1 .. Len(written'), i < j
        PROVE  written'[i] < written'[j]
    <3>1. i \in 1 .. Len(written)
      BY <1>0, <2>2, <2>4
    <3>2. j \in 1 .. Len(written) \/ j = Len(written) + 1
      BY <1>0, <2>2
    <3>3. CASE j \in 1 .. Len(written)
      BY <1>0, <2>2, <2>4, <3>1, <3>3
    <3>4. CASE j = Len(written) + 1
      BY <2>2, <2>3, <3>1, <3>4
    <3> QED BY <3>2, <3>3, <3>4
  <2>5. InFile' = InFile \cup {line}
    <3>1. \A i \in 1 .. Len(written') : i \in 1 .. Len(written) \/ i = Len(written) + 1
      BY <1>0, <2>2
    <3>2. Len(written) + 1 \in 1 .. Len(written') /\ 1 .. Len(written) \subseteq 1 .. Len(written')
      BY <1>0, <2>2
    <3>3. InFile' \subseteq InFile \cup {line}
      BY <2>2, <3>1 DEF InFile
    <3>4. InFile \cup {line} \subseteq InFile'
      BY <2>2, <3>2 DEF InFile
    <3> QED BY <3>3, <3>4
  <2>6. InFile' = (1 .. Len(printed')) \ missed'
    BY <1>0, <1>3, <2>1, <2>5
  <2>7. missed' \subseteq 1 .. Len(printed')
    BY <1>0, <1>3, <2>1
  <2> QED BY <2>2, <2>4, <2>6, <2>7 DEF FileInv, FileKept
<1>4. CASE Write \/ WriteThrows
  <2>1. CASE line = 0
    <3>1. printed' = printed /\ written' = written /\ missed' = missed
      BY <1>0, <1>4, <2>1, HeldAppended DEF Write, WriteThrows
    <3> QED BY <1>1, <3>1
  <2>2. CASE line # 0
    <3>1. /\ printed' = Append(printed, line)
          /\ \/ written' = written /\ missed' = missed \cup {line}
             \/ written' = Append(written, line) /\ missed' = missed
      BY <1>0, <1>4, <2>2, HeldAppended DEF Write, WriteThrows
    <3> QED BY <1>2, <1>3, <2>2, <3>1
  <2> QED BY <2>1, <2>2
<1>5. CASE ~(Write \/ WriteThrows)
  <2>1. UNCHANGED <<printed, written, missed>>
    BY <1>5 DEF Next, Step, ProcessLoop, Tick, Configure, Log, LogError, Push, NotifyOne,
                Destroy, NotifyAll, Sleep, SpuriousWakeUp, End, Pop, Skip, AskLlm,
                SendToDiscord, vars, queues, histories
  <2> QED BY <1>1, <2>1
<1> QED BY <1>4, <1>5

LEMMA FileInvariant == Spec => []FileInv
<1>1. Init => FileInv
  <2> SUFFICES ASSUME Init PROVE FileInv
    OBVIOUS
  <2>1. printed = <<>> /\ written = <<>> /\ missed = {}
    BY DEF Init
  <2>2. <<>> \in Seq(Nat) /\ Len(<<>>) = 0 /\ 1 .. 0 = {}
    OBVIOUS
  <2> QED BY <2>1, <2>2 DEF FileInv, FileKept, InFile
<1> QED BY <1>1, StepFile, LinesInvariant, PTL DEF Spec

\* The logger thread leaves no line behind that was logged before the end.
THEOREM Drained == Spec => []DrainedAtEnd
<1>1. Init => EndInv
  BY DEF Init, EndInv
<1>2. LinesInv /\ EndInv /\ [Next]_vars => EndInv'
  BY StepEnd
<1>3. LinesInv /\ FileInv /\ EndInv => DrainedAtEnd
  <2> SUFFICES ASSUME LinesInv, FileInv, EndInv, logger = "ended"
               PROVE  1 .. promised \subseteq InFile \cup missed
    BY DEF DrainedAtEnd
  <2>1. promised \in Nat /\ promised <= Len(printed) /\ Len(printed) \in Nat
    BY LenProperties DEF EndInv, LinesInv
  <2>2. InFile = (1 .. Len(printed)) \ missed
    BY DEF FileInv, FileKept
  <2> QED BY <2>1, <2>2
<1> QED BY <1>1, <1>2, <1>3, LinesInvariant, FileInvariant, PTL DEF Spec
-----------------------------------------------------------------------------
\* The errors.  Between check and write none is in hand, and SendToAI is called
\* with one.
Positive == Nat \ {0}
InPipeline == Held(IF logger = "asking" THEN 0 ELSE error)

ErrorsInv ==
    /\ count \in Nat
    /\ error \in Nat
    /\ tried \in Seq(Positive) /\ aiQueue \in Seq(Positive) /\ errors \in Seq(Positive)
    /\ logger \in {"check", "asleep", "ended"} => error = 0
    /\ logger = "send" => error # 0
    /\ ErrorsConserved

\* Who waits is only woken.
LEMMA WokenLogger == Woken = logger \/ (logger = "asleep" /\ Woken = "check")
  BY DEF Woken

\* What was tried, is in hand and waits is the same sequence before and after a
\* step that moves one error on.
LEMMA MovedOn ==
    ASSUME NEW s \in Seq(Positive), NEW q \in Seq(Positive), NEW x \in Positive
    PROVE  /\ Append(s, x) \in Seq(Positive) /\ Append(q, x) \in Seq(Positive)
           /\ (s \o <<x>>) \o q = (Append(s, x) \o <<>>) \o q
           /\ \A h \in Seq(Positive) : (s \o h) \o Append(q, x) = Append((s \o h) \o q, x)
<1>1. <<x>> \in Seq(Positive)
  OBVIOUS
<1>2. Append(s, x) = s \o <<x>> /\ Append(q, x) = q \o <<x>>
  BY AppendIsConcat
<1>3. Append(s, x) \in Seq(Positive) /\ Append(q, x) \in Seq(Positive)
  BY AppendProperties
<1>4. ASSUME NEW h \in Seq(Positive)
      PROVE  (s \o h) \o Append(q, x) = Append((s \o h) \o q, x)
  <2>1. s \o h \in Seq(Positive)
    BY ConcatProperties
  <2>2. (s \o h) \o q \in Seq(Positive)
    BY <2>1, ConcatProperties
  <2>3. ((s \o h) \o q) \o <<x>> = (s \o h) \o (q \o <<x>>)
    BY <1>1, <2>1, ConcatAssociative
  <2> QED BY <1>2, <2>2, <2>3, AppendIsConcat
<1> QED BY <1>2, <1>3, <1>4, ConcatEmptySeq

LEMMA Offered ==
    ASSUME NEW s \in Seq(Positive), NEW q \in Seq(Positive), NEW x \in Positive
    PROVE  (s \o <<x>>) \o q = (Append(s, x) \o <<>>) \o q
  BY MovedOn

LEMMA PushedBehind ==
    ASSUME NEW s \in Seq(Positive), NEW q \in Seq(Positive), NEW x \in Positive,
           NEW h \in Seq(Positive)
    PROVE  (s \o h) \o Append(q, x) = Append((s \o h) \o q, x)
  BY MovedOn

LEMMA StepErrors == ErrorsInv /\ [Next]_vars => ErrorsInv'
<1> SUFFICES ASSUME ErrorsInv, [Next]_vars PROVE ErrorsInv'
  OBVIOUS
<1>1. CASE Tick \/ Configure \/ Destroy \/ Sleep \/ SpuriousWakeUp \/ End \/ NotifyAll
           \/ \E t \in Threads : NotifyOne(t) \/ Log(t)
  <2>1. UNCHANGED <<error, tried, aiQueue, errors>> /\ count' \in Nat
    BY <1>1 DEF Tick, Configure, Destroy, Sleep, SpuriousWakeUp, End, NotifyAll, NotifyOne,
                Log, Push, queues, histories, ErrorsInv
  <2>2. \/ logger' = logger
        \/ logger \in {"check", "asleep"} /\ logger' \in {"check", "asleep", "ended"}
    BY <1>1, WokenLogger DEF Tick, Configure, Destroy, Sleep, SpuriousWakeUp, End, NotifyAll,
                             NotifyOne, Log, Push
  <2> QED BY <2>1, <2>2 DEF ErrorsInv, ErrorsConserved, Held
<1>2. ASSUME NEW t \in Threads, LogError(t) PROVE ErrorsInv'
  <2>1. /\ aiQueue' = Append(aiQueue, count + 1) /\ errors' = Append(errors, count + 1)
        /\ count' = count + 1 /\ UNCHANGED <<error, tried, logger>>
    BY <1>2 DEF LogError, Push, histories
  <2>2. InPipeline \in Seq(Positive) /\ InPipeline' = InPipeline
    <3>1. error # 0 => error \in Positive
      BY DEF ErrorsInv, Positive
    <3>2. InPipeline \in Seq(Positive)
      BY <3>1 DEF InPipeline, Held
    <3> QED BY <2>1, <3>2 DEF InPipeline
  <2>3. count + 1 \in Positive
    BY DEF ErrorsInv, Positive
  <2>4. (tried \o InPipeline) \o Append(aiQueue, count + 1)
            = Append((tried \o InPipeline) \o aiQueue, count + 1)
    <3>1. tried \in Seq(Positive) /\ aiQueue \in Seq(Positive)
      BY DEF ErrorsInv
    <3> QED BY <2>2, <2>3, <3>1, PushedBehind
  <2>5. (tried \o InPipeline) \o aiQueue = errors
    BY DEF ErrorsInv, ErrorsConserved, InPipeline
  <2>6. ErrorsConserved'
    BY <2>1, <2>2, <2>4, <2>5 DEF ErrorsConserved, InPipeline
  <2>7. aiQueue' \in Seq(Positive) /\ errors' \in Seq(Positive)
    BY <2>1, <2>3, MovedOn DEF ErrorsInv
  <2> QED BY <2>1, <2>3, <2>6, <2>7 DEF ErrorsInv
<1>3. CASE Pop
  <2>1. /\ error = 0 /\ logger' = "write" /\ UNCHANGED <<count, errors, tried>>
        /\ error' = Front(aiQueue) /\ aiQueue' = Popped(aiQueue)
        /\ InPipeline = <<>> /\ InPipeline' = Held(error')
    BY <1>3 DEF Pop, histories, ErrorsInv, InPipeline, Held
  <2>2. CASE aiQueue = <<>>
    BY <2>1, <2>2 DEF Front, Popped, ErrorsInv, ErrorsConserved, InPipeline
  <2>3. CASE aiQueue # <<>>
    <3>1. /\ Head(aiQueue) \in Positive /\ Tail(aiQueue) \in Seq(Positive)
          /\ aiQueue = <<Head(aiQueue)>> \o Tail(aiQueue)
      <4>1. Len(aiQueue) \in Nat \ {0}
        BY <2>3, EmptySeq DEF ErrorsInv
      <4>2. Head(aiQueue) = aiQueue[1] /\ Tail(aiQueue) = SubSeq(aiQueue, 2, Len(aiQueue))
        BY <2>3, TailIsSubSeq DEF ErrorsInv
      <4>3. SubSeq(aiQueue, 1, Len(aiQueue))
                = <<aiQueue[1]>> \o SubSeq(aiQueue, 1 + 1, Len(aiQueue))
        BY <4>1, SubSeqRecursiveFirst DEF ErrorsInv
      <4> QED BY <2>3, <4>1, <4>2, <4>3, SubSeqFull, HeadTailProperties DEF ErrorsInv
    <3>2. error' = Head(aiQueue) /\ aiQueue' = Tail(aiQueue) /\ InPipeline' = <<Head(aiQueue)>>
      BY <2>1, <2>3, <3>1 DEF Front, Popped, Held, Positive
    <3>3. /\ tried \o <<>> = tried
          /\ (tried \o <<Head(aiQueue)>>) \o Tail(aiQueue)
                = tried \o (<<Head(aiQueue)>> \o Tail(aiQueue))
      <4>1. <<Head(aiQueue)>> \in Seq(Positive)
        BY <3>1
      <4> QED BY <3>1, <4>1, ConcatEmptySeq, ConcatAssociative DEF ErrorsInv
    <3>4. tried \o aiQueue = errors
      BY <2>1, <3>3 DEF ErrorsInv, ErrorsConserved, InPipeline
    <3>5. ErrorsConserved'
      BY <2>1, <3>1, <3>2, <3>3, <3>4 DEF ErrorsConserved, InPipeline
    <3> QED BY <2>1, <3>1, <3>2, <3>5 DEF ErrorsInv, Positive
  <2> QED BY <2>2, <2>3
<1>4. CASE Write
  <2>1. /\ UNCHANGED <<error, tried, aiQueue, errors, count>> /\ logger = "write"
        /\ logger' = IF error = 0 THEN "check" ELSE "send"
    BY <1>4 DEF Write, queues
  <2>2. InPipeline' = InPipeline
    BY <2>1 DEF InPipeline
  <2>3. ErrorsConserved'
    BY <2>1, <2>2 DEF ErrorsInv, ErrorsConserved, InPipeline
  <2> QED BY <2>1, <2>3 DEF ErrorsInv
<1>5. CASE Skip \/ AskLlm
  <2>1. /\ logger = "send" /\ UNCHANGED <<aiQueue, errors, count>>
        /\ tried' = Append(tried, error)
        /\ \/ logger' = "check" /\ error' = 0
           \/ logger' = "asking" /\ error' = error
    BY <1>5 DEF Skip, AskLlm, queues
  <2>2. error \in Positive /\ InPipeline = <<error>> /\ InPipeline' = <<>>
    BY <2>1 DEF ErrorsInv, Positive, InPipeline, Held
  <2>3. (tried \o <<error>>) \o aiQueue = (Append(tried, error) \o <<>>) \o aiQueue
    <3>1. tried \in Seq(Positive) /\ aiQueue \in Seq(Positive)
      BY DEF ErrorsInv
    <3> QED BY <2>2, <3>1, Offered
  <2>4. ErrorsConserved'
    BY <2>1, <2>2, <2>3 DEF ErrorsInv, ErrorsConserved, InPipeline
  <2>5. tried' \in Seq(Positive)
    BY <2>1, <2>2, MovedOn DEF ErrorsInv
  <2> QED BY <2>1, <2>4, <2>5 DEF ErrorsInv
<1>6. CASE SendToDiscord
  <2>1. /\ logger = "asking" /\ logger' = "check" /\ error' = 0
        /\ UNCHANGED <<tried, aiQueue, errors, count>>
    BY <1>6 DEF SendToDiscord, queues
  <2> QED BY <2>1 DEF ErrorsInv, ErrorsConserved, Held
<1>7. CASE WriteThrows
  <2>1. /\ UNCHANGED <<error, tried, aiQueue, errors, count>>
        /\ logger = "write" /\ logger' = "dead"
    BY <1>7 DEF WriteThrows, queues
  <2> QED BY <2>1 DEF ErrorsInv, ErrorsConserved
<1>8. CASE UNCHANGED vars
  BY <1>8 DEF vars, queues, histories, ErrorsInv, ErrorsConserved
<1> QED
  BY <1>1, <1>2, <1>3, <1>4, <1>5, <1>6, <1>7, <1>8 DEF Next, Step, ProcessLoop

LEMMA ErrorsInvariant == Spec => []ErrorsInv
<1>1. Init => ErrorsInv
  BY DEF Init, ErrorsInv, ErrorsConserved, Held, Positive
<1>2. ErrorsInv /\ [Next]_vars => ErrorsInv'
  BY StepErrors
<1> QED BY <1>1, <1>2, PTL DEF Spec

\* No line and no error offered to the pipeline is lost, doubled or overtaken.
THEOREM NothingLost == Spec => []NothingMislaid
<1>1. ErrorsInv /\ LinesConserved /\ FileInv => NothingMislaid
  BY DEF ErrorsInv, FileInv, NothingMislaid
<1> QED BY <1>1, ErrorsInvariant, NoLineLost, FileInvariant, PTL

-----------------------------------------------------------------------------
\* A queue of lines gives lines.
LEMMA PoppedLines ==
    ASSUME NEW q \in Seq(Lines)
    PROVE  Front(q) \in 0 .. MaxLines /\ Popped(q) \in Seq(Lines)
<1>1. CASE q = <<>>
  BY <1>1, LoggerAssumption DEF Front, Popped
<1>2. CASE q # <<>>
  <2>1. Head(q) \in Lines /\ Tail(q) \in Seq(Lines)
    BY <1>2, HeadTailProperties
  <2> QED BY <1>2, <2>1 DEF Front, Popped, Lines
<1> QED BY <1>1, <1>2

\* The types.
THEOREM TypeCorrect == Spec => []TypeOK
<1>1. Init => TypeOK
  <2>1. <<>> \in Seq(Lines) /\ <<>> \in Seq(0 .. MaxTime)
    OBVIOUS
  <2>2. 0 \in 0 .. MaxLines /\ 0 \in 0 .. Started /\ Started \in 0 .. MaxTime
    BY LoggerAssumption
  <2>3. ASSUME Init
        PROVE  /\ logQueue \in Seq(Lines) /\ aiQueue \in Seq(Lines) /\ errors \in Seq(Lines)
               /\ printed \in Seq(Lines) /\ written \in Seq(Lines)
               /\ tried \in Seq(Lines) /\ asked \in Seq(0 .. MaxTime)
    BY <2>1, <2>3 DEF Init
  <2>4. ASSUME Init
        PROVE  /\ clock \in 0 .. MaxTime /\ lastAi \in 0 .. clock /\ missed = {}
               /\ {line, error, count, promised} \subseteq 0 .. MaxLines
    BY <2>2, <2>4 DEF Init
  <2> QED BY <2>3, <2>4 DEF Init, TypeOK, Labels
<1>2. ErrorsInv /\ TypeOK /\ [Next]_vars => TypeOK'
  <2> SUFFICES ASSUME ErrorsInv, TypeOK, [Next]_vars PROVE TypeOK'
    OBVIOUS
  <2> USE LoggerAssumption DEF TypeOK
  <2>1. CASE Tick
    BY <2>1 DEF Tick, queues, histories
  <2>2. CASE Configure \/ Sleep \/ SpuriousWakeUp \/ End
    BY <2>2 DEF Configure, Sleep, SpuriousWakeUp, End, queues, histories, Labels
  <2>3. ASSUME NEW t \in Threads, Log(t) \/ LogError(t) PROVE TypeOK'
    <3>1. count + 1 \in Lines /\ count + 1 \in 0 .. MaxLines
      BY <2>3 DEF Log, LogError, Push, Lines
    <3>2. \A q \in Seq(Lines) : Append(q, count + 1) \in Seq(Lines)
      BY <3>1, AppendProperties
    <3> QED BY <2>3, <3>1, <3>2 DEF Log, LogError, Push, histories
  <2>4. ASSUME NEW t \in Threads, NotifyOne(t) PROVE TypeOK'
    BY <2>4, WokenLogger DEF NotifyOne, queues, histories, Labels
  <2>5. CASE Destroy
    BY <2>5 DEF Destroy, queues
  <2>6. CASE NotifyAll
    BY <2>6, WokenLogger DEF NotifyAll, queues, histories, Labels
  <2>7. CASE Pop
    BY <2>7, PoppedLines DEF Pop, histories, Labels
  <2>8. CASE Write \/ WriteThrows
    <3>1. line # 0 => line \in Lines
      BY DEF Lines
    <3>2. Held(line) \in Seq(Lines)
      BY <3>1 DEF Held
    <3>3. /\ printed \o Held(line) \in Seq(Lines) /\ written \o Held(line) \in Seq(Lines)
          /\ line # 0 => Append(printed, line) \in Seq(Lines)
      BY <3>1, <3>2, ConcatProperties, AppendProperties
    <3>4. /\ printed' \in Seq(Lines) /\ written' \in Seq(Lines)
          /\ missed' \subseteq Lines /\ line' = 0 /\ logger' \in Labels
      BY <2>8, <3>1, <3>3 DEF Write, WriteThrows, Labels
    <3>5. UNCHANGED <<logQueue, aiQueue, count, errors, running, configured, lastAi, clock,
                      error, notifying, destructor, tried, asked, promised>>
      BY <2>8 DEF Write, WriteThrows, queues
    <3> QED BY <3>4, <3>5
  <2>9. CASE Skip \/ AskLlm
    <3>1. error \in Lines
      BY <2>9 DEF Skip, AskLlm, ErrorsInv, Lines
    <3>2. tried' \in Seq(Lines)
      <4>1. Append(tried, error) \in Seq(Lines)
        BY <3>1, AppendProperties
      <4> QED BY <2>9, <4>1 DEF Skip, AskLlm
    <3>3. asked' \in Seq(0 .. MaxTime) /\ lastAi' \in 0 .. clock
      <4>1. clock \in 0 .. clock
        OBVIOUS
      <4>2. Append(asked, clock) \in Seq(0 .. MaxTime)
        BY AppendProperties
      <4> QED BY <2>9, <4>1, <4>2 DEF Skip, AskLlm, Stamp
    <3>4. logger' \in Labels /\ error' \in 0 .. MaxLines
      <4>1. logger' \in {"check", "asking"} /\ error' \in {0, error}
        BY <2>9 DEF Skip, AskLlm
      <4> QED BY <4>1 DEF Labels
    <3>5. UNCHANGED <<logQueue, aiQueue, count, errors, running, configured, clock, line,
                      notifying, destructor, printed, written, missed, promised>>
      BY <2>9 DEF Skip, AskLlm, queues
    <3> QED BY <3>2, <3>3, <3>4, <3>5
  <2>10. CASE SendToDiscord
    BY <2>10 DEF SendToDiscord, queues, Labels
  <2>11. CASE UNCHANGED vars
    BY <2>11 DEF vars, queues, histories
  <2> QED
    BY <2>1, <2>2, <2>3, <2>4, <2>5, <2>6, <2>7, <2>8, <2>9, <2>10, <2>11
    DEF Next, Step, ProcessLoop
<1> QED BY <1>1, <1>2, ErrorsInvariant, PTL DEF Spec

-----------------------------------------------------------------------------
\* Truncated seconds that have reached a number are that many exact seconds.
LEMMA WholeSeconds ==
    ASSUME NEW d \in Nat, NEW n \in Nat, NEW t \in Nat \ {0}, d \div t >= n
    PROVE  d >= n * t
<1>1. d = t * (d \div t) + (d % t) /\ d % t \in 0 .. t - 1 /\ d \div t \in Nat
  OBVIOUS
<1>2. t * (d \div t) >= t * n
  BY <1>1
<1> QED BY <1>1, <1>2

\* The stamp is the time of the last analysis.
AskedInv ==
    /\ asked # <<>> => asked[Len(asked)] = lastAi
    /\ Cooldown

\* However the seconds are truncated, two analyses are COOLDOWN seconds apart.
THEOREM CooldownKept == Spec => []Cooldown
<1>1. Init => AskedInv
  BY DEF Init, AskedInv, Cooldown
<1>2. TypeOK /\ AskedInv /\ [Next]_vars => AskedInv'
  <2> SUFFICES ASSUME TypeOK, AskedInv, [Next]_vars PROVE AskedInv'
    OBVIOUS
  <2>1. CASE AskLlm
    <3>1. asked' = Append(asked, clock) /\ lastAi' = clock /\ ~CoolingDown
      BY <2>1 DEF AskLlm, Stamp
    <3>2. clock - lastAi \in Nat /\ clock \in Nat /\ lastAi \in Nat
      BY LoggerAssumption DEF TypeOK
    <3>3. clock - lastAi >= COOLDOWN * TICKS
      <4>1. (clock - lastAi) \div TICKS >= COOLDOWN
        BY <3>1, <3>2, LoggerAssumption DEF CoolingDown
      <4> QED BY <3>2, <4>1, WholeSeconds, LoggerAssumption
    <3>4. /\ Len(asked) \in Nat /\ Len(asked') = Len(asked) + 1
          /\ \A i \in 1 .. Len(asked) : asked'[i] = asked[i] /\ asked[i] \in Nat
          /\ asked'[Len(asked) + 1] = clock
      <4>1. clock \in 0 .. MaxTime /\ asked \in Seq(0 .. MaxTime)
        BY DEF TypeOK
      <4>2. \A i \in 1 .. Len(asked) : asked[i] \in 0 .. MaxTime
        BY <4>1, ElementOfSeq
      <4>3. \A i \in 1 .. Len(asked) : asked[i] \in Nat
        BY <4>2, LoggerAssumption
      <4>4. Len(asked) \in Nat
        BY <4>1, LenProperties
      <4> QED BY <3>1, <4>1, <4>3, <4>4, AppendProperties
    <3>5. ASSUME NEW i \in 1 .. Len(asked') - 1
          PROVE  asked'[i + 1] - asked'[i] >= COOLDOWN * TICKS
      <4>1. CASE i \in 1 .. Len(asked) - 1
        <5>1. i + 1 \in 1 .. Len(asked)
          BY <3>4, <4>1
        <5> QED BY <3>4, <4>1, <5>1 DEF AskedInv, Cooldown
      <4>2. CASE i = Len(asked)
        <5>1. asked # <<>>
          BY <3>4, <4>2
        <5> QED BY <3>3, <3>4, <4>2, <5>1 DEF AskedInv
      <4> QED BY <3>4, <4>1, <4>2
    <3> QED BY <3>1, <3>4, <3>5 DEF AskedInv, Cooldown
  <2>2. CASE ~AskLlm
    <3>1. UNCHANGED <<asked, lastAi>>
      BY <2>2 DEF Next, Step, ProcessLoop, Tick, Configure, Log, LogError, Push, NotifyOne,
                  Destroy, NotifyAll, Sleep, SpuriousWakeUp, End, Pop, Write, WriteThrows,
                  Skip, SendToDiscord, vars, queues, histories
    <3> QED BY <3>1 DEF AskedInv, Cooldown
  <2> QED BY <2>1, <2>2
<1>3. AskedInv => Cooldown
  BY DEF AskedInv
<1> QED BY <1>1, <1>2, <1>3, TypeCorrect, PTL DEF Spec
=============================================================================
