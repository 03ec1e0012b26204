---------------------------- MODULE AsyncLogger ----------------------------
(***************************************************************************)
(* AsyncLogger: threads push lines, and errors a second time for the       *)
(* LLM -> Discord pipeline; one logger thread writes the lines and, no     *)
(* more often than once in 60 seconds, has an error analysed and reported. *)
(*                                                                         *)
(* What runs under m_mutex is one step, and a notification is a step of    *)
(* its own, as in the code.  A line is the number of its push, and an      *)
(* error is named by its line.  A line goes to std::cout and to the log    *)
(* file; the file may not open, and creating its directory may throw on    *)
(* the logger thread, which ends the process.                              *)
(***************************************************************************)
EXTENDS Naturals, Sequences

CONSTANTS
    Threads,         \* threads that log
    COOLDOWN,        \* seconds between two analyses
    TICKS,           \* clock ticks in a second
    Started,         \* the clock, in ticks, when the server starts
    MaxLines,        \* bound: lines logged
    MaxTime          \* bound: the clock

ASSUME LoggerAssumption ==
    /\ COOLDOWN \in Nat
    /\ TICKS \in Nat \ {0}
    /\ MaxLines \in Nat
    /\ MaxTime \in Nat
    /\ Started \in 0 .. MaxTime

VARIABLES
    logQueue,    \* m_logQueue
    aiQueue,     \* m_aiQueue
    running,     \* m_isRunning
    configured,  \* m_llmEndpoint and m_discordWebhook are set
    lastAi,      \* m_lastAiSendTime
    clock,       \* steady_clock
    logger,      \* where the logger thread is
    line,        \* its logMsg, 0: empty
    error,       \* its aiMsg, 0: empty
    notifying,   \* threads between their push and notify_one
    destructor,  \* where ~AsyncLogger is
    count,       \* history: lines logged
    errors,      \* history: errors logged
    printed,     \* history: lines written to std::cout
    written,     \* lines in the log files
    missed,      \* history: lines the log file was not to be had for
    tried,       \* history: errors SendToAI was called with
    asked,       \* history: when the LLM was asked
    promised     \* history: lines logged before the destructor

queues    == <<logQueue, aiQueue, count, errors>>
histories == <<printed, written, missed, tried, asked, promised>>
vars == <<queues, running, configured, lastAi, clock, logger, line, error,
          notifying, destructor, histories>>

-----------------------------------------------------------------------------
(* Mistakes the properties are tried against, each in place of the         *)
(* definition named.                                                       *)

\* Popped: the front stays
NotPopped(q) == q
\* HasWork: the end of the server is not looked for
HasWorkOnly == logQueue # <<>> \/ aiQueue # <<>>
\* Finished: the queues are not looked at
FinishedAtOnce == ~running
\* CoolingDown: seconds are rounded up
CoolingRounded == (clock - lastAi + TICKS - 1) \div TICKS < COOLDOWN
\* Stamp: when the cool-down ends, not when it began
StampEnd == clock + COOLDOWN * TICKS
\* Woken: notify_one is left out
NotWoken == logger

-----------------------------------------------------------------------------
(* What the source computes.                                               *)

Front(q)  == IF q = <<>> THEN 0 ELSE Head(q)
Popped(q) == IF q = <<>> THEN q ELSE Tail(q)

\* A local that may be empty, as a sequence.
Held(x) == IF x = 0 THEN <<>> ELSE <<x>>

\* The predicate of m_cv.wait, and the condition of break.
HasWork  == logQueue # <<>> \/ aiQueue # <<>> \/ ~running
Finished == ~running /\ logQueue = <<>> /\ aiQueue = <<>>

\* duration_cast truncates to whole seconds.
CoolingDown == (clock - lastAi) \div TICKS < COOLDOWN
Stamp == clock

Woken == IF logger = "asleep" THEN "check" ELSE logger

-----------------------------------------------------------------------------
Init ==
    /\ logQueue = <<>> /\ aiQueue = <<>>
    /\ running = TRUE
    /\ configured = FALSE
    /\ lastAi = 0
    /\ clock = Started
    /\ logger = "check"
    /\ line = 0 /\ error = 0
    /\ notifying = {}
    /\ destructor = "no"
    /\ count = 0 /\ errors = <<>>
    /\ printed = <<>> /\ written = <<>> /\ missed = {}
    /\ tried = <<>> /\ asked = <<>>
    /\ promised = 0

Tick ==
    /\ clock < MaxTime
    /\ clock' = clock + 1
    /\ UNCHANGED <<queues, running, configured, lastAi, logger, line, error,
                   notifying, destructor, histories>>

\* Gives the pipeline its URLs; main does not call it.
Configure ==
    /\ configured' = TRUE
    /\ UNCHANGED <<queues, running, lastAi, clock, logger, line, error,
                   notifying, destructor, histories>>

(* Any thread *)

Push(t) ==
    /\ t \notin notifying
    /\ count < MaxLines
    /\ count' = count + 1
    /\ logQueue' = Append(logQueue, count + 1)
    /\ notifying' = notifying \cup {t}
    /\ UNCHANGED <<running, configured, lastAi, clock, logger, line, error,
                   destructor, histories>>

Log(t) ==
    /\ Push(t)
    /\ UNCHANGED <<aiQueue, errors>>

LogError(t) ==
    /\ Push(t)
    /\ aiQueue' = Append(aiQueue, count + 1)
    /\ errors' = Append(errors, count + 1)

NotifyOne(t) ==
    /\ t \in notifying
    /\ notifying' = notifying \ {t}
    /\ logger' = Woken
    /\ UNCHANGED <<queues, running, configured, lastAi, clock, line, error,
                   destructor, histories>>

(* ~AsyncLogger; it joins the logger thread *)

Destroy ==
    /\ destructor = "no"
    /\ running' = FALSE
    /\ destructor' = "notify"
    /\ promised' = count
    /\ UNCHANGED <<queues, configured, lastAi, clock, logger, line, error, notifying,
                   printed, written, missed, tried, asked>>

NotifyAll ==
    /\ destructor = "notify"
    /\ destructor' = "join"
    /\ logger' = Woken
    /\ UNCHANGED <<queues, running, configured, lastAi, clock, line, error,
                   notifying, histories>>

(* The logger thread: ProcessLoop *)

Sleep ==
    /\ logger = "check"
    /\ ~HasWork
    /\ logger' = "asleep"
    /\ UNCHANGED <<queues, running, configured, lastAi, clock, line, error,
                   notifying, destructor, histories>>

SpuriousWakeUp ==
    /\ logger = "asleep"
    /\ logger' = "check"
    /\ UNCHANGED <<queues, running, configured, lastAi, clock, line, error,
                   notifying, destructor, histories>>

End ==
    /\ logger = "check"
    /\ HasWork /\ Finished
    /\ logger' = "ended"
    /\ UNCHANGED <<queues, running, configured, lastAi, clock, line, error,
                   notifying, destructor, histories>>

\* One of each queue, if it has any.
Pop ==
    /\ logger = "check"
    /\ HasWork /\ ~Finished
    /\ line' = Front(logQueue) /\ logQueue' = Popped(logQueue)
    /\ error' = Front(aiQueue) /\ aiQueue' = Popped(aiQueue)
    /\ logger' = "write"
    /\ UNCHANGED <<count, errors, running, configured, lastAi, clock,
                   notifying, destructor, histories>>

\* A line is printed; to the file it goes if that opens.
Write ==
    /\ logger = "write"
    /\ printed' = printed \o Held(line)
    /\ \/ written' = written \o Held(line) /\ UNCHANGED missed
       \/ line # 0 /\ missed' = missed \cup {line} /\ UNCHANGED written
    /\ line' = 0
    /\ logger' = IF error = 0 THEN "check" ELSE "send"
    /\ UNCHANGED <<queues, running, configured, lastAi, clock, error, notifying,
                   destructor, tried, asked, promised>>

\* create_directories throws, once the line is printed.  Nothing catches it on
\* this thread, and the process ends.
WriteThrows ==
    /\ logger = "write"
    /\ line # 0
    /\ printed' = Append(printed, line)
    /\ missed' = missed \cup {line}
    /\ line' = 0
    /\ logger' = "dead"
    /\ UNCHANGED <<queues, running, configured, lastAi, clock, error, notifying,
                   destructor, written, tried, asked, promised>>

(* SendToAI *)

Skip ==
    /\ logger = "send"
    /\ ~configured \/ CoolingDown
    /\ tried' = Append(tried, error)
    /\ error' = 0
    /\ logger' = "check"
    /\ UNCHANGED <<queues, running, configured, lastAi, clock, line, notifying,
                   destructor, printed, written, missed, asked, promised>>

AskLlm ==
    /\ logger = "send"
    /\ configured /\ ~CoolingDown
    /\ lastAi' = Stamp
    /\ tried' = Append(tried, error)
    /\ asked' = Append(asked, clock)
    /\ logger' = "asking"
    /\ UNCHANGED <<queues, running, configured, clock, line, error, notifying,
                   destructor, printed, written, missed, promised>>

\* WinHttpPost returns, with an answer or after its time-out; either goes to
\* SendToDiscord, whose own post is not looked at.
SendToDiscord ==
    /\ logger = "asking"
    /\ error' = 0
    /\ logger' = "check"
    /\ UNCHANGED <<queues, running, configured, lastAi, clock, line, notifying,
                   destructor, printed, written, missed, tried, asked, promised>>

-----------------------------------------------------------------------------
ProcessLoop ==
    Sleep \/ End \/ Pop \/ Write \/ WriteThrows \/ Skip \/ AskLlm \/ SendToDiscord

Step ==
    \/ Tick
    \/ Configure
    \/ \E t \in Threads : Log(t) \/ LogError(t) \/ NotifyOne(t)
    \/ Destroy
    \/ NotifyAll
    \/ SpuriousWakeUp
    \/ ProcessLoop

\* As long as the process lives.
Alive == logger # "dead"
Next  == Alive /\ Step

Spec == Init /\ [][Next]_vars

\* Threads run on, and an HTTP request ends, by its time-out if not before.
\* Nobody is bound to log, to configure or to destroy, and no file to fail.
Fairness ==
    /\ WF_vars(ProcessLoop)
    /\ WF_vars(Alive /\ NotifyAll)
    /\ \A t \in Threads : WF_vars(Alive /\ NotifyOne(t))
FairSpec == Spec /\ Fairness

-----------------------------------------------------------------------------
Labels == {"check", "asleep", "write", "send", "asking", "ended", "dead"}
Lines  == 1 .. MaxLines

\* The types; the stamp is never ahead of the clock.
TypeOK ==
    /\ logQueue \in Seq(Lines) /\ aiQueue \in Seq(Lines)
    /\ running \in BOOLEAN
    /\ configured \in BOOLEAN
    /\ clock \in 0 .. MaxTime
    /\ lastAi \in 0 .. clock
    /\ logger \in Labels
    /\ line \in 0 .. MaxLines
    /\ error \in 0 .. MaxLines
    /\ notifying \subseteq Threads
    /\ destructor \in {"no", "notify", "join"}
    /\ count \in 0 .. MaxLines
    /\ errors \in Seq(Lines)
    /\ printed \in Seq(Lines) /\ written \in Seq(Lines) /\ missed \subseteq Lines
    /\ tried \in Seq(Lines)
    /\ asked \in Seq(0 .. MaxTime)
    /\ promised \in 0 .. MaxLines

\* Every line is printed, or about to be, or waits: once, and in the order of
\* the pushes, whatever threads push and whenever the logger looks; and so is
\* every error offered to SendToAI.  The log files hold what was printed, in
\* that order and once, but for the lines no file was to be had for.
LinesConserved ==
    printed \o Held(line) \o logQueue = [i \in 1 .. count |-> i]
ErrorsConserved ==
    tried \o Held(IF logger = "asking" THEN 0 ELSE error) \o aiQueue = errors
InFile == { written[i] : i \in 1 .. Len(written) }
FileKept ==
    /\ \A i, j \in 1 .. Len(written) : i < j => written[i] < written[j]
    /\ InFile = (1 .. Len(printed)) \ missed
NothingMislaid == LinesConserved /\ ErrorsConserved /\ FileKept

\* The logger does not sleep beside a queued line or a destructor that waits
\* for it, unless a notification is on its way.
NoSleepOverWork ==
    logger = "asleep" =>
        /\ logQueue # <<>> \/ aiQueue # <<>> => notifying # {} \/ destructor = "notify"
        /\ ~running => destructor = "notify"

\* The LLM is asked no more often than once in COOLDOWN seconds, in exact
\* time, however many errors come (portfolio_plan.md:76).
Cooldown ==
    \A i \in 1 .. Len(asked) - 1 : asked[i + 1] - asked[i] >= COOLDOWN * TICKS

\* The logger thread ends only when every line logged before the destructor
\* was entered is in a log file, or no file was to be had for it.
DrainedAtEnd == logger = "ended" => 1 .. promised \subseteq InFile \cup missed

\* Every line gets into a log file in the end, also while the LLM takes its
\* time, unless no file is to be had for it or the process has died of that.
EveryLineWritten ==
    \A n \in Lines :
        count >= n /\ running ~> n \in InFile \cup missed \/ logger = "dead"

\* The destructor's join returns, unless the process dies first.
JoinReturns == destructor = "join" ~> logger \in {"ended", "dead"}
=============================================================================
