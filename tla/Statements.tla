----------------------------- MODULE Statements -----------------------------
(***************************************************************************)
(* The packets whose handlers insert a row: OnCharacterInfo, OnInventory,  *)
(* OnAuction on the IOCP workers, and the flusher's UpdateCharacterStat,   *)
(* over the connections of DBPool.                                         *)
(*                                                                         *)
(* Every function of DBManager has one shape: GetConnection, or false;     *)
(* prepare, bind, execute; ReturnConnection on every path; true if the     *)
(* statement went through.  The handler logs an error when it gets false   *)
(* and the client is told nothing.  A row is named by its primary key and  *)
(* the rows its foreign keys refer to (DB/Dump20260317.sql).               *)
(***************************************************************************)
EXTENDS DBPool

CONSTANTS
    Packets,     \* the insert packets clients may send, any of them again
    MaxPackets,  \* bound: how many different ones are sent
    Seeded,      \* keys of the rows the tables start with
    SyncThread,  \* SyncWorker's thread
    Update,      \* its UpdateCharacterStat, whose rows StatSync has
    NoPacket

ASSUME StatementsAssumption ==
    /\ SyncThread \in Threads
    /\ MaxPackets \in Nat
    /\ IsFiniteSet(Packets)
    /\ Update \notin Packets /\ NoPacket \notin Packets /\ Update # NoPacket

VARIABLES
    job,       \* the statement each thread is to execute
    answer,    \* what its function will return
    usable,    \* the connections MySQL has not closed
    stored,    \* packets whose row is in its table
    reported,  \* packets whose last handler logged an error
    done       \* packets whose last handler has returned

tableVars == <<job, answer, usable, stored, reported, done>>
allVars   == <<vars, tableVars>>

-----------------------------------------------------------------------------
(* Mistakes the properties are tried against, each in place of the         *)
(* definition named.                                                       *)

\* Outcome: what mysql_stmt_execute returns is not looked at
OutcomeIgnored(p) == "ok"

-----------------------------------------------------------------------------
(* What each INSERT names: a primary key and the rows referred to.         *)

\* guild_id is bound as it comes: 0, "no guild", is not turned into NULL.
InsertCharacter(p) ==
    [key    |-> <<"character", p.character>>,
     refers |-> {<<"adventure", p.adventure>>, <<"guild", p.guild>>}]

InsertInventory(p) ==
    [key    |-> <<"inventory", p.character, p.tab, p.slot>>,
     refers |-> {<<"character", p.character>>, <<"item_instance", p.item>>}]

InsertAuction(p) ==
    [key    |-> <<"auction", p.auction>>,
     refers |-> {<<"character", p.seller>>, <<"item_instance", p.item>>}]

\* PacketHandler::Handle
Row(p) == CASE p.id = "CHARACTER_INFO" -> InsertCharacter(p)
            [] p.id = "INVENTORY_INFO" -> InsertInventory(p)
            [] p.id = "AUCTION_INFO"   -> InsertAuction(p)

\* MySQL takes a row whose key is free and whose references exist.
Keys == Seeded \cup { Row(p).key : p \in stored }
Accepted(p) == Row(p).key \notin Keys /\ Row(p).refers \subseteq Keys

\* What an executed statement does, and what its function returns: an UPDATE
\* that matches no row succeeds.
Effect(p)  == IF p # Update /\ Accepted(p) THEN stored \cup {p} ELSE stored
Outcome(p) == IF p = Update \/ Accepted(p) THEN "ok" ELSE "failed"

-----------------------------------------------------------------------------
StatementsInit ==
    /\ Init
    /\ job = [t \in Threads |-> NoPacket]
    /\ answer = [t \in Threads |-> "none"]
    /\ usable = Connections
    /\ stored = {}
    /\ reported = {}
    /\ done = {}

(* A worker's handler, or FlushAll's loop, calls DBManager: GetConnection. *)

InHand == { job[t] : t \in Threads }

\* A client whose row is not there may send the packet again.
Handle(t, p) ==
    /\ t # SyncThread
    /\ p \notin InHand \cup stored
    /\ Cardinality((done \cup (InHand \cap Packets)) \ {p}) < MaxPackets
    /\ pc[t] = "idle"
    /\ job' = [job EXCEPT ![t] = p]
    /\ done' = done \ {p}
    /\ reported' = reported \ {p}
    /\ Get(t) \/ Wait(t)
    /\ UNCHANGED <<answer, usable, stored>>

\* main starts SyncWorker when DBManager::Init has returned.
FlushRow ==
    /\ ~filling
    /\ pc[SyncThread] = "idle"
    /\ job' = [job EXCEPT ![SyncThread] = Update]
    /\ Get(SyncThread) \/ Wait(SyncThread)
    /\ UNCHANGED <<answer, usable, stored, reported, done>>

LookAgain(t) ==
    /\ pc[t] \in {"awake", "late"}
    /\ Get(t) \/ Wait(t)
    /\ UNCHANGED tableVars

\* The function returns; the handler logs an error if it said false.
Finish(t, said) ==
    /\ job' = [job EXCEPT ![t] = NoPacket]
    /\ answer' = [answer EXCEPT ![t] = "none"]
    /\ done' = done \cup ({job[t]} \ {Update})
    /\ reported' = IF said = "failed" THEN reported \cup ({job[t]} \ {Update})
                                      ELSE reported
    /\ UNCHANGED <<usable, stored>>

\* nullptr after 5 seconds
NoConnection(t) ==
    /\ GiveUp(t)
    /\ Finish(t, "failed")

(* prepare, bind, execute *)

Ready(t) == pc[t] = "using" /\ answer[t] = "none"

Execute(t) ==
    /\ Ready(t)
    /\ conn[t] \in usable
    /\ answer' = [answer EXCEPT ![t] = Outcome(job[t])]
    /\ stored' = Effect(job[t])
    /\ UNCHANGED <<vars, job, usable, reported, done>>

\* A step of it fails, on a connection that works or on one MySQL closed, now
\* or earlier: nothing connects it again, and it goes back all the same.
Fail(t) ==
    /\ Ready(t)
    /\ usable' \in {usable, usable \ {conn[t]}}
    /\ answer' = [answer EXCEPT ![t] = "failed"]
    /\ UNCHANGED <<vars, job, stored, reported, done>>

\* It breaks when the row is in and before MySQL's answer is.
BreakUnder(t) ==
    /\ Ready(t)
    /\ conn[t] \in usable
    /\ usable' = usable \ {conn[t]}
    /\ stored' = Effect(job[t])
    /\ answer' = [answer EXCEPT ![t] = "failed"]
    /\ UNCHANGED <<vars, job, reported, done>>

(* ReturnConnection *)

GiveBack(t) ==
    /\ answer[t] # "none"
    /\ Return(t)
    /\ UNCHANGED tableVars

NotifyAndFinish(t) ==
    /\ NotifyOne(t)
    /\ Finish(t, answer[t])

\* What happens to a thread that waits.
WhileWaiting(t) ==
    /\ SpuriousWakeUp(t) \/ Deadline(t)
    /\ UNCHANGED tableVars

\* The thread's own steps.
Advance(t) ==
    \/ LookAgain(t)
    \/ NoConnection(t)
    \/ Execute(t)
    \/ Fail(t)
    \/ BreakUnder(t)
    \/ GiveBack(t)
    \/ NotifyAndFinish(t)

StatementsNext ==
    \/ \E t \in Threads :
           \/ \E p \in Packets : Handle(t, p)
           \/ Advance(t)
           \/ WhileWaiting(t)
    \/ FlushRow
    \/ Fill /\ UNCHANGED tableVars

StatementsSpec == StatementsInit /\ [][StatementsNext]_allVars

\* Statements end and threads run on.  The deadline is absolute: it comes even
\* for a thread that is woken and waits again, over and over.
Fairness ==
    \A t \in Threads :
        /\ WF_allVars(Advance(t))
        /\ SF_allVars(Deadline(t) /\ UNCHANGED tableVars)
FairStatements == StatementsSpec /\ Fairness

-----------------------------------------------------------------------------
\* The types.
StatementsTypeOK ==
    /\ TypeOK
    /\ job \in [Threads -> Packets \cup {Update, NoPacket}]
    /\ answer \in [Threads -> {"none", "ok", "failed"}]
    /\ usable \subseteq Connections
    /\ stored \subseteq Packets
    /\ reported \subseteq Packets
    /\ done \subseteq Packets

\* No packet is lost in silence: when its handler has returned, its row is in
\* the table or an error was logged.  Both can be so only where a connection
\* broke under the INSERT, and that happens once to a connection.
StoredOrReported ==
    /\ done \subseteq stored \cup reported
    /\ Cardinality(stored \cap reported) <= Cardinality(Connections \ usable)

\* A handler returns, however scarce the connections are and whatever breaks,
\* and if Init opens none of them.
HandlerReturns == \A t \in Threads : pc[t] # "idle" ~> pc[t] = "idle" \/ raced
=============================================================================
