---------------------------- MODULE OdbcConnection ----------------------------
(***************************************************************************)
(* The environment handle, its connection handles and their transactions:  *)
(* classes OdbcEnv and OdbcConnection.                                     *)
(*                                                                         *)
(* The driver keeps its own idea of a transaction, autoCommit and          *)
(* transactionPending, beside the session of the database, which really    *)
(* has one.  Executing a statement and ending a transaction each take two  *)
(* steps, the round trip to the database and the update of the driver's    *)
(* flag; several threads of the application may be inside the driver at    *)
(* the same time.  The loop of OdbcEnv::sqlEndTran goes over the           *)
(* connections one by one.                                                 *)
(***************************************************************************)
EXTENDS Integers, FiniteSets

CONSTANTS
  Conns,         \* connection handles
  MaxStatements, \* bound on the statement handles of a connection
  Threads,       \* threads of the application
  Texts,         \* kinds of SQL text, as far as transactions are concerned
  SetMayFail     \* may the session refuse to change its autocommit mode?

ASSUME ConnsAssumption == IsFiniteSet(Conns)
ASSUME BoundsAssumption == MaxStatements \in Nat
ASSUME TextsAssumption == Texts \subseteq {"work", "commit", "start"}
ASSUME SwitchAssumption == SetMayFail \in BOOLEAN

VARIABLES
  conn,        \* the OdbcConnection objects
  connections, \* OdbcEnv: the connections linked into the environment
  db,          \* the sessions of the database
  dm,          \* the driver manager's view of the connection handles
  pc,          \* the call each thread is in, and the flag it is about to update
  endEnv,      \* the loop of OdbcEnv::sqlEndTran
  ret          \* the last call that returned

vars == <<conn, connections, db, dm, pc, endEnv, ret>>

-----------------------------------------------------------------------------
(***************************************************************************)
(* The objects.                                                            *)
(***************************************************************************)
Connections ==
  [exists : BOOLEAN, env : BOOLEAN, connection : BOOLEAN, connected : BOOLEAN,
   autoCommit : BOOLEAN, transactionPending : BOOLEAN,
   statements : 0 .. MaxStatements]

\* No object: the handle is not allocated.
NoObject ==
  [exists |-> FALSE, env |-> FALSE, connection |-> FALSE, connected |-> FALSE,
   autoCommit |-> TRUE, transactionPending |-> FALSE, statements |-> 0]

\* The constructor of OdbcConnection.
NewConnection == [NoObject EXCEPT !.exists = TRUE, !.env = TRUE]

\* A session: alive, committing each statement by itself, holding work that is
\* neither committed nor rolled back.
Sessions == [live : BOOLEAN, autoCommit : BOOLEAN, open : BOOLEAN]
NoSession == [live |-> FALSE, autoCommit |-> TRUE, open |-> FALSE]
NewSession == [NoSession EXCEPT !.live = TRUE]

\* OdbcEnv::sqlEndTran: the connections still to visit, and whether one failed.
EndEnvLoops == [todo : SUBSET Conns, failed : BOOLEAN]

\* A thread in a call that takes several steps; flag is the connection whose
\* transactionPending it still has to update, or empty.
Places == [call : {"none", "SQLExecute", "SQLEndTran", "SQLEndTranEnv"},
           flag : SUBSET Conns]
Outside == [call |-> "none", flag |-> {}]
In(call, flag) == [call |-> call, flag |-> flag]

Codes == {"SQL_SUCCESS", "SQL_SUCCESS_WITH_INFO", "SQL_ERROR"}
CallNames == {"SQLAllocHandle", "SQLFreeHandle", "SQLConnect", "SQLDisconnect",
              "SetAutoCommit", "SetIsolation", "SQLExecute", "SQLEndTran",
              "SQLEndTranEnv"}

\* A call on c returns; hadWork tells whether the session held open work then.
Returns(call, c, code) ==
  ret' = [call |-> call, code |-> code, hadWork |-> db[c].open]

Free == \E t \in Threads : pc[t] = Outside
Busy(c) == \E t \in Threads : c \in pc[t].flag
InEndEnv == \E t \in Threads : pc[t].call = "SQLEndTranEnv"

\* Nothing else is under way on the connection or the environment, as the
\* driver manager requires of a call that takes the connection itself.
Quiet(c) == Free /\ ~Busy(c) /\ ~InEndEnv

Init ==
  /\ conn = [c \in Conns |-> NoObject]
  /\ connections = {}
  /\ db = [c \in Conns |-> NoSession]
  /\ dm = [c \in Conns |-> "free"]
  /\ pc = [t \in Threads |-> Outside]
  /\ endEnv = [todo |-> {}, failed |-> FALSE]
  /\ ret = [call |-> "SQLFreeHandle", code |-> "SQL_SUCCESS", hadWork |-> FALSE]

-----------------------------------------------------------------------------
(***************************************************************************)
(* The life of a connection handle.                                        *)
(***************************************************************************)
AllocConnection(c) ==
  /\ dm[c] = "free"
  /\ Quiet(c)
  /\ conn' = [conn EXCEPT ![c] = NewConnection]
  /\ connections' = connections \cup {c}
  /\ dm' = [dm EXCEPT ![c] = "allocated"]
  /\ Returns("SQLAllocHandle", c, "SQL_SUCCESS")
  /\ UNCHANGED <<db, pc, endEnv>>

\* OdbcConnection::close(): out of the environment, no statements, no session.
\* It loses the pointer to the environment with its place in it.
\* Mutant of unlinked: close() forgets the environment before it is told.
unlinkedTooLate(c) == connections
unlinked(c) == IF conn[c].env THEN connections \ {c} ELSE connections
\* Mutant of closed: the pointer to the closed session stays.
closedKeepsSession(c) == [conn[c] EXCEPT !.env = FALSE, !.statements = 0,
                                         !.connected = FALSE]
closed(c) == [conn[c] EXCEPT !.env = FALSE, !.statements = 0,
                             !.connection = FALSE,
                             !.connected = @ /\ ~conn[c].connection]

\* SQLConnect, SQLDriverConnect.  The new session commits each statement; only
\* the isolation level is handed to it.
Connect(c) ==
  /\ dm[c] = "allocated"
  /\ Quiet(c)
  /\ ~conn[c].connected
  /\ conn' = [conn EXCEPT ![c].connection = TRUE, ![c].connected = TRUE]
  /\ db' = [db EXCEPT ![c] = NewSession]
  /\ dm' = [dm EXCEPT ![c] = "connected"]
  /\ Returns("SQLConnect", c, "SQL_SUCCESS")
  /\ UNCHANGED <<connections, pc, endEnv>>

ConnectFails(c) ==
  /\ dm[c] = "allocated"
  /\ Quiet(c)
  /\ conn' = [conn EXCEPT ![c].connection = FALSE]
  /\ Returns("SQLConnect", c, "SQL_ERROR")
  /\ UNCHANGED <<connections, db, dm, pc, endEnv>>

DisconnectRefused(c) ==
  /\ dm[c] = "connected"
  /\ Quiet(c)
  /\ conn[c].transactionPending
  /\ Returns("SQLDisconnect", c, "SQL_ERROR")
  /\ UNCHANGED <<conn, connections, db, dm, pc, endEnv>>

\* commit() and close().
Disconnect(c) ==
  /\ dm[c] = "connected"
  /\ Quiet(c)
  /\ ~conn[c].transactionPending
  /\ conn' = [conn EXCEPT ![c] = closed(c)]
  /\ connections' = unlinked(c)
  /\ db' = [db EXCEPT ![c] = NoSession]
  /\ dm' = [dm EXCEPT ![c] = "disconnected"]
  /\ Returns("SQLDisconnect", c, "SQL_SUCCESS")
  /\ UNCHANGED <<pc, endEnv>>

\* commit() throws: the pointer to the session is dropped, the session, the
\* statements and the place in the environment stay.  Or the session throws as
\* close() closes it, and only it stays.
DisconnectThrows(c, atCommit) ==
  /\ dm[c] = "connected"
  /\ Quiet(c)
  /\ ~conn[c].transactionPending
  /\ conn' = [conn EXCEPT ![c] = [IF atCommit THEN @ ELSE closed(c)
                                    EXCEPT !.connection = FALSE,
                                           !.connected = FALSE]]
  /\ connections' = IF atCommit THEN connections ELSE unlinked(c)
  /\ db' = [db EXCEPT ![c].open = @ /\ atCommit]
  /\ dm' = [dm EXCEPT ![c] = "disconnected"]
  /\ Returns("SQLDisconnect", c, "SQL_SUCCESS_WITH_INFO")
  /\ UNCHANGED <<pc, endEnv>>

\* SQLFreeHandle deletes the object; its destructor calls close().  A session
\* that lost its handle ends when the database notices.
FreeConnection(c) ==
  /\ dm[c] \in {"allocated", "disconnected"}
  /\ Quiet(c)
  /\ connections' = unlinked(c)
  /\ conn' = [conn EXCEPT ![c] = NoObject]
  /\ db' = [db EXCEPT ![c] = NoSession]
  /\ dm' = [dm EXCEPT ![c] = "free"]
  /\ Returns("SQLFreeHandle", c, "SQL_SUCCESS")
  /\ UNCHANGED <<pc, endEnv>>

AllocStatement(c) ==
  /\ dm[c] = "connected"
  /\ Quiet(c)
  /\ conn[c].statements < MaxStatements
  /\ conn' = [conn EXCEPT ![c].statements = @ + 1]
  /\ Returns("SQLAllocHandle", c, "SQL_SUCCESS")
  /\ UNCHANGED <<connections, db, dm, pc, endEnv>>

\* Mutant of FreeStatement: a statement that is no longer linked is unlinked.
FreeStatementTwice(c) ==
  /\ dm[c] = "connected"
  /\ Quiet(c)
  /\ conn' = [conn EXCEPT ![c].statements = @ - 1]
  /\ Returns("SQLFreeHandle", c, "SQL_SUCCESS")
  /\ UNCHANGED <<connections, db, dm, pc, endEnv>>

FreeStatement(c) ==
  /\ dm[c] = "connected"
  /\ Quiet(c)
  /\ conn[c].statements > 0
  /\ conn' = [conn EXCEPT ![c].statements = @ - 1]
  /\ Returns("SQLFreeHandle", c, "SQL_SUCCESS")
  /\ UNCHANGED <<connections, db, dm, pc, endEnv>>

-----------------------------------------------------------------------------
(***************************************************************************)
(* Attributes that decide about transactions.                              *)
(***************************************************************************)
\* Mutant of SetAutoCommit: the session is told, and the mode not noted.
SetAutoCommitNotNoted(c, on) ==
  /\ dm[c] = "connected"
  /\ Quiet(c)
  /\ db' = [db EXCEPT ![c].autoCommit = on]
  /\ Returns("SetAutoCommit", c, "SQL_SUCCESS")
  /\ UNCHANGED <<conn, connections, dm, pc, endEnv>>

\* The session may commit its open work as its mode changes, or keep it.
SetAutoCommit(c, on) ==
  /\ dm[c] = "connected"
  /\ Quiet(c)
  /\ conn' = [conn EXCEPT ![c].autoCommit = on]
  /\ \E open \in {FALSE, db[c].open} :
       db' = [db EXCEPT ![c].autoCommit = on, ![c].open = open]
  /\ Returns("SetAutoCommit", c, "SQL_SUCCESS")
  /\ UNCHANGED <<connections, dm, pc, endEnv>>

\* The session refuses, when the driver's own field has changed already.
SetAutoCommitThrows(c, on) ==
  /\ SetMayFail
  /\ dm[c] = "connected"
  /\ Quiet(c)
  /\ conn' = [conn EXCEPT ![c].autoCommit = on]
  /\ Returns("SetAutoCommit", c, "SQL_ERROR")
  /\ UNCHANGED <<connections, db, dm, pc, endEnv>>

\* A new isolation level; it may be refused by the session.
SetIsolation(c) ==
  /\ dm[c] = "connected"
  /\ Quiet(c)
  /\ \/ Returns("SetIsolation", c, "SQL_ERROR")
     \/ ~conn[c].transactionPending /\ Returns("SetIsolation", c, "SQL_SUCCESS")
  /\ UNCHANGED <<conn, connections, db, dm, pc, endEnv>>

-----------------------------------------------------------------------------
(***************************************************************************)
(* Transactions: executing, and ending one.                                *)
(***************************************************************************)
\* The work a session holds after a text: SQL of its own may start and end a
\* transaction, which the driver does not see.
openAfter(session, text) ==
  CASE text = "work"   -> ~session.autoCommit
    [] text = "commit" -> FALSE
    [] text = "start"  -> TRUE

\* A statement of the connection no thread is executing.
HasIdleStatement(c) ==
  Cardinality({t \in Threads : pc[t] = In("SQLExecute", {c})}) < conn[c].statements

\* statement->execute().
ExecuteInDatabase(t, c, text) ==
  /\ dm[c] = "connected"
  /\ pc[t] = Outside
  /\ HasIdleStatement(c)
  /\ db' = [db EXCEPT ![c].open = openAfter(db[c], text)]
  /\ pc' = [pc EXCEPT ![t] = In("SQLExecute", {c})]
  /\ UNCHANGED <<conn, connections, dm, endEnv, ret>>

\* connection->transactionStarted().
\* Mutant of transactionStarted: the test of autoCommit is the wrong way round.
transactionStartedInverted(t, c) ==
  /\ pc[t] = In("SQLExecute", {c})
  /\ conn' = [conn EXCEPT ![c].transactionPending = @ \/ conn[c].autoCommit]
  /\ pc' = [pc EXCEPT ![t] = Outside]
  /\ Returns("SQLExecute", c, "SQL_SUCCESS")
  /\ UNCHANGED <<connections, db, dm, endEnv>>

transactionStarted(t, c) ==
  /\ pc[t] = In("SQLExecute", {c})
  /\ conn' = [conn EXCEPT ![c].transactionPending = @ \/ ~conn[c].autoCommit]
  /\ pc' = [pc EXCEPT ![t] = Outside]
  /\ Returns("SQLExecute", c, "SQL_SUCCESS")
  /\ UNCHANGED <<connections, db, dm, endEnv>>

\* execute() throws, and the statement leaves no work behind.
ExecuteFails(c) ==
  /\ dm[c] = "connected"
  /\ Free
  /\ HasIdleStatement(c)
  /\ Returns("SQLExecute", c, "SQL_ERROR")
  /\ UNCHANGED <<conn, connections, db, dm, pc, endEnv>>

\* commit() or rollback() for SQLEndTran on a connection; then the flag.
EndTranInDatabase(t, c) ==
  /\ dm[c] = "connected"
  /\ pc[t] = Outside
  /\ db' = [db EXCEPT ![c].open = FALSE]
  /\ pc' = [pc EXCEPT ![t] = In("SQLEndTran", {c})]
  /\ UNCHANGED <<conn, connections, dm, endEnv, ret>>

EndTranReturns(t, c) ==
  /\ pc[t] = In("SQLEndTran", {c})
  /\ conn' = [conn EXCEPT ![c].transactionPending = FALSE]
  /\ pc' = [pc EXCEPT ![t] = Outside]
  /\ Returns("SQLEndTran", c, "SQL_SUCCESS")
  /\ UNCHANGED <<connections, db, dm, endEnv>>

\* commit() or rollback() throws: the work may be gone or not.
WorkMayBeGone(c) == \E open \in {FALSE, db[c].open} : db' = [db EXCEPT ![c].open = open]

\* Mutant of EndTranThrows: the flag is cleared whether or not commit() throws.
EndTranThrowsClearsFlag(c) ==
  /\ dm[c] = "connected"
  /\ Free
  /\ WorkMayBeGone(c)
  /\ conn' = [conn EXCEPT ![c].transactionPending = FALSE]
  /\ Returns("SQLEndTran", c, "SQL_ERROR")
  /\ UNCHANGED <<connections, dm, pc, endEnv>>

EndTranThrows(c) ==
  /\ dm[c] = "connected"
  /\ Free
  /\ WorkMayBeGone(c)
  /\ Returns("SQLEndTran", c, "SQL_ERROR")
  /\ UNCHANGED <<conn, connections, dm, pc, endEnv>>

\* SQLEndTran on the environment: the loop begins, visits each connection of
\* the list as SQLEndTran on the connection would, and returns.
EndTranEnv(t) ==
  /\ pc[t] = Outside
  /\ ~InEndEnv
  /\ pc' = [pc EXCEPT ![t] = In("SQLEndTranEnv", {})]
  /\ endEnv' = [todo |-> connections, failed |-> FALSE]
  /\ UNCHANGED <<conn, connections, db, dm, ret>>

Visits(t, c) ==
  /\ pc[t] = In("SQLEndTranEnv", {})
  /\ c \in endEnv.todo

\* Mutant of visited: the code of the last connection wins.
visitedLastWins(c) == [todo |-> endEnv.todo \ {c}, failed |-> FALSE]
visited(c) == [endEnv EXCEPT !.todo = @ \ {c}]
visitFailed(c) == [visited(c) EXCEPT !.failed = TRUE]

EnvVisitInDatabase(t, c) ==
  /\ Visits(t, c)
  /\ conn[c].connection
  /\ db' = [db EXCEPT ![c].open = FALSE]
  /\ pc' = [pc EXCEPT ![t] = In("SQLEndTranEnv", {c})]
  /\ UNCHANGED <<conn, connections, dm, endEnv, ret>>

EnvVisitReturns(t, c) ==
  /\ pc[t] = In("SQLEndTranEnv", {c})
  /\ conn' = [conn EXCEPT ![c].transactionPending = FALSE]
  /\ pc' = [pc EXCEPT ![t] = In("SQLEndTranEnv", {})]
  /\ endEnv' = visited(c)
  /\ UNCHANGED <<connections, db, dm, ret>>

EnvVisitThrows(t, c) ==
  /\ Visits(t, c)
  /\ conn[c].connection
  /\ WorkMayBeGone(c)
  /\ endEnv' = visitFailed(c)
  /\ UNCHANGED <<conn, connections, dm, pc, ret>>

\* A connection without a session succeeds at nothing.
EnvVisitSkips(t, c) ==
  /\ Visits(t, c)
  /\ ~conn[c].connection
  /\ endEnv' = visited(c)
  /\ UNCHANGED <<conn, connections, db, dm, pc, ret>>

EndTranEnvReturns(t) ==
  /\ pc[t] = In("SQLEndTranEnv", {})
  /\ endEnv.todo = {}
  /\ pc' = [pc EXCEPT ![t] = Outside]
  /\ ret' = [call |-> "SQLEndTranEnv", hadWork |-> \E c \in Conns : db[c].open,
             code |-> IF endEnv.failed THEN "SQL_ERROR" ELSE "SQL_SUCCESS"]
  /\ UNCHANGED <<conn, connections, db, dm, endEnv>>

-----------------------------------------------------------------------------
Handle(c) ==
  \/ AllocConnection(c)
  \/ Connect(c)
  \/ ConnectFails(c)
  \/ DisconnectRefused(c)
  \/ Disconnect(c)
  \/ \E atCommit \in BOOLEAN : DisconnectThrows(c, atCommit)
  \/ FreeConnection(c)
  \/ AllocStatement(c)
  \/ FreeStatement(c)

SetAttribute(c) ==
  \/ \E on \in BOOLEAN : SetAutoCommit(c, on)
  \/ \E on \in BOOLEAN : SetAutoCommitThrows(c, on)
  \/ SetIsolation(c)

Transact(t, c) ==
  \/ \E text \in Texts : ExecuteInDatabase(t, c, text)
  \/ transactionStarted(t, c)
  \/ EndTranInDatabase(t, c)
  \/ EndTranReturns(t, c)
  \/ EnvVisitInDatabase(t, c)
  \/ EnvVisitReturns(t, c)
  \/ EnvVisitThrows(t, c)
  \/ EnvVisitSkips(t, c)

Next ==
  \/ \E c \in Conns : Handle(c) \/ SetAttribute(c) \/ ExecuteFails(c) \/ EndTranThrows(c)
  \/ \E t \in Threads, c \in Conns : Transact(t, c)
  \/ \E t \in Threads : EndTranEnv(t) \/ EndTranEnvReturns(t)

Spec == Init /\ [][Next]_vars

-----------------------------------------------------------------------------
(***************************************************************************)
(* Properties.                                                             *)
(***************************************************************************)
\* Every variable has its type.
TypeOK ==
  /\ conn \in [Conns -> Connections]
  /\ connections \subseteq Conns
  /\ db \in [Conns -> Sessions]
  /\ dm \in [Conns -> {"free", "allocated", "connected", "disconnected"}]
  /\ pc \in [Threads -> Places]
  /\ endEnv \in EndEnvLoops
  /\ ret \in [call : CallNames, code : Codes, hadWork : BOOLEAN]

\* The list of the environment holds the connection objects that point back to
\* it and no other: a deleted object is never left in it for SQLEndTran to
\* visit, whichever way the connection was closed, failed to close or was freed.
EnvListExact == connections = {c \in Conns : conn[c].exists /\ conn[c].env}

\* No call enters a session that is gone: a connection that is handed to the
\* application as connected has a live one, the pointer to it is never left
\* behind by close(), and none is closed while a thread commits on it.
NoUseOfClosedSession ==
  /\ \A c \in Conns : dm[c] = "connected" => conn[c].connection
  /\ \A c \in Conns : conn[c].connection => db[c].live
  /\ \A t \in Threads, c \in Conns : c \in pc[t].flag => conn[c].connection

\* transactionPending is set whenever the session holds open work and no call
\* is about to set the flag: the driver knows of every transaction.  This needs
\* autoCommit to mirror the session's mode, one thread at a time between the database
\* and the flag of a connection, and SQL texts that start no transaction of their own.
PendingCoversTransaction ==
  \A c \in Conns :
    conn[c].connection /\ db[c].open /\ ~Busy(c) => conn[c].transactionPending

\* Open work is never committed behind the application's back: SQLDisconnect,
\* which commits, and a change of isolation succeed only without open work.
OpenTransactionRefused ==
  ret.call \in {"SQLDisconnect", "SetIsolation"} /\ ret.code # "SQL_ERROR"
    => ~ret.hadWork

\* SQLEndTran on the environment that succeeds has ended the transactions of
\* all its connections; one that failed cannot be hidden by the ones after it.
EnvEndTranEndsAll ==
  ret.call = "SQLEndTranEnv" /\ ret.code = "SQL_SUCCESS" => ~ret.hadWork

\* The transactions as the application knows them, by the mode it has set: work
\* is left open in no other session, and no call closes, loses or frees a session
\* that holds some, whichever way a disconnect goes wrong.
Promised == INSTANCE Transactions WITH
  sessions <- {c \in Conns : conn[c].connection},
  manual <- {c \in Conns : conn[c].connection /\ ~conn[c].autoCommit},
  work <- {c \in Conns : db[c].open}
TransactionsSpec == Promised!Spec
=============================================================================
