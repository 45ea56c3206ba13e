----------------------------- MODULE OdbcHandles -----------------------------
(***************************************************************************)
(* The objects behind the handles and who deletes them: OdbcEnv keeps a    *)
(* list of its connections, OdbcConnection one of its statements and one   *)
(* of the descriptors, of which each statement owns four.  A destructor    *)
(* takes its object off the list it is on, and close() deletes the head of *)
(* a list until the list is empty.  Statements and connections hold an     *)
(* object of the client library each.                                      *)
(*                                                                         *)
(* The calls that delete run step by step, in the order of the code.  The  *)
(* driver manager frees a connection after it was disconnected, does not   *)
(* free the statements the disconnect deleted, and lets one thread at a    *)
(* time into the handles of an environment.                                *)
(***************************************************************************)
EXTENDS Integers, Sequences, FiniteSets, SequencesExt

CONSTANTS
  Conns,      \* connection handles
  Stmts,      \* statement handles
  MaxRecord,  \* bound: the highest descriptor record an application sets
  Slack,      \* how many records more than it is asked for a descriptor grows by
  Fresh       \* what a new array of pointers may hold: "null", or "wild" too

\* No environment, and the places where no handle is; none of them is a handle.
Gone == << "no environment" >>
NoConn == "no connection"
NoStmt == "no statement"

ASSUME NamesAssumption ==
  Gone \notin Seq(Conns) /\ NoConn \notin Conns /\ NoStmt \notin Stmts
ASSUME BoundsAssumption == MaxRecord \in Nat /\ Slack \in Nat \ {0}
ASSUME FreshAssumption == Fresh \subseteq {"null", "wild"} /\ Fresh # {}

VARIABLES
  connections, \* OdbcEnv: the connections, newest first; Gone without an environment
  conn,        \* the OdbcConnection objects
  stmt,        \* the OdbcStatement objects
  desc,        \* the OdbcDesc objects, by their statement and kind
  client,      \* the sessions and statements of the client library
  dm,          \* the driver manager's view of the connection handles
  pc           \* the call that deletes something, and where it is

vars == <<connections, conn, stmt, desc, client, dm, pc>>

-----------------------------------------------------------------------------
(***************************************************************************)
(* The objects.                                                            *)
(***************************************************************************)
\* The descriptors of a statement, in the order of its members: application row,
\* application parameter, implementation row, implementation parameter.
Kinds == 1 .. 4
DescOf(s) == {s} \X Kinds
Slots == {"null", "record", "wild"}

Connections ==
  [exists : BOOLEAN, env : BOOLEAN, connection : BOOLEAN, transactionPending : BOOLEAN,
   statements : Seq(Stmts), descriptors : Seq(Stmts \X Kinds)]
NoConnection ==
  [exists |-> FALSE, env |-> FALSE, connection |-> FALSE, transactionPending |-> FALSE,
   statements |-> << >>, descriptors |-> << >>]

\* records are those of the application row descriptor: record n is in slot n + 1.
Statements ==
  [connection : Conns \cup {NoConn}, statement : BOOLEAN, records : Seq(Slots)]
NoStatement == [connection |-> NoConn, statement |-> FALSE, records |-> << >>]
Exists(s) == stmt[s].connection # NoConn

Idle == [call |-> "none", step |-> "none"]
Deleting(call, c, s, step) == [call |-> call, conn |-> c, stmt |-> s, step |-> step, left |-> 4]

Init ==
  /\ connections = Gone
  /\ conn = [c \in Conns |-> NoConnection]
  /\ stmt = [s \in Stmts |-> NoStatement]
  /\ desc = {}
  /\ client = [session |-> [c \in Conns |-> "none"], statements |-> {}, misused |-> FALSE]
  /\ dm = [c \in Conns |-> "free"]
  /\ pc = Idle

(***************************************************************************)
(* The client library.                                                     *)
(***************************************************************************)
StatementClosed(s, c) ==
  IF <<s, c>> \in client.statements /\ client.session[c] \in {"open", "abandoned"}
  THEN [client EXCEPT !.statements = @ \ {<<s, c>>}]
  ELSE [client EXCEPT !.misused = TRUE]

SessionClosed(c) ==
  IF client.session[c] = "open"
  THEN [client EXCEPT !.session[c] = "closed"]
  ELSE [client EXCEPT !.misused = TRUE]

-----------------------------------------------------------------------------
(***************************************************************************)
(* Allocating, and the calls that change who holds what.                   *)
(***************************************************************************)
AllocEnv ==
  /\ pc = Idle
  /\ connections = Gone
  /\ connections' = << >>
  /\ UNCHANGED <<conn, stmt, desc, client, dm, pc>>

\* OdbcEnv has no destructor: that no connection is left is up to the manager.
FreeEnv ==
  /\ pc = Idle
  /\ connections # Gone
  /\ \A c \in Conns : dm[c] = "free"
  /\ connections' = Gone
  /\ UNCHANGED <<conn, stmt, desc, client, dm, pc>>

\* OdbcEnv::allocHandle.
AllocConnection(c) ==
  /\ pc = Idle
  /\ connections # Gone
  /\ dm[c] = "free"
  /\ conn' = [conn EXCEPT ![c] = [NoConnection EXCEPT !.exists = TRUE, !.env = TRUE]]
  /\ connections' = <<c>> \o connections
  /\ dm' = [dm EXCEPT ![c] = "allocated"]
  /\ UNCHANGED <<stmt, desc, client, pc>>

Connect(c) ==
  /\ pc = Idle
  /\ dm[c] = "allocated"
  /\ conn' = [conn EXCEPT ![c].connection = TRUE]
  /\ client' = [client EXCEPT !.session[c] = "open"]
  /\ dm' = [dm EXCEPT ![c] = "connected"]
  /\ UNCHANGED <<connections, stmt, desc, pc>>

\* OdbcConnection::allocHandle, and the constructor: each descriptor goes to the
\* head of the list.
AllocStatement(s, c) ==
  /\ pc = Idle
  /\ dm[c] = "connected"
  /\ ~Exists(s)
  /\ stmt' = [stmt EXCEPT ![s] = [NoStatement EXCEPT !.connection = c]]
  /\ desc' = desc \cup DescOf(s)
  /\ conn' = [conn EXCEPT ![c].statements = <<s>> \o @,
                          ![c].descriptors = <<<<s, 4>>, <<s, 3>>, <<s, 2>>, <<s, 1>>>> \o @]
  /\ UNCHANGED <<connections, client, dm, pc>>

\* Mutant of SQLPrepare: a text that is refused leaves the pointer to what was closed.
SQLPrepareKeepsPointer(s, c) ==
  /\ pc = Idle
  /\ stmt[s].connection = c /\ dm[c] = "connected"
  /\ LET closed == IF stmt[s].statement THEN StatementClosed(s, c) ELSE client
     IN  \/ /\ client' = [closed EXCEPT !.statements = @ \cup {<<s, c>>}]
            /\ stmt' = [stmt EXCEPT ![s].statement = TRUE]
         \/ client' = closed /\ stmt' = stmt
  /\ UNCHANGED <<connections, conn, desc, dm, pc>>

\* releaseStatement, and then the new one, if the session prepares it.
SQLPrepare(s, c) ==
  /\ pc = Idle
  /\ stmt[s].connection = c /\ dm[c] = "connected"
  /\ LET closed == IF stmt[s].statement THEN StatementClosed(s, c) ELSE client
     IN  \/ /\ client' = [closed EXCEPT !.statements = @ \cup {<<s, c>>}]
            /\ stmt' = [stmt EXCEPT ![s].statement = TRUE]
         \/ /\ client' = closed
            /\ stmt' = [stmt EXCEPT ![s].statement = FALSE]
  /\ UNCHANGED <<connections, conn, desc, dm, pc>>

SQLExecute(s, c) ==
  /\ pc = Idle
  /\ stmt[s].connection = c /\ dm[c] = "connected"
  /\ stmt[s].statement
  /\ conn' = [conn EXCEPT ![c].transactionPending = TRUE]
  /\ UNCHANGED <<connections, stmt, desc, client, dm, pc>>

SQLEndTran(c) ==
  /\ pc = Idle
  /\ dm[c] = "connected"
  /\ conn' = [conn EXCEPT ![c].transactionPending = FALSE]
  /\ UNCHANGED <<connections, stmt, desc, client, dm, pc>>

\* The array grows to number + Slack, and what is new in it is not initialized; a
\* slot that holds null gets a record, any other is taken for one.
grown(records, number, fresh) ==
  IF number < Len(records) THEN records
  ELSE records \o [n \in 1 .. number + Slack - Len(records) |-> fresh]
getDescRecord(records, number, fresh) ==
  [grown(records, number, fresh) EXCEPT ![number + 1] = IF @ = "null" THEN "record" ELSE @]

SQLSetDescField(s, number) ==
  /\ pc = Idle
  /\ Exists(s) /\ dm[stmt[s].connection] = "connected"
  /\ \E fresh \in Fresh :
       stmt' = [stmt EXCEPT ![s].records = getDescRecord(@, number, fresh)]
  /\ UNCHANGED <<connections, conn, desc, client, dm, pc>>

-----------------------------------------------------------------------------
(***************************************************************************)
(* Deleting.                                                               *)
(***************************************************************************)
SQLFreeStmt(s) ==
  /\ pc = Idle
  /\ Exists(s) /\ dm[stmt[s].connection] = "connected"
  /\ pc' = Deleting("SQLFreeStmt", stmt[s].connection, s, "~OdbcStatement")
  /\ UNCHANGED <<connections, conn, stmt, desc, client, dm>>

\* With a transaction open the call is refused, and nothing changes.  After
\* commit() everything is closed; if it throws, the session is left alone, and
\* the statements and the place in the environment stay.
SQLDisconnect(c) ==
  /\ pc = Idle
  /\ dm[c] = "connected"
  /\ ~conn[c].transactionPending
  /\ \/ /\ pc' = Deleting("SQLDisconnect", c, NoStmt, "close")
        /\ UNCHANGED <<conn, client, dm>>
     \/ /\ conn' = [conn EXCEPT ![c].connection = FALSE]
        /\ client' = [client EXCEPT !.session[c] = "abandoned"]
        /\ dm' = [dm EXCEPT ![c] = "disconnected"]
        /\ pc' = pc
  /\ UNCHANGED <<connections, stmt, desc>>

SQLFreeConnect(c) ==
  /\ pc = Idle
  /\ dm[c] \in {"allocated", "disconnected"}
  /\ pc' = Deleting("SQLFreeConnect", c, NoStmt, "close")
  /\ UNCHANGED <<connections, conn, stmt, desc, client, dm>>

At(step) == pc.step = step
GoTo(step) == pc' = [pc EXCEPT !.step = step]

\* OdbcConnection::close(): out of the environment, which it then forgets.
LeaveEnv ==
  /\ At("close")
  /\ conn' = [conn EXCEPT ![pc.conn].env = FALSE]
  /\ connections' = IF conn[pc.conn].env THEN RemoveFirst(connections, pc.conn)
                                         ELSE connections
  /\ GoTo("statements")
  /\ UNCHANGED <<stmt, desc, client, dm>>

\* while (statements) delete statements.
NextStatement ==
  /\ At("statements")
  /\ IF conn[pc.conn].statements = << >>
     THEN GoTo("descriptors")
     ELSE pc' = Deleting(pc.call, pc.conn, Head(conn[pc.conn].statements), "~OdbcStatement")
  /\ UNCHANGED <<connections, conn, stmt, desc, client, dm>>

\* Mutant of StatementDeleted: a statement that close() deletes stays on its list.
StatementDeletedStays ==
  /\ At("~OdbcStatement")
  /\ conn' = IF pc.call = "SQLFreeStmt"
             THEN [conn EXCEPT ![pc.conn].statements = RemoveFirst(@, pc.stmt)] ELSE conn
  /\ GoTo("releaseStatement")
  /\ UNCHANGED <<connections, stmt, desc, client, dm>>

\* ~OdbcStatement begins with statementDeleted.
StatementDeleted ==
  /\ At("~OdbcStatement")
  /\ conn' = [conn EXCEPT ![pc.conn].statements = RemoveFirst(@, pc.stmt)]
  /\ GoTo("releaseStatement")
  /\ UNCHANGED <<connections, stmt, desc, client, dm>>

\* It closes what was prepared, and goes on with its members.
ReleaseStatement ==
  /\ At("releaseStatement")
  /\ client' = IF stmt[pc.stmt].statement THEN StatementClosed(pc.stmt, pc.conn)
                                          ELSE client
  /\ stmt' = [stmt EXCEPT ![pc.stmt].statement = FALSE]
  /\ GoTo("~OdbcDesc")
  /\ UNCHANGED <<connections, conn, desc, dm>>

\* ~OdbcDesc deletes what its slots point to: with a pointer that was never set the
\* destructor does not come to its end.
recordsDeleted(records) == \A n \in DOMAIN records : records[n] # "wild"

\* Mutant of DescriptorDeleted: a descriptor does not take itself off the list.
DescriptorDeletedStays ==
  /\ At("~OdbcDesc")
  /\ desc' = desc \ {<<pc.stmt, pc.left>>}
  /\ IF pc.left > 1
     THEN /\ pc' = [pc EXCEPT !.left = @ - 1]
          /\ stmt' = stmt
     ELSE /\ pc' = IF pc.call = "SQLFreeStmt" THEN Idle
                   ELSE Deleting(pc.call, pc.conn, NoStmt, "statements")
          /\ stmt' = [stmt EXCEPT ![pc.stmt] = NoStatement]
  /\ UNCHANGED <<connections, conn, client, dm>>

\* The members go from the last to the first, each off the list of the connection;
\* the first takes its records with it, and then the statement itself is gone.
DescriptorDeleted ==
  /\ At("~OdbcDesc")
  /\ pc.left = 1 => recordsDeleted(stmt[pc.stmt].records)
  /\ conn' = [conn EXCEPT ![pc.conn].descriptors = RemoveFirst(@, <<pc.stmt, pc.left>>)]
  /\ desc' = desc \ {<<pc.stmt, pc.left>>}
  /\ IF pc.left > 1
     THEN /\ pc' = [pc EXCEPT !.left = @ - 1]
          /\ stmt' = stmt
     ELSE /\ pc' = IF pc.call = "SQLFreeStmt" THEN Idle
                   ELSE Deleting(pc.call, pc.conn, NoStmt, "statements")
          /\ stmt' = [stmt EXCEPT ![pc.stmt] = NoStatement]
  /\ UNCHANGED <<connections, client, dm>>

\* while (descriptors) delete descriptors: those no statement has taken along.
NextDescriptor ==
  /\ At("descriptors")
  /\ LET list == conn[pc.conn].descriptors
     IN  IF list = << >>
         THEN GoTo("connection") /\ UNCHANGED <<conn, desc>>
         ELSE /\ conn' = [conn EXCEPT ![pc.conn].descriptors = Tail(@)]
              /\ desc' = desc \ {Head(list)}
              /\ pc' = pc
  /\ UNCHANGED <<connections, stmt, client, dm>>

\* The session last: sqlDisconnect survives that it throws.  The handle is the
\* driver manager's again; after SQLFreeHandle there is no object behind it.
CloseSession ==
  /\ At("connection")
  /\ LET c == pc.conn
     IN  /\ IF conn[c].connection
            THEN \/ client' = SessionClosed(c)
                 \/ pc.call = "SQLDisconnect" /\ client' = [client EXCEPT !.session[c] = "abandoned"]
            ELSE client' = client
         /\ conn' = [conn EXCEPT ![c] = IF pc.call = "SQLFreeConnect" THEN NoConnection
                                        ELSE [@ EXCEPT !.connection = FALSE]]
         /\ dm' = [dm EXCEPT ![c] = IF pc.call = "SQLFreeConnect" THEN "free"
                                                                   ELSE "disconnected"]
  /\ pc' = Idle
  /\ UNCHANGED <<connections, stmt, desc>>

-----------------------------------------------------------------------------
Delete ==
  LeaveEnv \/ NextStatement \/ StatementDeleted \/ ReleaseStatement
  \/ DescriptorDeleted \/ NextDescriptor \/ CloseSession

Next ==
  \/ AllocEnv \/ FreeEnv
  \/ \E c \in Conns :
       \/ AllocConnection(c) \/ Connect(c) \/ SQLEndTran(c)
       \/ SQLDisconnect(c) \/ SQLFreeConnect(c)
       \/ \E s \in Stmts : AllocStatement(s, c) \/ SQLPrepare(s, c) \/ SQLExecute(s, c)
  \/ \E s \in Stmts : SQLFreeStmt(s) \/ \E n \in 1 .. MaxRecord : SQLSetDescField(s, n)
  \/ Delete

Spec == Init /\ [][Next]_vars

\* A destructor that has begun goes on.
FairSpec == Spec /\ WF_vars(Delete)

-----------------------------------------------------------------------------
(***************************************************************************)
(* Properties.                                                             *)
(***************************************************************************)
\* Every variable has its type.
TypeOK ==
  /\ connections \in Seq(Conns) \cup {Gone}
  /\ conn \in [Conns -> Connections]
  /\ stmt \in [Stmts -> Statements]
  /\ desc \subseteq Stmts \X Kinds
  /\ client \in [session : [Conns -> {"none", "open", "closed", "abandoned"}],
                 statements : SUBSET (Stmts \X Conns), misused : BOOLEAN]
  /\ dm \in [Conns -> {"free", "allocated", "connected", "disconnected"}]
  /\ pc = Idle \/ pc \in [call : {"SQLFreeStmt", "SQLDisconnect", "SQLFreeConnect"},
                          conn : Conns, stmt : Stmts \cup {NoStmt}, left : Kinds,
                          step : {"close", "statements", "~OdbcStatement", "releaseStatement",
                                  "~OdbcDesc", "descriptors", "connection"}]

\* list holds the objects of S, each once.
Lists(list, S) == ToSet(list) = S /\ Len(list) = Cardinality(S)

\* The statement whose destructor has taken it off its list.
HalfDeleted == IF At("releaseStatement") \/ At("~OdbcDesc") THEN {pc.stmt} ELSE {}

\* Every list holds exactly the objects that exist, each once, in the middle of a
\* destructor as well, and what is deleted is there to be deleted: no object is
\* deleted twice, none is left behind, whoever deletes it and in whatever order.
ListsExact ==
  /\ connections # Gone => Lists(connections, {c \in Conns : conn[c].env})
  /\ connections = Gone => \A c \in Conns : ~conn[c].env
  /\ \A c \in Conns :
       /\ Lists(conn[c].statements, {s \in Stmts : stmt[s].connection = c} \ HalfDeleted)
       /\ Lists(conn[c].descriptors, {d \in desc : stmt[d[1]].connection = c})
  /\ \A d \in desc : Exists(d[1])
  /\ At("~OdbcDesc") => <<pc.stmt, pc.left>> \in desc

Objects == INSTANCE ClientObjects WITH
  session    <- client.session,
  statements <- client.statements,
  misused    <- client.misused

\* The driver uses the client library as ClientObjects says: a statement is closed
\* once and before its session, whether the application frees it, a disconnect or
\* a destructor does, and also when the session is lost to a failing commit.
ClientSpec == Objects!Spec

\* A call that deletes returns: the loops of close() come to the end of their
\* lists, since every destructor takes its object off.
DeletionEnds == pc # Idle ~> pc = Idle
=============================================================================
