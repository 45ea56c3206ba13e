------------------------ MODULE OdbcConnectionProofs ------------------------
(***************************************************************************)
(* Proofs about the environment and its connections, for any number of     *)
(* connections, statements and, where nothing else is said, threads.       *)
(***************************************************************************)
EXTENDS OdbcConnection, TLAPS

\* The definitions every action may use.
USE DEF Returns

-----------------------------------------------------------------------------
(***************************************************************************)
(* Types.                                                                  *)
(***************************************************************************)
\* A new connection, and none, are values of the type.
LEMMA NewObjectType == NoObject \in Connections /\ NewConnection \in Connections
<1>1. 0 \in 0 .. MaxStatements
  BY BoundsAssumption
<1>2. NoObject \in Connections
  BY <1>1 DEF NoObject, Connections
<1>3. NewConnection \in Connections
  BY <1>2 DEF NewConnection, Connections
<1> QED
  BY <1>2, <1>3

\* A closed connection is still a connection object.
LEMMA ClosedType ==
  ASSUME TypeOK, NEW c \in Conns
  PROVE  closed(c) \in Connections
<1>1. conn[c] \in Connections /\ 0 \in 0 .. MaxStatements
  BY BoundsAssumption DEF TypeOK
<1>2. \A b \in BOOLEAN :
        [conn[c] EXCEPT !.env = FALSE, !.statements = 0, !.connection = FALSE,
                        !.connected = b] \in Connections
  BY <1>1 DEF Connections
<1>3. (conn[c].connected /\ ~conn[c].connection) \in BOOLEAN
  OBVIOUS
<1> QED
  BY <1>2, <1>3 DEF closed

\* The life of a handle keeps the types.
LEMMA HandleType ==
  ASSUME TypeOK, NEW c \in Conns, Handle(c)
  PROVE  TypeOK'
<1>1. NoObject \in Connections /\ NewConnection \in Connections
  BY NewObjectType
<1>2. NoSession \in Sessions /\ NewSession \in Sessions
  BY DEF NoSession, NewSession, Sessions
<1>3. closed(c) \in Connections
  BY ClosedType
<1>4. unlinked(c) \subseteq Conns
  BY DEF unlinked, TypeOK
<1>5. conn[c] \in Connections /\ db[c] \in Sessions
  BY DEF TypeOK
<1>6. CASE AllocConnection(c)
  BY <1>1, <1>5, <1>6 DEF AllocConnection, TypeOK, Sessions, CallNames, Codes
<1>7. CASE Connect(c)
  BY <1>2, <1>5, <1>7 DEF Connect, TypeOK, Connections, Sessions, CallNames, Codes
<1>8. CASE ConnectFails(c)
  BY <1>5, <1>8 DEF ConnectFails, TypeOK, Connections, Sessions, CallNames, Codes
<1>9. CASE DisconnectRefused(c)
  BY <1>5, <1>9 DEF DisconnectRefused, TypeOK, Sessions, CallNames, Codes
<1>10. CASE Disconnect(c)
  BY <1>2, <1>3, <1>4, <1>5, <1>10 DEF Disconnect, TypeOK, Sessions, CallNames, Codes
<1>11. ASSUME NEW atCommit \in BOOLEAN, DisconnectThrows(c, atCommit)
       PROVE  TypeOK'
  <2>1. conn' \in [Conns -> Connections]
    BY <1>3, <1>5, <1>11 DEF DisconnectThrows, TypeOK, Connections
  <2>2. db' \in [Conns -> Sessions]
    BY <1>5, <1>11 DEF DisconnectThrows, TypeOK, Sessions
  <2>3. connections' \subseteq Conns
    BY <1>4, <1>11 DEF DisconnectThrows, TypeOK
  <2>4. ret' \in [call : CallNames, code : Codes, hadWork : BOOLEAN]
    BY <1>5, <1>11 DEF DisconnectThrows, Sessions, CallNames, Codes
  <2> QED
    BY <2>1, <2>2, <2>3, <2>4, <1>11 DEF DisconnectThrows, TypeOK
<1>12. CASE FreeConnection(c)
  BY <1>1, <1>2, <1>4, <1>5, <1>12 DEF FreeConnection, TypeOK, Sessions, CallNames, Codes
<1>13. CASE AllocStatement(c)
  BY <1>5, <1>13, BoundsAssumption
  DEF AllocStatement, TypeOK, Connections, Sessions, CallNames, Codes
<1>14. CASE FreeStatement(c)
  BY <1>5, <1>14, BoundsAssumption
  DEF FreeStatement, TypeOK, Connections, Sessions, CallNames, Codes
<1> QED
  BY <1>6, <1>7, <1>8, <1>9, <1>10, <1>11, <1>12, <1>13, <1>14 DEF Handle

\* A session keeps its type whether the work is gone or not.
LEMMA WorkMayBeGoneType ==
  ASSUME TypeOK, NEW c \in Conns, NEW open \in {FALSE, db[c].open},
         db' = [db EXCEPT ![c].open = open]
  PROVE  db' \in [Conns -> Sessions]
<1>1. db[c] \in Sessions /\ db \in [Conns -> Sessions]
  BY DEF TypeOK
<1>2. open \in BOOLEAN
  BY <1>1 DEF Sessions
<1>3. [db[c] EXCEPT !.open = open] \in Sessions
  BY <1>1, <1>2 DEF Sessions
<1> QED
  BY <1>1, <1>3

\* So do attributes, and the calls that fail before they change anything.
LEMMA SetAttributeType ==
  ASSUME TypeOK, NEW c \in Conns,
         SetAttribute(c) \/ ExecuteFails(c) \/ EndTranThrows(c)
  PROVE  TypeOK'
<1>1. conn[c] \in Connections /\ db[c] \in Sessions
  BY DEF TypeOK
<1>2. ASSUME NEW on \in BOOLEAN, SetAutoCommit(c, on)
      PROVE  TypeOK'
  <2>1. PICK open \in {FALSE, db[c].open} :
          db' = [db EXCEPT ![c].autoCommit = on, ![c].open = open]
    BY <1>2 DEF SetAutoCommit
  <2>2. open \in BOOLEAN
    BY <1>1 DEF Sessions
  <2>3. db' \in [Conns -> Sessions]
    BY <1>1, <2>1, <2>2 DEF TypeOK, Sessions
  <2>4. conn' \in [Conns -> Connections]
    BY <1>1, <1>2 DEF SetAutoCommit, TypeOK, Connections
  <2> QED
    BY <1>1, <1>2, <2>3, <2>4 DEF SetAutoCommit, TypeOK, Sessions, CallNames, Codes
<1>3. ASSUME NEW on \in BOOLEAN, SetAutoCommitThrows(c, on)
      PROVE  TypeOK'
  BY <1>1, <1>3 DEF SetAutoCommitThrows, TypeOK, Connections, Sessions, CallNames, Codes
<1>4. CASE SetIsolation(c)
  BY <1>1, <1>4 DEF SetIsolation, TypeOK, Sessions, CallNames, Codes
<1>5. CASE ExecuteFails(c)
  BY <1>1, <1>5 DEF ExecuteFails, TypeOK, Sessions, CallNames, Codes
<1>6. CASE EndTranThrows(c)
  <2>1. db' \in [Conns -> Sessions]
    BY <1>6, WorkMayBeGoneType DEF EndTranThrows, WorkMayBeGone
  <2> QED
    BY <1>1, <1>6, <2>1 DEF EndTranThrows, TypeOK, Sessions, CallNames, Codes
<1> QED
  BY <1>2, <1>3, <1>4, <1>5, <1>6 DEF SetAttribute

\* So do the steps of executions and of ending transactions.
LEMMA TransactType ==
  ASSUME TypeOK, NEW t \in Threads, NEW c \in Conns, Transact(t, c)
  PROVE  TypeOK'
<1>1. conn[c] \in Connections /\ db[c] \in Sessions
  BY DEF TypeOK
<1>2. /\ Outside \in Places
      /\ \A call \in {"SQLExecute", "SQLEndTran", "SQLEndTranEnv"} :
           In(call, {c}) \in Places /\ In(call, {}) \in Places
  BY DEF Outside, In, Places
<1>3. visited(c) \in EndEnvLoops /\ visitFailed(c) \in EndEnvLoops
  BY DEF visited, visitFailed, EndEnvLoops, TypeOK
<1>4. ASSUME NEW text \in Texts, ExecuteInDatabase(t, c, text)
      PROVE  TypeOK'
  <2>1. openAfter(db[c], text) \in BOOLEAN
    BY <1>1, <1>4, TextsAssumption DEF openAfter, Sessions
  <2> QED
    BY <1>1, <1>2, <1>4, <2>1 DEF ExecuteInDatabase, TypeOK, Sessions
<1>5. CASE transactionStarted(t, c)
  BY <1>1, <1>2, <1>5
  DEF transactionStarted, TypeOK, Connections, Sessions, CallNames, Codes
<1>6. CASE EndTranInDatabase(t, c)
  BY <1>1, <1>2, <1>6 DEF EndTranInDatabase, TypeOK, Sessions
<1>7. CASE EndTranReturns(t, c)
  BY <1>1, <1>2, <1>7
  DEF EndTranReturns, TypeOK, Connections, Sessions, CallNames, Codes
<1>8. CASE EnvVisitInDatabase(t, c)
  BY <1>1, <1>2, <1>8 DEF EnvVisitInDatabase, TypeOK, Sessions
<1>9. CASE EnvVisitReturns(t, c)
  BY <1>1, <1>2, <1>3, <1>9 DEF EnvVisitReturns, TypeOK, Connections
<1>10. CASE EnvVisitThrows(t, c)
  <2>1. db' \in [Conns -> Sessions]
    BY <1>10, WorkMayBeGoneType DEF EnvVisitThrows, WorkMayBeGone
  <2> QED
    BY <1>3, <1>10, <2>1 DEF EnvVisitThrows, TypeOK
<1>11. CASE EnvVisitSkips(t, c)
  BY <1>3, <1>11 DEF EnvVisitSkips, TypeOK
<1> QED
  BY <1>4, <1>5, <1>6, <1>7, <1>8, <1>9, <1>10, <1>11 DEF Transact

\* And the two ends of the environment's loop.
LEMMA EndTranEnvType ==
  ASSUME TypeOK, NEW t \in Threads, EndTranEnv(t) \/ EndTranEnvReturns(t)
  PROVE  TypeOK'
<1>1. Outside \in Places /\ In("SQLEndTranEnv", {}) \in Places
  BY DEF Outside, In, Places
<1>2. CASE EndTranEnv(t)
  BY <1>1, <1>2 DEF EndTranEnv, TypeOK, EndEnvLoops
<1>3. CASE EndTranEnvReturns(t)
  BY <1>1, <1>3 DEF EndTranEnvReturns, TypeOK, CallNames, Codes
<1> QED
  BY <1>2, <1>3

\* Type correctness of the environment and its connections.
THEOREM TypeCorrect == Spec => []TypeOK
<1>1. Init => TypeOK
  BY NewObjectType
  DEF Init, TypeOK, NoSession, Sessions, Outside, Places,
      EndEnvLoops, CallNames, Codes
<1>2. TypeOK /\ [Next]_vars => TypeOK'
  <2> SUFFICES ASSUME TypeOK, [Next]_vars PROVE TypeOK'
    OBVIOUS
  <2>1. CASE \E c \in Conns : Handle(c) \/ SetAttribute(c) \/ ExecuteFails(c)
                              \/ EndTranThrows(c)
    BY <2>1, HandleType, SetAttributeType
  <2>2. CASE \E t \in Threads, c \in Conns : Transact(t, c)
    BY <2>2, TransactType
  <2>3. CASE \E t \in Threads : EndTranEnv(t) \/ EndTranEnvReturns(t)
    BY <2>3, EndTranEnvType
  <2>4. CASE UNCHANGED vars
    BY <2>4 DEF vars, TypeOK
  <2> QED
    BY <2>1, <2>2, <2>3, <2>4 DEF Next
<1> QED
  BY <1>1, <1>2, PTL DEF Spec

-----------------------------------------------------------------------------
(***************************************************************************)
(* The list of the environment.                                            *)
(***************************************************************************)
\* Setting an attribute, and a call that fails, change no pointer.
LEMMA SetAttributeFrame ==
  ASSUME TypeOK, NEW c \in Conns,
         SetAttribute(c) \/ ExecuteFails(c) \/ EndTranThrows(c)
  PROVE  /\ UNCHANGED <<connections, dm, pc, endEnv>>
         /\ \A d \in Conns :
              /\ conn'[d].exists = conn[d].exists
              /\ conn'[d].env = conn[d].env
              /\ conn'[d].connection = conn[d].connection
              /\ conn'[d].transactionPending = conn[d].transactionPending
              /\ db'[d].live = db[d].live
              /\ db'[d].open => db[d].open
<1> USE DEF TypeOK, Connections, Sessions
<1>1. ASSUME NEW on \in BOOLEAN, SetAutoCommit(c, on)
      PROVE  \A d \in Conns :
               db'[d].live = db[d].live /\ (db'[d].open => db[d].open)
  <2>1. PICK open \in {FALSE, db[c].open} :
          db' = [db EXCEPT ![c].autoCommit = on, ![c].open = open]
    BY <1>1 DEF SetAutoCommit
  <2>2. db'[c].live = db[c].live /\ (db'[c].open => db[c].open)
    BY <2>1
  <2>3. \A d \in Conns \ {c} : db'[d] = db[d]
    BY <2>1
  <2> QED
    BY <2>2, <2>3
<1>2. ASSUME NEW on \in BOOLEAN, SetAutoCommit(c, on) \/ SetAutoCommitThrows(c, on)
      PROVE  /\ UNCHANGED <<connections, dm, pc, endEnv>>
             /\ \A d \in Conns :
                  /\ conn'[d].exists = conn[d].exists
                  /\ conn'[d].env = conn[d].env
                  /\ conn'[d].connection = conn[d].connection
                  /\ conn'[d].transactionPending = conn[d].transactionPending
  BY <1>2 DEF SetAutoCommit, SetAutoCommitThrows
<1>3. ASSUME NEW on \in BOOLEAN, SetAutoCommitThrows(c, on)
      PROVE  db' = db
  BY <1>3 DEF SetAutoCommitThrows
<1>4. CASE SetIsolation(c)
  BY <1>4 DEF SetIsolation
<1>5. CASE ExecuteFails(c)
  BY <1>5 DEF ExecuteFails
<1>6. CASE EndTranThrows(c)
  <2>1. PICK open \in {FALSE, db[c].open} : db' = [db EXCEPT ![c].open = open]
    BY <1>6 DEF EndTranThrows, WorkMayBeGone
  <2>2. db'[c].live = db[c].live /\ (db'[c].open => db[c].open)
    <3>1. db'[c].live = db[c].live /\ db'[c].open = open
      BY <2>1
    <3>2. open = FALSE \/ open = db[c].open
      BY <2>1
    <3> QED
      BY <3>1, <3>2
  <2>3. \A d \in Conns \ {c} : db'[d] = db[d]
    BY <2>1
  <2> QED
    BY <1>6, <2>2, <2>3 DEF EndTranThrows
<1> QED
  BY <1>1, <1>2, <1>3, <1>6, <1>4, <1>5 DEF SetAttribute

\* Every step keeps the list exact: only the life of a handle touches it.
LEMMA EnvListStep ==
  ASSUME TypeOK, EnvListExact, [Next]_vars
  PROVE  EnvListExact'
<1> USE DEF EnvListExact
<1>1. ASSUME NEW c \in Conns, Handle(c)
      PROVE  EnvListExact'
  <2>1. CASE AllocConnection(c)
    BY <2>1 DEF AllocConnection, NewConnection, NoObject, TypeOK
  <2>2. CASE Connect(c) \/ ConnectFails(c) \/ AllocStatement(c) \/ FreeStatement(c)
    <3>1. connections' = connections
      BY <2>2 DEF Connect, ConnectFails, AllocStatement, FreeStatement
    <3>2. \A d \in Conns \ {c} : conn'[d] = conn[d]
      BY <2>2 DEF Connect, ConnectFails, AllocStatement, FreeStatement, TypeOK
    <3>3. conn'[c].exists = conn[c].exists /\ conn'[c].env = conn[c].env
      BY <2>2 DEF Connect, ConnectFails, AllocStatement, FreeStatement, TypeOK, Connections
    <3> QED
      BY <3>1, <3>2, <3>3
  <2>3. CASE DisconnectRefused(c)
    BY <2>3 DEF DisconnectRefused
  <2>4. CASE Disconnect(c)
    BY <2>4 DEF Disconnect, closed, unlinked, TypeOK, Connections
  <2>5. ASSUME NEW atCommit \in BOOLEAN, DisconnectThrows(c, atCommit)
        PROVE  EnvListExact'
    BY <2>5 DEF DisconnectThrows, closed, unlinked, TypeOK, Connections
  <2>6. CASE FreeConnection(c)
    BY <2>6 DEF FreeConnection, unlinked, NoObject, TypeOK
  <2> QED
    BY <1>1, <2>1, <2>2, <2>3, <2>4, <2>5, <2>6 DEF Handle
<1>2. ASSUME NEW c \in Conns, SetAttribute(c) \/ ExecuteFails(c) \/ EndTranThrows(c)
      PROVE  EnvListExact'
  <2>1. /\ connections' = connections
        /\ \A d \in Conns : conn'[d].exists = conn[d].exists /\ conn'[d].env = conn[d].env
    BY <1>2, SetAttributeFrame
  <2> QED
    BY <2>1
<1>3. ASSUME NEW t \in Threads, NEW c \in Conns, Transact(t, c)
      PROVE  EnvListExact'
  BY <1>3 DEF Transact, ExecuteInDatabase, transactionStarted, EndTranInDatabase,
              EndTranReturns, EnvVisitInDatabase, EnvVisitReturns, EnvVisitThrows,
              EnvVisitSkips, TypeOK, Connections
<1>4. ASSUME NEW t \in Threads, EndTranEnv(t) \/ EndTranEnvReturns(t)
      PROVE  EnvListExact'
  BY <1>4 DEF EndTranEnv, EndTranEnvReturns
<1>5. CASE UNCHANGED vars
  BY <1>5 DEF vars
<1> QED
  BY <1>1, <1>2, <1>3, <1>4, <1>5 DEF Next

\* The environment's list holds its live connections and no deleted one.
THEOREM EnvListCorrect == Spec => []EnvListExact
<1>1. Init => EnvListExact
  BY DEF Init, EnvListExact, NoObject
<1> QED
  BY <1>1, EnvListStep, TypeCorrect, PTL DEF Spec

-----------------------------------------------------------------------------
(***************************************************************************)
(* Sessions.                                                               *)
(***************************************************************************)
\* Every step keeps the pointers to sessions good.
LEMMA NoUseStep ==
  ASSUME TypeOK, NoUseOfClosedSession, [Next]_vars
  PROVE  NoUseOfClosedSession'
<1> USE DEF NoUseOfClosedSession
<1>1. ASSUME NEW c \in Conns, Handle(c)
      PROVE  NoUseOfClosedSession'
  <2> USE DEF Quiet, Busy
  <2>1. CASE AllocConnection(c)
    BY <2>1 DEF AllocConnection, NewConnection, NoObject, TypeOK
  <2>2. CASE Connect(c)
    BY <2>2 DEF Connect, NewSession, NoSession, TypeOK, Connections
  <2>3. CASE ConnectFails(c)
    BY <2>3 DEF ConnectFails, TypeOK, Connections
  <2>4. CASE AllocStatement(c) \/ FreeStatement(c)
    <3>1. UNCHANGED <<db, dm, pc>>
      BY <2>4 DEF AllocStatement, FreeStatement
    <3>2. \A d \in Conns : conn'[d].connection = conn[d].connection
      BY <2>4 DEF AllocStatement, FreeStatement, TypeOK, Connections
    <3> QED
      BY <3>1, <3>2
  <2>5. CASE DisconnectRefused(c)
    BY <2>5 DEF DisconnectRefused
  <2>6. CASE Disconnect(c)
    BY <2>6 DEF Disconnect, closed, TypeOK, Connections
  <2>7. ASSUME NEW atCommit \in BOOLEAN, DisconnectThrows(c, atCommit)
        PROVE  NoUseOfClosedSession'
    <3>1. conn' = [conn EXCEPT ![c] = conn'[c]] /\ ~conn'[c].connection
      BY <2>7 DEF DisconnectThrows, closed, TypeOK, Connections
    <3>2. \A d \in Conns : db'[d].live = db[d].live
      BY <2>7 DEF DisconnectThrows, TypeOK, Sessions
    <3>3. dm' = [dm EXCEPT ![c] = "disconnected"] /\ pc' = pc
      BY <2>7 DEF DisconnectThrows
    <3>4. \A t \in Threads : c \notin pc[t].flag
      BY <2>7 DEF DisconnectThrows
    <3>5. \A d \in Conns \ {c} : conn'[d] = conn[d] /\ dm'[d] = dm[d]
      BY <3>1, <3>3 DEF TypeOK
    <3>6. dm'[c] # "connected"
      BY <3>3 DEF TypeOK
    <3> QED
      BY <3>1, <3>2, <3>3, <3>4, <3>5, <3>6
  <2>8. CASE FreeConnection(c)
    BY <2>8 DEF FreeConnection, NoObject, TypeOK
  <2> QED
    BY <1>1, <2>1, <2>2, <2>3, <2>4, <2>5, <2>6, <2>7, <2>8 DEF Handle
<1>2. ASSUME NEW c \in Conns, SetAttribute(c) \/ ExecuteFails(c) \/ EndTranThrows(c)
      PROVE  NoUseOfClosedSession'
  BY <1>2, SetAttributeFrame
<1>3. ASSUME NEW t \in Threads, NEW c \in Conns, Transact(t, c)
      PROVE  NoUseOfClosedSession'
  <2> USE DEF In, Outside, TypeOK, Connections, Sessions
  <2>1. CASE \E text \in Texts : ExecuteInDatabase(t, c, text)
    BY <2>1 DEF ExecuteInDatabase
  <2>2. CASE transactionStarted(t, c)
    BY <2>2 DEF transactionStarted
  <2>3. CASE EndTranInDatabase(t, c)
    BY <2>3 DEF EndTranInDatabase
  <2>4. CASE EndTranReturns(t, c)
    BY <2>4 DEF EndTranReturns
  <2>5. CASE EnvVisitInDatabase(t, c)
    BY <2>5 DEF EnvVisitInDatabase
  <2>6. CASE EnvVisitReturns(t, c)
    BY <2>6 DEF EnvVisitReturns
  <2>7. CASE EnvVisitThrows(t, c)
    BY <2>7 DEF EnvVisitThrows, WorkMayBeGone
  <2>8. CASE EnvVisitSkips(t, c)
    BY <2>8 DEF EnvVisitSkips
  <2> QED
    BY <1>3, <2>1, <2>2, <2>3, <2>4, <2>5, <2>6, <2>7, <2>8 DEF Transact
<1>4. ASSUME NEW t \in Threads, EndTranEnv(t) \/ EndTranEnvReturns(t)
      PROVE  NoUseOfClosedSession'
  BY <1>4 DEF EndTranEnv, EndTranEnvReturns, In, Outside, TypeOK
<1>5. CASE UNCHANGED vars
  BY <1>5 DEF vars
<1> QED
  BY <1>1, <1>2, <1>3, <1>4, <1>5 DEF Next

\* No call of any thread enters a session that is gone.
THEOREM NoUseOfClosedSessionCorrect == Spec => []NoUseOfClosedSession
<1>1. Init => NoUseOfClosedSession
  BY DEF Init, NoUseOfClosedSession, NoObject, Outside
<1> QED
  BY <1>1, NoUseStep, TypeCorrect, PTL DEF Spec

-----------------------------------------------------------------------------
(***************************************************************************)
(* Transactions, when no two threads are between the database and the flag *)
(* of one connection, the session never refuses its autocommit mode, and   *)
(* no SQL text starts a transaction: the conditions under which            *)
(* transactionPending is right.                                            *)
(***************************************************************************)
FlagsApart == \A s, t \in Threads : s # t => pc[s].flag \cap pc[t].flag = {}
PlainTexts == "start" \notin Texts

\* Nothing is executed while the environment ends its transactions.
EnvAlone == InEndEnv => \A t \in Threads : pc[t].call # "SQLExecute"

\* An application with one thread needs no care for either.
LEMMA OneThreadApart ==
  ASSUME TypeOK, \A s, t \in Threads : s = t
  PROVE  FlagsApart /\ EnvAlone
<1>1. FlagsApart
  BY DEF FlagsApart
<1>2. ASSUME NEW s \in Threads, NEW t \in Threads, pc[s].call = "SQLEndTranEnv"
      PROVE  pc[t].call # "SQLExecute"
  BY <1>2
<1> QED
  BY <1>1, <1>2 DEF EnvAlone, InEndEnv

\* autoCommit mirrors the mode of the session.
ModeMirrored ==
  \A c \in Conns :
    /\ dm[c] = "connected" => conn[c].autoCommit = db[c].autoCommit
    /\ dm[c] = "allocated" => conn[c].autoCommit = TRUE
    /\ conn[c].connection => dm[c] = "connected"

\* Work a thread has just done or ended, and is about to mark or unmark.
FlagToComeOf(t, c) ==
  /\ pc[t] = In("SQLExecute", {c}) /\ db[c].open
       => conn[c].transactionPending \/ ~conn[c].autoCommit
  /\ pc[t] = In("SQLEndTran", {c}) => ~db[c].open
  /\ pc[t] = In("SQLEndTranEnv", {c}) => ~db[c].open
FlagToCome == \A t \in Threads, c \in Conns : FlagToComeOf(t, c)

\* The inductive invariant.
TransactionInv == ModeMirrored /\ FlagToCome /\ PendingCoversTransaction

LEMMA TransactionInit == Init => TransactionInv
  BY DEF Init, TransactionInv, ModeMirrored, FlagToCome, FlagToComeOf, PendingCoversTransaction,
         NoObject, NoSession, Outside, In

\* The life of a handle keeps it: no thread is in the driver with the handle,
\* a new session is as the driver thinks, a closed one is not asked any more.
LEMMA TransactionHandle ==
  ASSUME TypeOK, TransactionInv, NEW c \in Conns, Handle(c)
  PROVE  TransactionInv'
<1> USE DEF TransactionInv
<1>1. /\ Quiet(c)
      /\ UNCHANGED pc
      /\ \A d \in Conns \ {c} : conn'[d] = conn[d] /\ db'[d] = db[d] /\ dm'[d] = dm[d]
  BY DEF Handle, AllocConnection, Connect, ConnectFails, DisconnectRefused, Disconnect,
         DisconnectThrows, FreeConnection, AllocStatement, FreeStatement, TypeOK
<1>2. \A t \in Threads : c \notin pc[t].flag
  BY <1>1 DEF Quiet, Busy
<1>3. FlagToCome'
  <2>1. \A t \in Threads : \A call \in {"SQLExecute", "SQLEndTran", "SQLEndTranEnv"} :
          pc'[t] # In(call, {c})
    BY <1>1, <1>2 DEF In
  <2> QED
    BY <1>1, <2>1 DEF FlagToCome, FlagToComeOf
<1>4. SUFFICES /\ dm'[c] = "connected" => conn'[c].autoCommit = db'[c].autoCommit
               /\ dm'[c] = "allocated" => conn'[c].autoCommit = TRUE
               /\ conn'[c].connection => dm'[c] = "connected"
               /\ conn'[c].connection /\ db'[c].open => conn'[c].transactionPending
  <2>1. ModeMirrored'
    BY <1>1, <1>4 DEF ModeMirrored
  <2>2. PendingCoversTransaction'
    BY <1>1, <1>4 DEF PendingCoversTransaction, Busy
  <2> QED
    BY <1>3, <2>1, <2>2
<1>5. /\ dm[c] = "connected" => conn[c].autoCommit = db[c].autoCommit
      /\ dm[c] = "allocated" => conn[c].autoCommit = TRUE
      /\ conn[c].connection => dm[c] = "connected"
      /\ conn[c].connection /\ db[c].open => conn[c].transactionPending
  BY <1>2 DEF ModeMirrored, PendingCoversTransaction, Busy
<1>6. CASE AllocConnection(c)
  BY <1>6 DEF AllocConnection, NewConnection, NoObject, TypeOK
<1>7. CASE Connect(c)
  BY <1>5, <1>7 DEF Connect, NewSession, NoSession, TypeOK, Connections
<1>8. CASE ConnectFails(c)
  BY <1>5, <1>8 DEF ConnectFails, TypeOK, Connections
<1>9. CASE DisconnectRefused(c)
  BY <1>5, <1>9 DEF DisconnectRefused
<1>10. CASE Disconnect(c)
  BY <1>10 DEF Disconnect, closed, TypeOK, Connections
<1>11. ASSUME NEW atCommit \in BOOLEAN, DisconnectThrows(c, atCommit)
       PROVE  dm'[c] = "disconnected" /\ ~conn'[c].connection
  BY <1>11 DEF DisconnectThrows, closed, TypeOK, Connections
<1>12. CASE FreeConnection(c)
  BY <1>12 DEF FreeConnection, NoObject, TypeOK
<1>13. CASE AllocStatement(c) \/ FreeStatement(c)
  BY <1>5, <1>13 DEF AllocStatement, FreeStatement, TypeOK, Connections
<1> QED
  BY <1>6, <1>7, <1>8, <1>9, <1>10, <1>11, <1>12, <1>13 DEF Handle

\* Attributes keep it as long as the session does as it is told, and a commit
\* that throws takes no mark away.
LEMMA TransactionSetAttribute ==
  ASSUME TypeOK, TransactionInv, ~SetMayFail, NEW c \in Conns,
         SetAttribute(c) \/ ExecuteFails(c) \/ EndTranThrows(c)
  PROVE  TransactionInv'
<1> USE DEF TransactionInv
<1>1. /\ UNCHANGED <<dm, pc>>
      /\ \A d \in Conns : /\ conn'[d].connection = conn[d].connection
                          /\ conn'[d].transactionPending = conn[d].transactionPending
                          /\ db'[d].open => db[d].open
  BY SetAttributeFrame
<1>2. PendingCoversTransaction'
  BY <1>1 DEF PendingCoversTransaction, Busy
<1>3. ASSUME NEW on \in BOOLEAN, SetAutoCommit(c, on)
      PROVE  TransactionInv'
  <2>1. conn'[c].autoCommit = on /\ db'[c].autoCommit = on /\ dm[c] = "connected"
    BY <1>3 DEF SetAutoCommit, TypeOK, Connections, Sessions
  <2>2. \A d \in Conns \ {c} : conn'[d] = conn[d] /\ db'[d] = db[d]
    BY <1>3 DEF SetAutoCommit, TypeOK
  <2>3. \A t \in Threads : pc[t] # In("SQLExecute", {c})
    BY <1>3 DEF SetAutoCommit, Quiet, Busy, In
  <2>4. ModeMirrored'
    BY <1>1, <2>1, <2>2 DEF ModeMirrored
  <2>5. FlagToCome'
    BY <1>1, <2>2, <2>3 DEF FlagToCome, FlagToComeOf
  <2> QED
    BY <1>2, <2>4, <2>5
<1>4. CASE SetIsolation(c) \/ ExecuteFails(c) \/ EndTranThrows(c)
  <2>1. conn' = conn /\ \A d \in Conns : db'[d].autoCommit = db[d].autoCommit
    BY <1>4 DEF SetIsolation, ExecuteFails, EndTranThrows, WorkMayBeGone, TypeOK, Sessions
  <2>2. ModeMirrored' /\ FlagToCome'
    BY <1>1, <2>1 DEF ModeMirrored, FlagToCome, FlagToComeOf
  <2> QED
    BY <1>2, <2>2
<1> QED
  BY <1>3, <1>4 DEF SetAttribute, SetAutoCommitThrows

\* The calls that update a flag.
Calls == {"SQLExecute", "SQLEndTran", "SQLEndTranEnv"}

\* Two places are the same only if the calls and the flags are.
LEMMA PlacesDiffer ==
  ASSUME NEW c \in Conns, NEW d \in Conns
  PROVE  \A a, b \in Calls :
           /\ In(a, {c}) = In(b, {d}) => a = b /\ c = d
           /\ Outside # In(a, {c}) /\ In(b, {}) # In(a, {c})
           /\ In(a, {c}).flag = {c} /\ In(a, {}).flag = {} /\ Outside.flag = {}
<1>1. ASSUME NEW a \in Calls, NEW b \in Calls, In(a, {c}) = In(b, {d})
      PROVE  a = b /\ c = d
  <2>1. In(a, {c}).call = In(b, {d}).call /\ In(a, {c}).flag = In(b, {d}).flag
    BY <1>1
  <2>2. a = b /\ {c} = {d}
    BY <2>1 DEF In
  <2> QED
    BY <2>2
<1>2. ASSUME NEW a \in Calls, NEW b \in Calls
      PROVE  /\ In(a, {c}).flag = {c} /\ In(a, {}).flag = {} /\ Outside.flag = {}
             /\ In(b, {}).flag = {}
  BY DEF In, Outside
<1>3. \A a, b \in Calls : In(a, {c}) = In(b, {d}) => a = b /\ c = d
  BY <1>1
<1>4. \A a, b \in Calls : Outside # In(a, {c}) /\ In(b, {}) # In(a, {c})
  BY <1>2
<1> QED
  BY <1>2, <1>3, <1>4

\* The other threads stay where they are.
LEMMA TransactPlaces ==
  ASSUME TypeOK, NEW t \in Threads, NEW c \in Conns, Transact(t, c)
  PROVE  \A s \in Threads \ {t} : pc'[s] = pc[s]
BY DEF Transact, ExecuteInDatabase, transactionStarted, EndTranInDatabase,
       EndTranReturns, EnvVisitInDatabase, EnvVisitReturns, EnvVisitThrows,
       EnvVisitSkips, TypeOK

\* What other threads are about to do to other connections is still to come.
LEMMA FlagsToComeOfOthers ==
  ASSUME FlagToCome, NEW t \in Threads, NEW c \in Conns,
         \A s \in Threads \ {t} : pc'[s] = pc[s] /\ \A a \in Calls : pc[s] # In(a, {c}),
         \A d \in Conns \ {c} : conn'[d] = conn[d] /\ db'[d] = db[d],
         \A d \in Conns : FlagToComeOf(t, d)'
  PROVE  FlagToCome'
<1>1. ASSUME NEW s \in Threads \ {t}, NEW d \in Conns \ {c}
      PROVE  FlagToComeOf(s, d)'
  BY DEF FlagToCome, FlagToComeOf
<1>2. ASSUME NEW s \in Threads \ {t}
      PROVE  FlagToComeOf(s, c)'
  BY DEF Calls, FlagToComeOf
<1> QED
  BY <1>1, <1>2 DEF FlagToCome

\* No step of a transaction changes what a connection is connected to, or a mode.
LEMMA TransactFrame ==
  ASSUME TypeOK, NEW t \in Threads, NEW c \in Conns, Transact(t, c)
  PROVE  dm' = dm /\ \A d \in Conns : /\ conn'[d].connection = conn[d].connection
                                      /\ conn'[d].autoCommit = conn[d].autoCommit
                                      /\ db'[d].autoCommit = db[d].autoCommit
BY DEF Transact, ExecuteInDatabase, transactionStarted, EndTranInDatabase,
       EndTranReturns, EnvVisitInDatabase, EnvVisitReturns, EnvVisitThrows,
       EnvVisitSkips, WorkMayBeGone, TypeOK, Connections, Sessions

\* Executing and ending a transaction keep it when no other thread is between
\* the database and the flag.
LEMMA TransactionTransact ==
  ASSUME TypeOK, TransactionInv, FlagsApart, FlagsApart', PlainTexts,
         NEW t \in Threads, NEW c \in Conns, Transact(t, c)
  PROVE  TransactionInv'
<1> USE DEF TransactionInv
<1>1. dm' = dm /\ \A d \in Conns : /\ conn'[d].connection = conn[d].connection
                                   /\ conn'[d].autoCommit = conn[d].autoCommit
                                   /\ db'[d].autoCommit = db[d].autoCommit
  BY TransactFrame
<1>2. ModeMirrored'
  BY <1>1 DEF ModeMirrored
<1>3. ASSUME c \in pc[t].flag \/ c \in pc'[t].flag
      PROVE  \A s \in Threads \ {t} :
               /\ pc'[s] = pc[s] /\ c \notin pc[s].flag
               /\ \A a \in Calls : pc[s] # In(a, {c})
  <2>1. \A s \in Threads \ {t} : pc'[s] = pc[s]
    BY TransactPlaces
  <2>2. ASSUME NEW s \in Threads \ {t}
        PROVE  c \notin pc[s].flag
    <3>1. pc[s].flag \cap pc[t].flag = {} /\ pc'[s].flag \cap pc'[t].flag = {}
      BY DEF FlagsApart
    <3>2. pc'[s].flag = pc[s].flag
      BY <2>1
    <3> QED
      BY <1>3, <3>1, <3>2
  <2>3. \A a \in Calls : In(a, {c}).flag = {c}
    BY DEF In
  <2> QED
    BY <2>1, <2>2, <2>3
<1>4. SUFFICES FlagToCome' /\ PendingCoversTransaction'
  BY <1>2
<1>5. ASSUME NEW text \in Texts, ExecuteInDatabase(t, c, text)
      PROVE  FlagToCome' /\ PendingCoversTransaction'
  <2>1. db'[c].open => ~conn[c].autoCommit
    <3>1. text \in {"work", "commit"}
      BY <1>5, TextsAssumption DEF PlainTexts
    <3>2. db'[c].open = openAfter(db[c], text)
      BY <1>5 DEF ExecuteInDatabase, TypeOK, Sessions
    <3>3. conn[c].autoCommit = db[c].autoCommit
      BY <1>5 DEF ExecuteInDatabase, ModeMirrored
    <3> QED
      BY <3>1, <3>2, <3>3 DEF openAfter
  <2>2. conn' = conn /\ \A d \in Conns \ {c} : db'[d] = db[d]
    BY <1>5 DEF ExecuteInDatabase, TypeOK
  <2>3. pc'[t] = In("SQLExecute", {c}) /\ pc[t] = Outside
    BY <1>5 DEF ExecuteInDatabase, TypeOK
  <2>4. pc'[t].flag = {c} /\ pc[t].flag = {}
    BY <2>3 DEF In, Outside
  <2>5. \A s \in Threads \ {t} : /\ pc'[s] = pc[s] /\ c \notin pc[s].flag
                                /\ \A a \in Calls : pc[s] # In(a, {c})
    BY <1>3, <2>4
  <2>6. FlagToCome'
    <3>1. ASSUME NEW d \in Conns PROVE FlagToComeOf(t, d)'
      <4>1. /\ pc'[t] # In("SQLEndTran", {d}) /\ pc'[t] # In("SQLEndTranEnv", {d})
            /\ pc'[t] = In("SQLExecute", {d}) => d = c
        BY <2>3 DEF In
      <4> QED
        BY <2>1, <2>2, <4>1 DEF FlagToComeOf
    <3> QED
      BY <2>2, <2>5, <3>1, FlagsToComeOfOthers
  <2>7. PendingCoversTransaction'
    BY <2>2, <2>4, <2>5 DEF PendingCoversTransaction, Busy
  <2> QED
    BY <2>6, <2>7
<1>6. CASE transactionStarted(t, c)
  <2>1. db' = db /\ pc[t] = In("SQLExecute", {c}) /\ pc'[t] = Outside
    BY <1>6 DEF transactionStarted, TypeOK
  <2>2. \A d \in Conns \ {c} : conn'[d] = conn[d]
    BY <1>6 DEF transactionStarted, TypeOK
  <2>3. db[c].open => conn'[c].transactionPending
    <3>1. conn'[c].transactionPending = (conn[c].transactionPending \/ ~conn[c].autoCommit)
      BY <1>6 DEF transactionStarted, TypeOK, Connections
    <3>2. db[c].open => conn[c].transactionPending \/ ~conn[c].autoCommit
      BY <2>1 DEF FlagToCome, FlagToComeOf
    <3> QED
      BY <3>1, <3>2
  <2>4. pc[t].flag = {c} /\ pc'[t].flag = {}
    BY <2>1 DEF In, Outside
  <2>5. \A s \in Threads \ {t} : /\ pc'[s] = pc[s] /\ c \notin pc[s].flag
                                /\ \A a \in Calls : pc[s] # In(a, {c})
    BY <1>3, <2>4
  <2>6. FlagToCome'
    <3>1. \A d \in Conns : FlagToComeOf(t, d)'
      BY <2>1, PlacesDiffer DEF FlagToComeOf, Calls
    <3> QED
      BY <2>1, <2>2, <2>5, <3>1, FlagsToComeOfOthers
  <2>7. PendingCoversTransaction'
    BY <2>1, <2>2, <2>3, <2>4, <2>5 DEF PendingCoversTransaction, Busy
  <2> QED
    BY <2>6, <2>7
<1>7. CASE EndTranInDatabase(t, c) \/ EnvVisitInDatabase(t, c)
  <2>1. conn' = conn /\ \A d \in Conns \ {c} : db'[d] = db[d]
    BY <1>7 DEF EndTranInDatabase, EnvVisitInDatabase, TypeOK, Sessions
  <2>2. /\ ~db'[c].open
        /\ pc'[t] \in {In("SQLEndTran", {c}), In("SQLEndTranEnv", {c})}
        /\ pc[t] \in {Outside, In("SQLEndTranEnv", {})}
    BY <1>7 DEF EndTranInDatabase, EnvVisitInDatabase, Visits, TypeOK, Sessions
  <2>3. pc'[t].flag = {c} /\ pc[t].flag = {}
    BY <2>2 DEF In, Outside
  <2>4. \A s \in Threads \ {t} : /\ pc'[s] = pc[s] /\ c \notin pc[s].flag
                                /\ \A a \in Calls : pc[s] # In(a, {c})
    BY <1>3, <2>3
  <2>5. FlagToCome'
    <3>1. ASSUME NEW d \in Conns PROVE FlagToComeOf(t, d)'
      <4>1. /\ pc'[t] # In("SQLExecute", {d})
            /\ pc'[t] \in {In("SQLEndTran", {d}), In("SQLEndTranEnv", {d})} => d = c
        BY <2>2 DEF In
      <4> QED
        BY <2>2, <4>1 DEF FlagToComeOf
    <3> QED
      BY <2>1, <2>4, <3>1, FlagsToComeOfOthers
  <2>6. PendingCoversTransaction'
    BY <2>1, <2>2, <2>3, <2>4 DEF PendingCoversTransaction, Busy
  <2> QED
    BY <2>5, <2>6
<1>8. CASE EndTranReturns(t, c) \/ EnvVisitReturns(t, c)
  <2>1. /\ db' = db
        /\ pc[t] \in {In("SQLEndTran", {c}), In("SQLEndTranEnv", {c})}
        /\ pc'[t] \in {Outside, In("SQLEndTranEnv", {})}
    BY <1>8 DEF EndTranReturns, EnvVisitReturns, TypeOK
  <2>2. \A d \in Conns \ {c} : conn'[d] = conn[d]
    BY <1>8 DEF EndTranReturns, EnvVisitReturns, TypeOK
  <2>3. ~db[c].open
    BY <2>1 DEF FlagToCome, FlagToComeOf
  <2>4. pc[t].flag = {c} /\ pc'[t].flag = {}
    BY <2>1 DEF In, Outside
  <2>5. \A s \in Threads \ {t} : /\ pc'[s] = pc[s] /\ c \notin pc[s].flag
                                /\ \A a \in Calls : pc[s] # In(a, {c})
    BY <1>3, <2>4
  <2>6. FlagToCome'
    <3>1. \A d \in Conns : FlagToComeOf(t, d)'
      BY <2>1, PlacesDiffer DEF FlagToComeOf, Calls
    <3> QED
      BY <2>1, <2>2, <2>5, <3>1, FlagsToComeOfOthers
  <2>7. PendingCoversTransaction'
    BY <2>1, <2>2, <2>3, <2>4, <2>5 DEF PendingCoversTransaction, Busy
  <2> QED
    BY <2>6, <2>7
<1>9. CASE EnvVisitThrows(t, c) \/ EnvVisitSkips(t, c)
  <2>1. conn' = conn /\ pc' = pc
    BY <1>9 DEF EnvVisitThrows, EnvVisitSkips
  <2>2. \A d \in Conns : db'[d].open => db[d].open
    <3>1. CASE EnvVisitSkips(t, c)
      BY <3>1 DEF EnvVisitSkips
    <3>2. CASE EnvVisitThrows(t, c)
      <4>1. PICK open \in {FALSE, db[c].open} : db' = [db EXCEPT ![c].open = open]
        BY <3>2 DEF EnvVisitThrows, WorkMayBeGone
      <4>2. db'[c].open = open /\ \A d \in Conns \ {c} : db'[d] = db[d]
        BY <4>1 DEF TypeOK, Sessions
      <4>3. open = FALSE \/ open = db[c].open
        BY <4>1
      <4> QED
        BY <4>2, <4>3
    <3> QED
      BY <1>9, <3>1, <3>2
  <2>3. FlagToCome' /\ PendingCoversTransaction'
    BY <2>1, <2>2 DEF FlagToCome, FlagToComeOf, PendingCoversTransaction, Busy
  <2> QED
    BY <2>3
<1> QED
  BY <1>5, <1>6, <1>7, <1>8, <1>9 DEF Transact

\* Every step keeps the invariant.
LEMMA TransactionStep ==
  ASSUME ~SetMayFail, PlainTexts, TypeOK, TransactionInv, FlagsApart, FlagsApart',
         [Next]_vars
  PROVE  TransactionInv'
<1>1. CASE \E c \in Conns : Handle(c) \/ SetAttribute(c) \/ ExecuteFails(c)
                            \/ EndTranThrows(c)
  BY <1>1, TransactionHandle, TransactionSetAttribute
<1>2. CASE \E t \in Threads, c \in Conns : Transact(t, c)
  BY <1>2, TransactionTransact
<1>3. ASSUME NEW t \in Threads, EndTranEnv(t) \/ EndTranEnvReturns(t)
      PROVE  TransactionInv'
  <2>1. /\ UNCHANGED <<conn, db, dm>>
        /\ pc[t] \in {Outside, In("SQLEndTranEnv", {})}
        /\ pc'[t] \in {Outside, In("SQLEndTranEnv", {})}
    BY <1>3 DEF EndTranEnv, EndTranEnvReturns, TypeOK
  <2>2. \A s \in Threads \ {t} : pc'[s] = pc[s]
    BY <1>3 DEF EndTranEnv, EndTranEnvReturns, TypeOK
  <2>3. pc[t].flag = {} /\ pc'[t].flag = {}
    BY <2>1 DEF In, Outside
  <2>4. FlagToCome'
    <3>1. \A d \in Conns : FlagToComeOf(t, d)'
      BY <2>1, PlacesDiffer DEF FlagToComeOf, Calls
    <3>2. \A s \in Threads \ {t}, d \in Conns : FlagToComeOf(s, d)'
      BY <2>1, <2>2 DEF TransactionInv, FlagToCome, FlagToComeOf
    <3> QED
      BY <3>1, <3>2 DEF FlagToCome
  <2> QED
    BY <2>1, <2>2, <2>3, <2>4 DEF TransactionInv, ModeMirrored, PendingCoversTransaction, Busy
<1>4. CASE UNCHANGED vars
  BY <1>4 DEF vars, TransactionInv, ModeMirrored, FlagToCome, FlagToComeOf,
              PendingCoversTransaction, Busy
<1> QED
  BY <1>1, <1>2, <1>3, <1>4 DEF Next

\* A session the driver has lost its pointer to had no work left.
WorkInSession == \A c \in Conns : ~conn[c].connection => ~db[c].open

\* The life of a handle closes no session that holds work.
LEMMA WorkInSessionHandle ==
  ASSUME TypeOK, TransactionInv, NoUseOfClosedSession, WorkInSession, NEW c \in Conns, Handle(c)
  PROVE  WorkInSession'
<1>1. /\ Quiet(c)
      /\ \A d \in Conns \ {c} : conn'[d] = conn[d] /\ db'[d] = db[d]
  BY DEF Handle, AllocConnection, Connect, ConnectFails, DisconnectRefused, Disconnect,
         DisconnectThrows, FreeConnection, AllocStatement, FreeStatement, TypeOK
<1>2. SUFFICES ~conn'[c].connection => ~db'[c].open
  BY <1>1 DEF WorkInSession
<1>3. /\ ~conn[c].connection => ~db[c].open
      /\ dm[c] = "connected" <=> conn[c].connection
      /\ conn[c].connection /\ db[c].open => conn[c].transactionPending
  BY <1>1 DEF WorkInSession, NoUseOfClosedSession, TransactionInv, ModeMirrored,
              PendingCoversTransaction, Quiet
<1>4. CASE AllocConnection(c)
  BY <1>3, <1>4 DEF AllocConnection, TypeOK
<1>5. CASE Connect(c)
  BY <1>5 DEF Connect, NewSession, NoSession, TypeOK
<1>6. CASE ConnectFails(c)
  BY <1>3, <1>6 DEF ConnectFails
<1>7. CASE DisconnectRefused(c)
  BY <1>3, <1>7 DEF DisconnectRefused
<1>8. CASE Disconnect(c)
  BY <1>8 DEF Disconnect, NoSession, TypeOK
<1>9. ASSUME NEW atCommit \in BOOLEAN, DisconnectThrows(c, atCommit)
      PROVE  ~db'[c].open
  <2>1. ~db[c].open
    BY <1>3, <1>9 DEF DisconnectThrows
  <2>2. db' = [db EXCEPT ![c].open = @ /\ atCommit]
    BY <1>9 DEF DisconnectThrows
  <2> QED
    BY <2>1, <2>2 DEF TypeOK, Sessions
<1>10. CASE FreeConnection(c)
  BY <1>10 DEF FreeConnection, NoSession, TypeOK
<1>11. CASE AllocStatement(c) \/ FreeStatement(c)
  BY <1>3, <1>11 DEF AllocStatement, FreeStatement, TypeOK, Connections
<1> QED
  BY <1>4, <1>5, <1>6, <1>7, <1>8, <1>9, <1>10, <1>11 DEF Handle

\* Outside of an execution, work is only ended.
LEMMA TransactEnds ==
  ASSUME TypeOK, NEW t \in Threads, NEW c \in Conns, Transact(t, c)
  PROVE  \/ \E text \in Texts : ExecuteInDatabase(t, c, text)
         \/ /\ \A d \in Conns : db'[d].open => db[d].open
            /\ \A d \in Conns \ {c} : db'[d] = db[d]
<1>1. CASE EndTranInDatabase(t, c) \/ EnvVisitInDatabase(t, c)
  BY <1>1 DEF EndTranInDatabase, EnvVisitInDatabase, TypeOK, Sessions
<1>2. CASE EnvVisitThrows(t, c)
  <2>1. PICK open \in {FALSE, db[c].open} : db' = [db EXCEPT ![c].open = open]
    BY <1>2 DEF EnvVisitThrows, WorkMayBeGone
  <2>2. db'[c].open = open /\ \A d \in Conns \ {c} : db'[d] = db[d]
    BY <2>1 DEF TypeOK, Sessions
  <2>3. open = FALSE \/ open = db[c].open
    BY <2>1
  <2> QED
    BY <2>2, <2>3
<1>3. CASE db' = db
  BY <1>3
<1> QED
  BY <1>1, <1>2, <1>3 DEF Transact, transactionStarted, EndTranReturns, EnvVisitReturns,
     EnvVisitSkips

\* Work is done in open sessions only.
LEMMA WorkInSessionStep ==
  ASSUME TypeOK, TransactionInv, NoUseOfClosedSession, WorkInSession, [Next]_vars
  PROVE  WorkInSession'
<1>1. ASSUME NEW c \in Conns, SetAttribute(c) \/ ExecuteFails(c) \/ EndTranThrows(c)
      PROVE  WorkInSession'
  BY <1>1, SetAttributeFrame DEF WorkInSession
<1>2. ASSUME NEW t \in Threads, NEW c \in Conns, Transact(t, c)
      PROVE  WorkInSession'
  <2>1. \A d \in Conns : conn'[d].connection = conn[d].connection
    BY <1>2, TransactFrame
  <2>2. ASSUME NEW text \in Texts, ExecuteInDatabase(t, c, text)
        PROVE  conn[c].connection /\ \A d \in Conns \ {c} : db'[d] = db[d]
    BY <2>2 DEF ExecuteInDatabase, NoUseOfClosedSession, TypeOK
  <2>3. \/ conn[c].connection /\ \A d \in Conns \ {c} : db'[d] = db[d]
        \/ \A d \in Conns : db'[d].open => db[d].open
    BY <1>2, <2>2, TransactEnds
  <2> QED
    BY <2>1, <2>3 DEF WorkInSession
<1>3. ASSUME NEW t \in Threads, EndTranEnv(t) \/ EndTranEnvReturns(t)
      PROVE  WorkInSession'
  BY <1>3 DEF EndTranEnv, EndTranEnvReturns, WorkInSession
<1>4. CASE UNCHANGED vars
  BY <1>4 DEF vars, WorkInSession
<1> QED
  BY <1>1, <1>2, <1>3, <1>4, WorkInSessionHandle DEF Next

\* What holds of transactions and sessions together.
LEMMA SessionsCorrect ==
  ASSUME ~SetMayFail, PlainTexts
  PROVE  Spec /\ []FlagsApart => [](TransactionInv /\ NoUseOfClosedSession /\ WorkInSession)
<1>1. Init => WorkInSession
  BY DEF Init, WorkInSession, NoObject, NoSession
<1>2. TypeOK /\ TransactionInv /\ FlagsApart /\ FlagsApart' /\ [Next]_vars => TransactionInv'
  BY TransactionStep
<1>3. TypeOK /\ TransactionInv /\ NoUseOfClosedSession /\ WorkInSession /\ [Next]_vars
        => WorkInSession'
  BY WorkInSessionStep
<1> QED
  BY <1>1, <1>2, <1>3, TransactionInit, TypeCorrect, NoUseOfClosedSessionCorrect, PTL DEF Spec

\* The driver knows of every open transaction.
THEOREM PendingCoversTransactionCorrect ==
  ASSUME ~SetMayFail, PlainTexts
  PROVE  Spec /\ []FlagsApart => []PendingCoversTransaction
<1>1. TransactionInv => PendingCoversTransaction
  BY DEF TransactionInv
<1> QED
  BY <1>1, SessionsCorrect, PTL

\* What a call must return for OpenTransactionRefused to hold.
LEMMA RefusedByCode ==
  ASSUME NEW c \in Conns, NEW call, NEW code, Returns(call, c, code),
         \/ call \notin {"SQLDisconnect", "SetIsolation"}
         \/ code = "SQL_ERROR"
         \/ ~db[c].open
  PROVE  OpenTransactionRefused'
<1>1. ret'.call = call /\ ret'.code = code /\ ret'.hadWork = db[c].open
  OBVIOUS
<1> QED
  BY <1>1 DEF OpenTransactionRefused

\* SQLDisconnect and a change of isolation succeed only without open work.
THEOREM OpenTransactionRefusedCorrect ==
  ASSUME ~SetMayFail, PlainTexts
  PROVE  Spec /\ []FlagsApart => []OpenTransactionRefused
<1>1. Init => OpenTransactionRefused
  BY DEF Init, OpenTransactionRefused
<1>2. ASSUME TypeOK, PendingCoversTransaction, NoUseOfClosedSession,
             OpenTransactionRefused, [Next]_vars
      PROVE  OpenTransactionRefused'
  <2>1. ASSUME NEW c \in Conns, dm[c] = "connected", Quiet(c), ~conn[c].transactionPending
        PROVE  ~db[c].open
    BY <1>2, <2>1 DEF PendingCoversTransaction, NoUseOfClosedSession, Quiet
  <2>2. ASSUME NEW c \in Conns, Handle(c)
        PROVE  OpenTransactionRefused'
    <3>1. CASE Disconnect(c)
      <4>1. ~db[c].open
        BY <2>1, <3>1 DEF Disconnect
      <4> QED
        BY <3>1, <4>1, RefusedByCode DEF Disconnect
    <3>2. ASSUME NEW atCommit \in BOOLEAN, DisconnectThrows(c, atCommit)
          PROVE  OpenTransactionRefused'
      <4>1. ~db[c].open
        BY <2>1, <3>2 DEF DisconnectThrows
      <4> QED
        BY <3>2, <4>1, RefusedByCode DEF DisconnectThrows
    <3>3. CASE AllocConnection(c) \/ FreeConnection(c) \/ AllocStatement(c) \/ FreeStatement(c)
      BY <3>3, RefusedByCode
      DEF AllocConnection, FreeConnection, AllocStatement, FreeStatement
    <3>4. CASE Connect(c) \/ ConnectFails(c) \/ DisconnectRefused(c)
      BY <3>4, RefusedByCode DEF Connect, ConnectFails, DisconnectRefused
    <3> QED
      BY <2>2, <3>1, <3>2, <3>3, <3>4 DEF Handle
  <2>3. ASSUME NEW c \in Conns, SetAttribute(c) \/ ExecuteFails(c) \/ EndTranThrows(c)
        PROVE  OpenTransactionRefused'
    <3>1. CASE SetIsolation(c)
      BY <2>1, <3>1, RefusedByCode DEF SetIsolation
    <3>2. CASE ExecuteFails(c) \/ EndTranThrows(c)
      BY <3>2, RefusedByCode DEF ExecuteFails, EndTranThrows
    <3>3. ASSUME NEW on \in BOOLEAN, SetAutoCommit(c, on) \/ SetAutoCommitThrows(c, on)
          PROVE  OpenTransactionRefused'
      BY <3>3, RefusedByCode DEF SetAutoCommit, SetAutoCommitThrows
    <3> QED
      BY <2>3, <3>1, <3>2, <3>3 DEF SetAttribute
  <2>4. ASSUME NEW t \in Threads, NEW c \in Conns, Transact(t, c)
        PROVE  OpenTransactionRefused'
    <3>1. CASE transactionStarted(t, c) \/ EndTranReturns(t, c)
      BY <3>1, RefusedByCode DEF transactionStarted, EndTranReturns
    <3>2. CASE UNCHANGED ret
      BY <1>2, <3>2 DEF OpenTransactionRefused
    <3> QED
      BY <2>4, <3>1, <3>2 DEF Transact, ExecuteInDatabase, EndTranInDatabase,
         EnvVisitInDatabase, EnvVisitReturns, EnvVisitThrows, EnvVisitSkips
  <2>5. ASSUME NEW t \in Threads, EndTranEnv(t) \/ EndTranEnvReturns(t)
        PROVE  OpenTransactionRefused'
    <3>1. CASE EndTranEnv(t)
      BY <1>2, <3>1 DEF EndTranEnv, OpenTransactionRefused
    <3>2. CASE EndTranEnvReturns(t)
      <4>1. ret'.call = "SQLEndTranEnv"
        BY <3>2 DEF EndTranEnvReturns
      <4> QED
        BY <4>1 DEF OpenTransactionRefused
    <3> QED
      BY <2>5, <3>1, <3>2
  <2>6. CASE UNCHANGED vars
    BY <1>2, <2>6 DEF vars, OpenTransactionRefused
  <2> QED
    BY <1>2, <2>2, <2>3, <2>4, <2>5, <2>6 DEF Next
<1> QED
  BY <1>1, <1>2, TypeCorrect, PendingCoversTransactionCorrect,
     NoUseOfClosedSessionCorrect, PTL DEF Spec

-----------------------------------------------------------------------------
(***************************************************************************)
(* SQLEndTran on the environment, under the same conditions.               *)
(***************************************************************************)
\* The loop comes by every session that holds work: a session belongs to a connection in
\* the list.
SessionListed ==
  \A c \in Conns : dm[c] \in {"allocated", "connected"} => conn[c].exists /\ conn[c].env

\* Work that is still open is ahead of the loop, or was left behind by a failure.
WorkToEnd ==
  InEndEnv => endEnv.failed \/ \A c \in Conns : db[c].open => c \in endEnv.todo

EndEnvInv == SessionListed /\ WorkToEnd /\ EnvEndTranEndsAll

\* A call on a connection that returns says nothing of the environment.
LEMMA EndEnvByCall ==
  ASSUME NEW c \in Conns, NEW call, NEW code, Returns(call, c, code), call # "SQLEndTranEnv"
  PROVE  EnvEndTranEndsAll'
BY DEF EnvEndTranEndsAll

\* The life of a handle goes on outside the loop, and closes no session that holds work.
LEMMA EndEnvHandle ==
  ASSUME TypeOK, EndEnvInv, NEW c \in Conns, Handle(c)
  PROVE  EndEnvInv'
<1>1. /\ Quiet(c)
      /\ UNCHANGED pc
      /\ \A d \in Conns \ {c} : conn'[d] = conn[d] /\ db'[d] = db[d] /\ dm'[d] = dm[d]
  BY DEF Handle, AllocConnection, Connect, ConnectFails, DisconnectRefused, Disconnect,
         DisconnectThrows, FreeConnection, AllocStatement, FreeStatement, TypeOK
<1>2. WorkToEnd'
  BY <1>1 DEF WorkToEnd, Quiet, InEndEnv
<1>3. EnvEndTranEndsAll'
  BY EndEnvByCall DEF Handle, AllocConnection, Connect, ConnectFails, DisconnectRefused,
     Disconnect, DisconnectThrows, FreeConnection, AllocStatement, FreeStatement
<1>4. SUFFICES dm'[c] \in {"allocated", "connected"} => conn'[c].exists /\ conn'[c].env
  BY <1>1, <1>2, <1>3, <1>4 DEF EndEnvInv, SessionListed
<1>5. dm[c] \in {"allocated", "connected"} => conn[c].exists /\ conn[c].env
  BY DEF EndEnvInv, SessionListed
<1>6. CASE AllocConnection(c)
  BY <1>6 DEF AllocConnection, NewConnection, NoObject, TypeOK
<1>7. CASE Connect(c) \/ ConnectFails(c)
  BY <1>5, <1>7 DEF Connect, ConnectFails, TypeOK, Connections
<1>8. CASE DisconnectRefused(c)
  BY <1>5, <1>8 DEF DisconnectRefused
<1>9. CASE Disconnect(c) \/ \E atCommit \in BOOLEAN : DisconnectThrows(c, atCommit)
  BY <1>9 DEF Disconnect, DisconnectThrows, TypeOK
<1>10. CASE FreeConnection(c)
  BY <1>10 DEF FreeConnection, TypeOK
<1>11. CASE AllocStatement(c) \/ FreeStatement(c)
  BY <1>5, <1>11 DEF AllocStatement, FreeStatement, TypeOK, Connections
<1> QED
  BY <1>6, <1>7, <1>8, <1>9, <1>10, <1>11 DEF Handle

\* Attributes and failures open no work.
LEMMA EndEnvSetAttribute ==
  ASSUME TypeOK, EndEnvInv, NEW c \in Conns,
         SetAttribute(c) \/ ExecuteFails(c) \/ EndTranThrows(c)
  PROVE  EndEnvInv'
<1>1. /\ UNCHANGED <<connections, dm, pc, endEnv>>
      /\ \A d \in Conns :
           /\ conn'[d].exists = conn[d].exists
           /\ conn'[d].env = conn[d].env
           /\ conn'[d].connection = conn[d].connection
           /\ db'[d].open => db[d].open
  BY SetAttributeFrame
<1>2. EnvEndTranEndsAll'
  BY EndEnvByCall DEF SetAttribute, SetAutoCommit, SetAutoCommitThrows, SetIsolation,
     ExecuteFails, EndTranThrows
<1>3. SessionListed' /\ WorkToEnd'
  BY <1>1 DEF EndEnvInv, SessionListed, WorkToEnd, InEndEnv
<1> QED
  BY <1>2, <1>3 DEF EndEnvInv

\* Nothing is executed while the loop is on its way.
LEMMA EndEnvTransact ==
  ASSUME TypeOK, TransactionInv, WorkInSession, EnvAlone', EndEnvInv,
         NEW t \in Threads, NEW c \in Conns, Transact(t, c)
  PROVE  EndEnvInv'
<1>1. dm' = dm /\ \A d \in Conns : conn'[d].exists = conn[d].exists /\ conn'[d].env = conn[d].env
  BY DEF Transact, ExecuteInDatabase, transactionStarted, EndTranInDatabase,
         EndTranReturns, EnvVisitInDatabase, EnvVisitReturns, EnvVisitThrows,
         EnvVisitSkips, TypeOK, Connections
<1>2. EnvEndTranEndsAll'
  <2>1. ret' = ret \/ ret'.call \in {"SQLExecute", "SQLEndTran"}
    BY DEF Transact, ExecuteInDatabase, transactionStarted, EndTranInDatabase,
           EndTranReturns, EnvVisitInDatabase, EnvVisitReturns, EnvVisitThrows, EnvVisitSkips
  <2> QED
    BY <2>1 DEF EndEnvInv, EnvEndTranEndsAll
<1>3. \A s \in Threads \ {t} : pc'[s] = pc[s]
  BY TransactPlaces
<1>4. SessionListed'
  BY <1>1 DEF EndEnvInv, SessionListed
<1>5. ASSUME pc'[t].call # "SQLEndTranEnv", endEnv' = endEnv,
             \A d \in Conns : db'[d].open => db[d].open
      PROVE  WorkToEnd'
  <2>1. InEndEnv' => InEndEnv
    BY <1>3, <1>5 DEF InEndEnv
  <2> QED
    BY <1>5, <2>1 DEF EndEnvInv, WorkToEnd
<1>6. pc[t].call = "SQLEndTranEnv" =>
        endEnv.failed \/ \A d \in Conns : db[d].open => d \in endEnv.todo
  BY DEF EndEnvInv, WorkToEnd, InEndEnv
<1>7. SUFFICES WorkToEnd'
  BY <1>2, <1>4 DEF EndEnvInv
<1>8. ASSUME NEW text \in Texts, ExecuteInDatabase(t, c, text)
      PROVE  WorkToEnd'
  <2>1. pc'[t].call = "SQLExecute"
    BY <1>8 DEF ExecuteInDatabase, In, TypeOK
  <2> QED
    BY <2>1 DEF EnvAlone, WorkToEnd
<1>9. CASE transactionStarted(t, c) \/ EndTranReturns(t, c)
  <2>1. db' = db /\ endEnv' = endEnv /\ pc'[t].call # "SQLEndTranEnv"
    BY <1>9 DEF transactionStarted, EndTranReturns, Outside, TypeOK
  <2> QED
    BY <1>5, <2>1
<1>10. CASE EndTranInDatabase(t, c)
  <2>1. /\ \A d \in Conns : db'[d].open => db[d].open
        /\ endEnv' = endEnv /\ pc'[t].call # "SQLEndTranEnv"
    BY <1>10 DEF EndTranInDatabase, In, TypeOK, Sessions
  <2> QED
    BY <1>5, <2>1
<1>11. CASE EnvVisitInDatabase(t, c)
  <2>1. /\ \A d \in Conns : db'[d].open => db[d].open
        /\ pc[t].call = "SQLEndTranEnv" /\ endEnv' = endEnv
    BY <1>11 DEF EnvVisitInDatabase, Visits, In, TypeOK, Sessions
  <2> QED
    BY <1>6, <2>1 DEF WorkToEnd
<1>12. CASE EnvVisitReturns(t, c)
  <2>1. /\ db' = db /\ pc[t] = In("SQLEndTranEnv", {c}) /\ pc[t].call = "SQLEndTranEnv"
        /\ endEnv'.todo = endEnv.todo \ {c} /\ endEnv'.failed = endEnv.failed
    BY <1>12 DEF EnvVisitReturns, visited, In, TypeOK, EndEnvLoops
  <2>2. ~db[c].open
    BY <2>1 DEF TransactionInv, FlagToCome, FlagToComeOf
  <2> QED
    BY <1>6, <2>1, <2>2 DEF WorkToEnd
<1>13. CASE EnvVisitThrows(t, c)
  <2>1. endEnv'.failed
    BY <1>13 DEF EnvVisitThrows, visitFailed, visited, TypeOK, EndEnvLoops
  <2>2. \A d \in Conns : db'[d].open => db[d].open
    <3>1. PICK open \in {FALSE, db[c].open} : db' = [db EXCEPT ![c].open = open]
      BY <1>13 DEF EnvVisitThrows, WorkMayBeGone
    <3>2. db'[c].open = open /\ \A d \in Conns \ {c} : db'[d] = db[d]
      BY <3>1 DEF TypeOK, Sessions
    <3>3. open = FALSE \/ open = db[c].open
      BY <3>1
    <3> QED
      BY <3>2, <3>3
  <2> QED
    BY <2>1, <2>2 DEF WorkToEnd
<1>14. CASE EnvVisitSkips(t, c)
  <2>1. /\ db' = db /\ pc[t].call = "SQLEndTranEnv" /\ ~conn[c].connection
        /\ endEnv'.todo = endEnv.todo \ {c} /\ endEnv'.failed = endEnv.failed
    BY <1>14 DEF EnvVisitSkips, Visits, visited, In, TypeOK, EndEnvLoops
  <2>2. ~db[c].open
    BY <2>1 DEF WorkInSession
  <2> QED
    BY <1>6, <2>1, <2>2 DEF WorkToEnd
<1> QED
  BY <1>8, <1>9, <1>10, <1>11, <1>12, <1>13, <1>14 DEF Transact

\* The loop begins with the whole list, and succeeds when nothing is ahead of it.
LEMMA EndEnvLoop ==
  ASSUME TypeOK, EnvListExact, TransactionInv, WorkInSession, EndEnvInv,
         NEW t \in Threads, EndTranEnv(t) \/ EndTranEnvReturns(t)
  PROVE  EndEnvInv'
<1>1. UNCHANGED <<conn, db, dm>>
  BY DEF EndTranEnv, EndTranEnvReturns
<1>2. SessionListed'
  BY <1>1 DEF EndEnvInv, SessionListed
<1>3. CASE EndTranEnv(t)
  <2>1. \A c \in Conns : db[c].open => c \in connections
    BY DEF EndEnvInv, SessionListed, EnvListExact, TransactionInv, ModeMirrored, WorkInSession
  <2>2. WorkToEnd' /\ EnvEndTranEndsAll'
    BY <1>1, <1>3, <2>1 DEF EndTranEnv, WorkToEnd, EndEnvInv, EnvEndTranEndsAll
  <2> QED
    BY <1>2, <2>2 DEF EndEnvInv
<1>4. CASE EndTranEnvReturns(t)
  <2>1. InEndEnv /\ endEnv.todo = {} /\ endEnv' = endEnv
    BY <1>4 DEF EndTranEnvReturns, InEndEnv, In
  <2>2. endEnv.failed \/ \A c \in Conns : ~db[c].open
    BY <2>1 DEF EndEnvInv, WorkToEnd
  <2>3. WorkToEnd'
    BY <1>1, <2>1, <2>2 DEF WorkToEnd
  <2>4. /\ ret'.code = (IF endEnv.failed THEN "SQL_ERROR" ELSE "SQL_SUCCESS")
        /\ ret'.hadWork = \E c \in Conns : db[c].open
    BY <1>4 DEF EndTranEnvReturns
  <2>5. EnvEndTranEndsAll'
    BY <2>2, <2>4 DEF EnvEndTranEndsAll
  <2> QED
    BY <1>2, <2>3, <2>5 DEF EndEnvInv
<1> QED
  BY <1>3, <1>4

\* SQLEndTran on the environment succeeds only when no connection holds open work any
\* more, however many there are and whichever of them had failed before.
THEOREM EnvEndTranEndsAllCorrect ==
  ASSUME ~SetMayFail, PlainTexts
  PROVE  Spec /\ []FlagsApart /\ []EnvAlone => []EnvEndTranEndsAll
<1>1. Init => EndEnvInv
  BY DEF Init, EndEnvInv, SessionListed, WorkToEnd, EnvEndTranEndsAll, InEndEnv, NoSession,
         NoObject, Outside
<1>2. TypeOK /\ EnvListExact /\ TransactionInv /\ WorkInSession /\ EndEnvInv
        /\ EnvAlone' /\ [Next]_vars => EndEnvInv'
  <2> SUFFICES ASSUME TypeOK, EnvListExact, TransactionInv, WorkInSession, EndEnvInv,
                      EnvAlone', [Next]_vars
               PROVE  EndEnvInv'
    OBVIOUS
  <2>1. CASE \E c \in Conns : Handle(c) \/ SetAttribute(c) \/ ExecuteFails(c)
                              \/ EndTranThrows(c)
    BY <2>1, EndEnvHandle, EndEnvSetAttribute
  <2>2. CASE \E t \in Threads, c \in Conns : Transact(t, c)
    BY <2>2, EndEnvTransact
  <2>3. CASE \E t \in Threads : EndTranEnv(t) \/ EndTranEnvReturns(t)
    BY <2>3, EndEnvLoop
  <2>4. CASE UNCHANGED vars
    BY <2>4 DEF vars, EndEnvInv, SessionListed, WorkToEnd, InEndEnv, EnvEndTranEndsAll
  <2> QED
    BY <2>1, <2>2, <2>3, <2>4 DEF Next
<1>3. EndEnvInv => EnvEndTranEndsAll
  BY DEF EndEnvInv
<1> QED
  BY <1>1, <1>2, <1>3, SessionsCorrect, TypeCorrect, EnvListCorrect, PTL DEF Spec

-----------------------------------------------------------------------------
(***************************************************************************)
(* Transactions: the abstract specification, under the conditions of the   *)
(* flag.                                                                   *)
(***************************************************************************)
\* What the abstract specification sees of a connection before and after a step.
SessionStays(c) == conn[c].connection /\ conn'[c].connection
ModeStays(c) == conn'[c].autoCommit <=> conn[c].autoCommit
WorkStays(c) == db'[c].open <=> db[c].open
Untouched(c) ==
  /\ conn'[c].connection <=> conn[c].connection
  /\ conn[c].connection => ModeStays(c)
  /\ WorkStays(c)

\* A step that touches one connection, as the abstract specification allows it.
Allowed(c) ==
  \/ Untouched(c)
  \/ /\ ~conn[c].connection /\ conn'[c].connection /\ conn'[c].autoCommit
     /\ WorkStays(c)
  \/ SessionStays(c) /\ (db'[c].open => db[c].open)
  \/ SessionStays(c) /\ ModeStays(c) /\ ~conn[c].autoCommit
  \/ /\ conn[c].connection /\ ~conn'[c].connection
     /\ ~db[c].open /\ ~db'[c].open

\* Such a step is one of the abstract specification.
LEMMA AllowedStep ==
  ASSUME TypeOK, TypeOK', NEW c \in Conns, Allowed(c),
         \A d \in Conns \ {c} : Untouched(d)
  PROVE  [Promised!Next]_(Promised!vars)
<1> DEFINE S == {d \in Conns : conn[d].connection}
           M == {d \in Conns : conn[d].connection /\ ~conn[d].autoCommit}
           W == {d \in Conns : db[d].open}
<1>1. /\ \A d \in Conns \ {c} : /\ d \in S' <=> d \in S
                                /\ d \in M' <=> d \in M
                                /\ d \in W' <=> d \in W
      /\ S \subseteq Conns /\ S' \subseteq Conns /\ M \subseteq Conns /\ M' \subseteq Conns
      /\ W \subseteq Conns /\ W' \subseteq Conns
  BY DEF Untouched, ModeStays, WorkStays
<1>2. /\ c \in S <=> conn[c].connection
      /\ c \in M <=> conn[c].connection /\ ~conn[c].autoCommit
      /\ c \in W <=> db[c].open
      /\ c \in S' <=> conn'[c].connection
      /\ c \in M' <=> conn'[c].connection /\ ~conn'[c].autoCommit
      /\ c \in W' <=> db'[c].open
  OBVIOUS
<1> HIDE DEF S, M, W
<1>3. CASE Untouched(c)
  <2>1. /\ c \in S' <=> c \in S
        /\ c \in M' <=> c \in M
        /\ c \in W' <=> c \in W
    BY <1>2, <1>3 DEF Untouched, ModeStays, WorkStays
  <2>2. S' = S /\ M' = M /\ W' = W
    BY <1>1, <2>1
  <2> QED
    BY <2>2 DEF S, M, W, Promised!vars
<1>4. CASE /\ ~conn[c].connection /\ conn'[c].connection /\ conn'[c].autoCommit
           /\ WorkStays(c)
  <2>1. c \notin S /\ S' = S \cup {c} /\ M' = M /\ W' = W
    BY <1>1, <1>2, <1>4 DEF WorkStays
  <2> QED
    BY <2>1 DEF S, M, W, Promised!Next, Promised!Open
<1>5. CASE SessionStays(c) /\ (db'[c].open => db[c].open)
  <2>1. /\ c \in S /\ S' = S
        /\ M' \in {M \cup {c}, M \ {c}}
        /\ W' \in {W, W \ {c}}
    BY <1>1, <1>2, <1>5 DEF SessionStays
  <2> QED
    BY <2>1 DEF S, M, W, Promised!Next, Promised!Switch
<1>6. CASE SessionStays(c) /\ ModeStays(c) /\ ~conn[c].autoCommit
  <2>1. c \in M /\ c \in S /\ S' = S /\ M' = M /\ W' \in {W \cup {c}, W \ {c}}
    BY <1>1, <1>2, <1>6 DEF SessionStays, ModeStays
  <2> QED
    BY <2>1 DEF S, M, W, Promised!Next, Promised!Begin, Promised!End
<1>7. CASE /\ conn[c].connection /\ ~conn'[c].connection
           /\ ~db[c].open /\ ~db'[c].open
  <2>1. c \in S \ W /\ S' = S \ {c} /\ M' = M \ {c} /\ W' = W
    BY <1>1, <1>2, <1>7
  <2> QED
    BY <2>1 DEF S, M, W, Promised!Next, Promised!Close
<1> QED
  BY <1>3, <1>4, <1>5, <1>6, <1>7 DEF Allowed

\* The life of a handle: a session opens in autocommit mode, and closes without work.
LEMMA HandleAllowed ==
  ASSUME TypeOK, TransactionInv, NoUseOfClosedSession, WorkInSession, WorkInSession',
         NEW c \in Conns, Handle(c)
  PROVE  Allowed(c) /\ \A d \in Conns \ {c} : Untouched(d)
<1>1. /\ Quiet(c)
      /\ \A d \in Conns \ {c} : conn'[d] = conn[d] /\ db'[d] = db[d]
  BY DEF Handle, AllocConnection, Connect, ConnectFails, DisconnectRefused, Disconnect,
         DisconnectThrows, FreeConnection, AllocStatement, FreeStatement, TypeOK
<1>2. SUFFICES Allowed(c)
  BY <1>1 DEF Untouched, ModeStays, WorkStays
<1>3. /\ ~conn[c].connection => ~db[c].open
      /\ ~conn'[c].connection => ~db'[c].open
      /\ dm[c] = "connected" <=> conn[c].connection
      /\ dm[c] = "allocated" => conn[c].autoCommit
      /\ conn[c].connection /\ db[c].open => conn[c].transactionPending
  BY <1>1 DEF WorkInSession, NoUseOfClosedSession, TransactionInv, ModeMirrored,
              PendingCoversTransaction, Quiet
<1>4. ASSUME ~conn[c].connection, ~conn'[c].connection
      PROVE  Allowed(c)
  <2>1. Untouched(c)
    BY <1>3, <1>4 DEF Untouched, WorkStays
  <2> QED
    BY <2>1 DEF Allowed
<1>5. CASE AllocConnection(c) \/ FreeConnection(c) \/ ConnectFails(c)
  <2>1. dm[c] # "connected"
    BY <1>5 DEF AllocConnection, FreeConnection, ConnectFails
  <2>2. ~conn'[c].connection
    <3>1. CASE AllocConnection(c)
      BY <3>1 DEF AllocConnection, NewConnection, NoObject, TypeOK
    <3>2. CASE FreeConnection(c)
      BY <3>2 DEF FreeConnection, NoObject, TypeOK
    <3>3. CASE ConnectFails(c)
      BY <3>3 DEF ConnectFails, TypeOK, Connections
    <3> QED
      BY <1>5, <3>1, <3>2, <3>3
  <2> QED
    BY <1>3, <1>4, <2>1, <2>2
<1>6. CASE Connect(c)
  BY <1>3, <1>6 DEF Connect, NewSession, NoSession, TypeOK, Connections, Allowed, WorkStays
<1>7. CASE DisconnectRefused(c)
  BY <1>7 DEF DisconnectRefused, Allowed, Untouched, ModeStays, WorkStays
<1>8. CASE Disconnect(c) \/ \E atCommit \in BOOLEAN : DisconnectThrows(c, atCommit)
  <2>1. conn[c].connection /\ ~db[c].open
    BY <1>3, <1>8 DEF Disconnect, DisconnectThrows
  <2>2. ~conn'[c].connection
    <3>1. CASE Disconnect(c)
      BY <3>1 DEF Disconnect, closed, TypeOK, Connections
    <3>2. ASSUME NEW atCommit \in BOOLEAN, DisconnectThrows(c, atCommit)
          PROVE  ~conn'[c].connection
      BY <3>2 DEF DisconnectThrows, closed, TypeOK, Connections
    <3> QED
      BY <1>8, <3>1, <3>2
  <2>3. ~db'[c].open
    BY <1>3, <2>2
  <2> QED
    BY <2>1, <2>2, <2>3 DEF Allowed
<1>9. CASE AllocStatement(c) \/ FreeStatement(c)
  BY <1>9 DEF AllocStatement, FreeStatement, TypeOK, Connections, Allowed, Untouched,
              ModeStays, WorkStays
<1> QED
  BY <1>5, <1>6, <1>7, <1>8, <1>9 DEF Handle

\* Attributes switch modes, and end work at most.
LEMMA SetAttributeAllowed ==
  ASSUME TypeOK, ~SetMayFail, TransactionInv, NoUseOfClosedSession, NEW c \in Conns,
         SetAttribute(c) \/ ExecuteFails(c) \/ EndTranThrows(c)
  PROVE  Allowed(c) /\ \A d \in Conns \ {c} : Untouched(d)
<1>1. \A d \in Conns : /\ conn'[d].connection = conn[d].connection
                       /\ db'[d].open => db[d].open
  BY SetAttributeFrame
<1>2. \A d \in Conns \ {c} : conn'[d] = conn[d] /\ db'[d] = db[d]
  BY DEF SetAttribute, SetAutoCommit, SetAutoCommitThrows, SetIsolation, ExecuteFails,
         EndTranThrows, WorkMayBeGone, TypeOK
<1>3. SUFFICES Allowed(c)
  BY <1>2 DEF Untouched, ModeStays, WorkStays
<1>4. conn[c].connection
  BY DEF SetAttribute, SetAutoCommit, SetAutoCommitThrows, SetIsolation, ExecuteFails,
         EndTranThrows, NoUseOfClosedSession
<1> QED
  BY <1>1, <1>4 DEF Allowed, SessionStays

\* Executing opens work in manual mode only, and everything else ends some.
LEMMA TransactAllowed ==
  ASSUME TypeOK, PlainTexts, TransactionInv, NoUseOfClosedSession, WorkInSession,
         NEW t \in Threads, NEW c \in Conns, Transact(t, c)
  PROVE  Allowed(c) /\ \A d \in Conns \ {c} : Untouched(d)
<1>1. \A d \in Conns : /\ conn'[d].connection = conn[d].connection
                       /\ conn'[d].autoCommit = conn[d].autoCommit
  BY TransactFrame
<1>2. ASSUME NEW text \in Texts, ExecuteInDatabase(t, c, text)
      PROVE  Allowed(c) /\ \A d \in Conns \ {c} : Untouched(d)
  <2>1. conn[c].connection /\ conn[c].autoCommit = db[c].autoCommit
    BY <1>2 DEF ExecuteInDatabase, NoUseOfClosedSession, TransactionInv, ModeMirrored
  <2>2. /\ db'[c].open = openAfter(db[c], text)
        /\ \A d \in Conns \ {c} : db'[d] = db[d]
    BY <1>2 DEF ExecuteInDatabase, TypeOK, Sessions
  <2>3. text \in {"work", "commit"}
    BY TextsAssumption DEF PlainTexts
  <2>4. db'[c].open => ~conn[c].autoCommit
    BY <2>1, <2>2, <2>3 DEF openAfter
  <2>5. Allowed(c)
    BY <1>1, <2>1, <2>4 DEF Allowed, SessionStays, ModeStays
  <2> QED
    BY <1>1, <2>2, <2>5 DEF Untouched, ModeStays, WorkStays
<1>3. ASSUME \A d \in Conns : db'[d].open => db[d].open,
             \A d \in Conns \ {c} : db'[d] = db[d]
      PROVE  Allowed(c) /\ \A d \in Conns \ {c} : Untouched(d)
  <2>1. CASE conn[c].connection
    BY <1>1, <1>3, <2>1 DEF Allowed, SessionStays, Untouched, ModeStays, WorkStays
  <2>2. CASE ~conn[c].connection
    BY <1>1, <1>3, <2>2 DEF WorkInSession, Allowed, Untouched, ModeStays, WorkStays
  <2> QED
    BY <2>1, <2>2
<1> QED
  BY <1>2, <1>3, TransactEnds

\* Every step is one of the abstract specification, or none.
LEMMA PromisedNext ==
  ASSUME ~SetMayFail, PlainTexts, TypeOK, TypeOK', TransactionInv, NoUseOfClosedSession,
         WorkInSession, WorkInSession', [Next]_vars
  PROVE  [Promised!Next]_(Promised!vars)
<1>1. CASE \E c \in Conns : Handle(c) \/ SetAttribute(c) \/ ExecuteFails(c)
                            \/ EndTranThrows(c)
  BY <1>1, HandleAllowed, SetAttributeAllowed, AllowedStep
<1>2. CASE \E t \in Threads, c \in Conns : Transact(t, c)
  BY <1>2, TransactAllowed, AllowedStep
<1>3. CASE UNCHANGED <<conn, db>>
  BY <1>3 DEF Promised!vars
<1> QED
  BY <1>1, <1>2, <1>3 DEF Next, EndTranEnv, EndTranEnvReturns, vars

\* If no two threads are between the database and the flag of one connection, the
\* environment implements Transactions: no call leaves work open in autocommit mode, and
\* none closes, loses or frees a session that holds some.
THEOREM TransactionsCorrect ==
  ASSUME ~SetMayFail, PlainTexts
  PROVE  Spec /\ []FlagsApart => TransactionsSpec
<1>1. Init => Promised!Init
  BY DEF Init, Promised!Init, NoObject, NoSession
<1> QED
  BY <1>1, PromisedNext, TypeCorrect, SessionsCorrect, PTL DEF Spec, TransactionsSpec, Promised!Spec
=============================================================================
