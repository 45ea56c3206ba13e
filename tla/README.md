# The NuoDB ODBC driver in TLA+

This directory specifies the state machines of the NuoDB ODBC driver (`src/src`),
checks them with TLC on small instances, and proves the most important
invariants with TLAPS for every value of the constants.

Paths below are relative to the root of the repository's copy, so the driver's
sources are `src/src/*.cpp`.

## 1. The system

The driver is a shared library behind an ODBC driver manager (DM). An entry
point of `Main.cpp` casts its handle to an object and calls one method. The
objects own one another:

    OdbcEnv --connections--> OdbcConnection --statements--> OdbcStatement
       (all inherit the diagnostics list of OdbcObject)      | Bindings: fetch, getData, parameters
                                                             | ResultSet (maybe a ResultSetMapper)
                                                             v
                                          client library of the database (NuoDB::Connection, ...)

| Component | State | Operations | What makes it correct |
|---|---|---|---|
| Diagnostics (`OdbcObject`, `OdbcError`) | `errors`, `infoPosted` | `postError`, `clearErrors`, `sqlError`, `sqlGetDiagRec`, `sqlSuccess` | an error leaves its record; a success is not turned into something else by an old record |
| Statement (`OdbcStatement`) | `statement`, `resultSet`, `metaData`, `eof`, `cancel`, `rowCountPerFetch`, `rowCountPerSelect`, `maxRowsPerSelect`, `returnedGeneratedKeys` | prepare, execute, fetch, more results, catalog functions, close, cancel | no pointer outlives its owner; every row read is delivered; the row limit and `SQL_NO_DATA` are true; a cancel hits its own cursor |
| Column reading (`setValue`, `Bindings`) | `offset` and `count` of each binding | `sqlGetData`, the bound columns of `sqlFetch` | pieces follow one another; the code says if more is to come |
| Data at execution (`setParameter`, `Bindings`) | `dataAtExecLength`, `count`, `accumulator`, `currentPutDataParam` | `sqlBindParameter`, `executeStatement`, `sqlParamData`, `sqlPutData` | the database gets what was given, whole, from this execution |
| Connection (`OdbcConnection`) | `connection`, `connected`, `autoCommit`, `transactionPending`, `statements`, `env` | connect, disconnect, attributes, `sqlEndTran`, `transactionStarted` | the driver knows of every open transaction; no session is used after it was closed |
| Connecting (`OdbcConnection`) | `dsn`, `databaseName`, `account`, `password`, `driver`, `schema`, `isolation` | `sqlConnect`, `sqlDriverConnect`, `sqlBrowseConnect`, isolation | the session is the one asked for; the string handed back opens it again |
| Environment (`OdbcEnv`) | `connections` | `allocHandle`, `connectionClosed`, `sqlEndTran` | the list holds exactly the live connections; a failure is not hidden |
| Result filters (`ResultSetMapper`, `GetMapper`, `GetDataTypeFilter`) | mapped columns, filter, its `colIndex` | `next`, `accept`, getters | a filtered cursor shows exactly the rows asked for, and reads them as what was asked for |
| Descriptors (`OdbcDesc`) | `records`, `recordSlots`, place in the connection's list | `sqlSetDescField`, `getDescRecord`, destructor | each is deleted once, with its records |
| What a call writes into the application's memory (`OdbcStatement`) | bound arrays, `rowStatusArray`, `rowCountPerFetchPtr`, `rowCount` | `doExecuteStatement`, `sqlFetch`, `sqlRowCount` | what is handed out is of the latest execution; the states tell which elements hold rows |
| Type mapping, capability tables, entry points | constant | pure functions | total over the types |
| Windows setup (`src/src/Win`) | registry, dialogs | user interface | not a protocol |

What is hard here: the driver has **no lock**. `SQLCancel` comes from another
thread in the middle of an execution or a fetch; two statements of one
connection may be executed from two threads, and `SQLEndTran` from a third.
Every handle keeps **pointers into objects of the client library** that die with
the statement they came from. Codes depend on a **diagnostics list** that some
calls clear and others do not. Rowsets, limits and errors meet **in the middle of
a loop**. Reading and sending long data is a **protocol over several calls** with
its position in a binding. Each hazard has an entry, with its line, in
`PROJECT.json`.

## 2. The modules

| Module | Models | Stands on |
|---|---|---|
| `OdbcStatement` | one statement handle with its diagnostics | - |
| `MCStatement` | its instance for TLC | `OdbcStatement` |
| `OdbcStatementProofs` | its theorems | `OdbcStatement`, TLAPS |
| `Transactions` | abstract: what an application may rely on about the work it leaves open | - |
| `OdbcConnection` | the environment, its connections and their transactions; implements `Transactions` | `Transactions` (INSTANCE) |
| `MCConnection` | its instance, with symmetry over connections and threads | `OdbcConnection` |
| `OdbcConnectionProofs` | its theorems, among them that it implements `Transactions` | `OdbcConnection`, TLAPS |
| `ColumnStream` | abstract: what reading a column in pieces promises | - |
| `GetData` | `sqlGetData`, `setValue`, the bound columns of `sqlFetch`; implements `ColumnStream` | `ColumnStream` (INSTANCE) |
| `MCGetData` | its instances | `GetData` |
| `GetDataProofs` | its theorems, among them that it implements `ColumnStream` | `GetData`, TLAPS |
| `ParamData` | binding parameters and data at execution | - |
| `MCParamData` | its instance | `ParamData` |
| `ParamDataProofs` | its theorems | `ParamData`, TLAPS |
| `OdbcConnect` | how a connection comes by its parameters and its session, and its diagnostics read record by record | - |
| `MCConnect` | its instance | `OdbcConnect` |
| `OdbcConnectProofs` | its theorems | `OdbcConnect`, TLAPS |
| `FilteredCursor` | abstract: what a cursor over some of the rows of a result promises | - |
| `TypeInfo` | cursors behind a `ResultSetMapper`, and plain ones, with several on one handle; implements `FilteredCursor` | `FilteredCursor` (INSTANCE) |
| `MCTypeInfo` | its instance | `TypeInfo` |
| `TypeInfoProofs` | its theorems, among them that it implements `FilteredCursor` | `TypeInfo`, TLAPS |
| `ClientObjects` | abstract: how sessions and statements of the client library are to be used | - |
| `OdbcHandles` | the objects behind the handles, the lists that hold them, and their destructors step by step; implements `ClientObjects` | `ClientObjects` (INSTANCE) |
| `MCHandles` | its instance | `OdbcHandles` |
| `OdbcHandlesProofs` | its theorems, among them that it implements `ClientObjects` | `OdbcHandles`, TLAPS |
| `ExecutionResults` | what executions and fetches write into the application's memory | - |
| `MCResults` | its instance | `ExecutionResults` |
| `ExecutionResultsProofs` | its theorems | `ExecutionResults`, TLAPS |

Operators named `...` beside a comment "Mutant of" are altered forms of a
definition, used to confirm that a property really depends on it; no
specification uses them.

### OdbcStatement

`h` is the C++ object, field by field under the source's names. `srv` is what the
database keeps of the latest execution (results and generated keys still to
come). `pc` is the call in progress, `dm` the DM's state of the statement, `app`
what the application holds, `ret` the last outcome. Each handler is one action,
except the two in which the driver waits for the database: `executeStatement`
(`SQLExecute`, then `ExecuteReturns` or `ExecuteThrows`) and `sqlFetch`
(`SQLFetch`, then one `FetchRow...` per turn of its loop, then `FetchEnds`,
`FetchFull` or `FetchThrows`). `SQLCancel` may come at every point in between.
The calls that describe columns or hand out attributes (`Asking`) differ in what they
post and in what order: `sqlDescribeCol` copies the name before it asks for what may
fail, so that a failure may stand behind a warning; `sqlColAttribute` copies last; and
`sqlNumResultCols` answers zero where the others find no metadata. A warning they leave
is what the next `SQLFetch` finds in the list, which it does not clear. `ret` is reset
while a call is at the database and by `SQLCancel`, and calls no property speaks of are "other" in it:
that keeps the state space in bounds.

What is assumed of the others. The DM lets a prepared or executed statement be
executed again but not one whose cursor is being fetched; it refuses `SQLFetch`
after `SQLMoreResults` said `SQL_NO_DATA`; it does not serialise `SQLCancel` with
other calls. The application sets `SQL_ATTR_MAX_ROWS` before executing, and reads
`*rowCountPerFetchPtr` only after a fetch that returned rows. The database may
throw from `execute()`, `next()` and any getter.

### OdbcConnection

`conn` are the objects, `connections` the environment's list, `db` the sessions as
they really are (alive, mode, open work), `pc` the place of each thread. Executing
and ending a transaction are two steps each - the round trip and the update of
`transactionPending` - and the loop of `OdbcEnv::sqlEndTran` one step per
connection. Calls that take the connection itself (disconnect, free, attributes)
run with nothing else under way on it, as the DM serialises them (`Quiet`).
Attributes set before connecting are applied by the DM after. The DM frees the
driver's connection after `SQLDisconnect`. `Texts` are the effects SQL text can have
on the transaction: plain work, a commit, the start of one.

`Transactions` knows sessions, which of them are in manual mode and which hold work:
work is left open in manual mode only, and a session that holds some is neither closed
nor lost. `Promised` reads the three off the connections: a session is there as
long as the connection has its pointer, its mode is the driver's `autoCommit`, and its work is the
database's. That a call which fails leaves its work behind, and that a loop over several
connections ends one after the other, are steps of it like the rest.

### GetData

`row` is a value (a length, or null) for each column; `getDataBindings` and
`fetchBindings` hold `offset` and `count` as `Bindings` does, with `count` cut to
zero or not zero, which is all the code tests. `maxlen`, `truncated`, `exhausted`
and `code` are the arithmetic of `setValue` for characters, wide characters and
bytes; a fixed type is delivered whole. Since the driver reports
`SQL_GETDATA_EXTENSIONS` 0, the application reads columns from left to right. It
offers buffers with room for the terminator at least. `Probes` says when it may
offer one with room for nothing else: only at the start of a value, as the tests
do to ask for the length, or at any time.

### ParamData

`parameters` are the bindings, `statement` what the database was given, `app` what the
application gave in this execution, `phase` the DM's state (need data, must put,
can put). Of data the model keeps the number of bytes and from which execution
(by turns 0 or 1) they are: enough to see stale, missing and doubled data.
`setParameters` is the loop of `executeStatement`, with the parameters behind a
refused one left alone as the code leaves them. The indicators and lengths are
those of ODBC (-1 null, -2 data at execution, -3 string, -100-n announced).

### OdbcConnect

`OdbcConnection` starts from a connection that is connected or not; this module is
about the way there. `h` is the same C++ object, of which it keeps the parameters
(`dsn`, `databaseName`, `account`, `password`, `driver`, `schema` as `h.param`), the
isolation level, `connected` and the diagnostics; `db` is what the session was
opened with, `phase` the DM's state of the handle, `app` what the application said in
this attempt and what it has read of the diagnostics.

A connection string is a sequence of pairs and a value a sequence of words; that
the characters of a string are such pairs is not modelled. The loop over a string is
`assign`: the last pair that names a parameter counts, by whichever of its keywords, and
braces around a database or driver go (`trim`). `expandConnectParameters` fills what is
empty from the data source, `Sources` being `odbc.ini`. `connect`, `connectWith` and the
three calls are translated with the records they post and the order in which they do;
`truncation` is what `setString` and its callers post together, which is two
records for a short buffer and one for no buffer at all. The arguments of
`SQLConnect` are written as a string, since the code treats them alike: they
assign, and what is absent is empty.

What is assumed: the DM frees the driver's connection after a connect that failed and
after `SQLDisconnect` (`Renew`), so that no parameter of one attempt is seen by
another; it lets nothing but `SQLBrowseConnect` and `SQLDisconnect` through in the middle of
a conversation. An open transaction, which keeps `SQLDisconnect` from happening, is the
subject of `OdbcConnection` and left out here. Of the application that answers
`SQLBrowseConnect` (`AnswerAssumption`) it is assumed that its last word on each parameter it
answers is a value, and that it takes back none it gave: an answer that unsets another parameter
is asked for that one again, for ever.

### TypeInfo

`ResultSetMapper::next` asks the database for rows until its filter accepts one, so that
one `SQLFetch` is a loop: `SQLFetch` enters it, `NextOfBase` and `Accept` take turns,
`Throws` ends it at either place. A result is the sequence of the `DATA_TYPE`s of its
rows. The filter compares the number of the database (`accepts`). What the application reads
depends on the getter `setValue` uses for its C type: `OdbcTypeMapper` overrides `getShort`,
`getInt` and `getLong`, which give the number `mapType` makes of it (`MappedGetters`), while
`getByte`, `getFloat`, `getDouble` and `getString` are those of `GetMapper` and hand on the
database's (`get`). `AskedIsSeen` therefore says of the three that they name types of ODBC, and of
all seven that a row shown for a type reads as that type.
Several cursors follow one another on a handle, through `SQLGetTypeInfo`, `SQLColumns`
(`SQLProcedureColumns` does the same) and a query, and inherit from one another what
`setResultSet` and `getResultSet` leave: that is why the flags and the count of the
statement are in the module. `FilteredCursor` knows none of this: it shows the wanted
rows in order, each once, and an error may stand for one.

### OdbcHandles

`connections`, and for each connection `statements` and `descriptors`, are the
lists as the code links them, newest first; `conn`, `stmt` and `desc` are the
objects that exist. Calls that create are one action each. The calls that delete run
through `Delete` one step at a time, in the order in which C++ runs them: `close()` takes
the connection off the environment (`LeaveEnv`), deletes the head of a list until the
list is empty (`NextStatement`, `NextDescriptor`), a statement first takes itself
off the list (`StatementDeleted`), then closes what it prepared (`ReleaseStatement`),
then its four members go, from the last to the first (`DescriptorDeleted`), and the
session goes last (`CloseSession`). `client` is what the client library sees,
and `ClientObjects` says what it is to see. `Fresh` are the values a new array of record
pointers may hold, since `OdbcDesc::getDescRecord` does not initialise it.

What is assumed: the DM lets one thread at a time into the handles of an environment,
frees a connection after it was disconnected, never connects it again, and does
not free the statements a disconnect deleted. A connect that fails leaves no session
behind, as `OdbcConnect` has it.

### ExecutionResults

Executions are numbered and a value carries the number of the execution it is from, so that
a stale one is seen. `memory` is the application's: one output parameter, and
for one bound column the values, indicators and states of each row. `SQLExecute` is the whole of
`doExecuteStatement`, with the outputs read before `getResultSet`, from an open cursor if
there is one (the macro `RESULTS`). `SQLFetch` chooses how far it comes: to the end of
the rows or of the rowset, or to an error from `next()` or from a column. The calls of
`OdbcStatement` reappear here in one step each; what happens between their steps stays
there.

What is assumed of applications is named by constants: `Tidy`, that one closes the cursor it
read before it executes again, and `NullIndicators`, that one binds several rows by
column without indicators. The DM refuses to execute while it believes a cursor open.

## 3. The runs

Every run terminates on its own; deadlock is checked in all of them, since the
application can always make another call.

| Run | Shows | Bounds, and why they are enough |
|---|---|---|
| `statement_safety` | type, `NoDanglingCursor`, `NoRowLost`, `RowLimitHonoured`, `NoDataIsTheEnd`, `ErrorHasDiagnostic`, `CancelIsForThisCursor`, `FetchLoopEnds` | results of 1 or 2 rows, procedures with none or two results, rowsets of 1 or 2, no limit or one row: a limit inside a rowset, a rowset that is exactly full and one that is not. `MaxDiag` bounds the records posted by the database: one distinguishes an empty list from another. `MaxCarried` bounds the count a catalog cursor inherits |
| `connection_safety` | `EnvListExact`, `PendingCoversTransaction`, `OpenTransactionRefused`, `EnvEndTranEndsAll`, `TransactionsSpec` | two connections: one may fail while the other does not. Two statements: freeing one of several |
| `connection_threads` | `NoUseOfClosedSession` with two threads, refused modes and SQL that starts transactions | two threads: each race is between two |
| `getdata` | `MoreIsTold`, `BoundColumnsFromStart`, `StreamSpec`, `ReadLoopEnds` | values of no, one and several pieces; a buffer that fits exactly, one too short, one with room for nothing; three columns for the vector that grows |
| `paramdata` | `ExecutedWithGiven`, `ExecutedWhenComplete`, `PlaceOfParamData`, `ParameterLoopEnds` | announced lengths of two bytes against pieces of 0, 1, 3 and of a string; a parameter that is refused; statements with fewer parameters than bindings |
| `connect` | `SessionAsAsked`, `IsolationAsSet`, `CodeTellsRecords`, `RecordsInOrder`, `OutStringReconnects`, `BrowseLoopEnds` | two data sources, one whose database is put together from three entries; strings that name a parameter twice, by either keyword, with braces, empty, or not known. `MaxCalls` is three: a conversation that says something, unsays it and answers, with an attribute before or after; the answers come on top, one to four |
| `typeinfo` | `AskedIsSeen`, `FilteredSpec`, `FetchReturns` | results in which a mapped type and what it is mapped to are next to each other, first, last, and around rows that the filter hides; limits below and at the number of rows. `MaxCount` bounds the count a handle carries from cursor to cursor |
| `handles` | `ListsExact`, `ClientSpec`, `DeletionEnds` | two connections share two statement handles: the head and the tail of each list are freed, by the application and by a disconnect. A descriptor that grows twice |
| `results` | `HandedOutIsOfThis`, `StatesTellRows` | procedures with no and two result sets, queries with none and one, results of no and of three rows against rowsets of one and two: empty, full and half-full rowsets, and two executions, the least that can be confused |

Three runs end in a violation, each a disagreement between the code and what the
repository says of it:

| Run | What happens |
|---|---|
| `fetch_succeeds_without_row` | `sqlFetch` without a cursor answers by `infoPosted`: a diagnostic left by any earlier call makes it a success that delivers nothing, again and again. The test loops count each success as a row |
| `exec_direct_not_executed` | `sqlExecuteDirect` drops the code of `executeStatement`: a parameter that is refused or needs data leaves the text unexecuted and the call successful |
| `refused_under_threads` | `sqlEndTran` clears `transactionPending` after its commit, without a lock: a statement another thread executes in between loses its mark, and `SQLDisconnect` commits its work |

Other disagreements were met on the way and have no run of their own.

Statements and results:

- `returnedGeneratedKeys` is never reset (OdbcStatement.cpp:910): the keys of a second insert
  on a handle are not handed out.
- Closing the cursor takes the metadata of the prepared statement with it (:223): a
  prepared query is not described until it is executed again.
- Cursors of catalog functions inherit `rowCountPerSelect`, which only `getResultSet` resets, so
  a row limit cuts them short. With `ReuseWithLimit = TRUE` the run `typeinfo` ends in a
  violation of `FilteredSpec`; `NoDataIsTheEnd` leaves such cursors out.
- `DATA_TYPE` of a mapped cursor read as `SQL_C_FLOAT`, `SQL_C_DOUBLE`, one of the tinyint types
  or text is the database's own number (OdbcTypeMapper.h has three getters only): a BLOB or CLOB is
  called by another number there than where it is read as an integer.
- A type that is mapped is listed by `SQLGetTypeInfo(SQL_ALL_TYPES)` under a number by which
  `SQLGetTypeInfo` does not find it, since the filter compares the database's
  (GetDataTypeFilter.cpp:17).
- An execution without a result set leaves the earlier cursor in place, and output
  parameters are read from an open cursor if there is one (:1509). With `Tidy = FALSE` the run
  `results` ends in a violation of `HandedOutIsOfThis`.
- By column the place of an indicator is counted from its pointer, also from a null one
  (:386): from the second element on it is written to. With `NullIndicators = TRUE` the
  run `results` ends in a violation of `StatesTellRows`.
- A fetch that reads no row leaves `*rowCountPerFetchPtr` as it was (:366), and fills the
  array of states with `SQL_NO_DATA`, which is not the value of `SQL_ROW_NOROW`.
- A slot of a descriptor that grows is not initialised (OdbcDesc.cpp:97). With `"wild"` in `Fresh`
  the run `handles` ends in a violation of `DeletionEnds`.

Long data:

- `setValue` takes "nothing copied, and not for the first time" for the end of the value (:651): a
  buffer with room for nothing, offered in the middle, starts the value over. With
  `Probes = "any"` the run `getdata` ends in a violation of `StreamSpec`.
- `SQL_LEN_DATA_AT_EXEC(0)` answers `SQL_NEED_DATA` but is never asked for, and the
  statement executes with the value of the execution before (:1109). A null piece for an
  announced length makes the length grow by one (:1566). A piece that is refused and too
  long answers `SQL_SUCCESS_WITH_INFO` (:1568). The constants of the run `paramdata` keep out
  of the three; with any of them in, `ExecutedWithGiven` fails.

Connections and entry points:

- The completed connection string never names the database (OdbcConnection.cpp:513): where
  the application's string did, it opens another session. Otherwise it opens the same
  one, which is `OutStringReconnects`.
- If the session refuses an autocommit mode, the driver has already changed its own. With
  `SetMayFail = TRUE` the run `connection_safety` ends in violations of
  `PendingCoversTransaction`, `OpenTransactionRefused` and `TransactionsSpec`.
- `SQLGetInfo` does not clear the diagnostics, so that its code may be about the call before
  (`CodeTellsRecords` leaves it out). A driver or browse connect with no buffer for the
  string reports a truncation, one with a short buffer reports it twice.
- `SQLDescribeParam` passes its fourth argument twice (Main.cpp:725). Several functions answer
  success and do nothing.

## 4. Fairness

- `OdbcStatement`: weak fairness of `FetchStep \/ ExecuteStep` - a call that has
  been entered is a plain C++ function and runs to its end, provided the database
  answers - and of `Fetch`, the application of the property, which calls `SQLFetch`
  in a loop. `SQLCancel` has none: it need not come.
- `GetData`: weak fairness of `ReadOn`, the application that goes on reading the
  column with a buffer that holds data. It is the loop
  `while (SQLGetData(...) != SQL_NO_DATA)` of the tests.
- `ParamData`: weak fairness of `SQLParamData` and of `PutSome`, the loop
  `while (SQLParamData(...) == SQL_NEED_DATA) SQLPutData(...)` of the tests, with a piece
  that is not empty.
- `OdbcConnect`: weak fairness of `AnswerBrowse`, the application that answers some of what
  `SQLBrowseConnect` asks for, by the keyword it was asked with, as long as it is asked.

- `TypeInfo`: weak fairness of `NextOfBase` and of `Accept` - the loop of `next()` is plain C++,
  provided the database answers. An error may come instead, but need not.
- `OdbcHandles`: weak fairness of `Delete` - a destructor that has begun runs on, as far as its
  steps are possible at all: deleting a record through a pointer that was never set is not.

`OdbcConnection` and `ExecutionResults` have safety properties only.

## 5. What is proved

The theorems hold for every value of the constants that satisfies the modules'
ASSUMEs: any number of rows, columns, connections and threads, any sizes of rowsets
and buffers. Each is about safety: an invariant, an action property or a refinement of an
abstract specification, and its proof has one step per action. The last rows of a
module are, where it has a loop, the halves of its liveness properties that need no fairness: what
each turn of the loop brings nearer to its end.

| Theorem | States | Further assumptions | Inductive invariant |
|---|---|---|---|
| `OdbcStatementProofs!TypeCorrect` | `TypeOK` | | itself |
| `NoDanglingCursorCorrect` | `NoDanglingCursor` | | `CursorInv` |
| `NoRowLostCorrect`, `RowLimitHonouredCorrect` | `NoRowLost`, `RowLimitHonoured` | | `RowsInv` |
| `ErrorHasDiagnosticCorrect` | `ErrorHasDiagnostic` | | itself, with `TypeOK` |
| `CancelIsForThisCursorCorrect` | `CancelIsForThisCursor` | | `CancelInv` |
| `NoDataIsTheEndCorrect` | `NoDataIsTheEnd` | | `EndInv`, with `RowsInv` |
| `CursorFetchDeliversCorrect` | `FetchOnCursor`, `CursorFetchDelivers` | | `FetchInv`, with `RowsInv` |
| `CursorOfExecDirectCorrect` | `CursorOfExecDirect` | | `DirectInv` |
| `FetchForwardCorrect` | `FetchForward`, `NoMoreRowsThanThereAre` | | `FetchInv`, `RowsInv` |
| `OdbcConnectionProofs!TypeCorrect` | `TypeOK` | | itself |
| `EnvListCorrect` | `EnvListExact` | | itself, with `TypeOK` |
| `NoUseOfClosedSessionCorrect` | `NoUseOfClosedSession` | | itself, with `TypeOK` |
| `PendingCoversTransactionCorrect` | `PendingCoversTransaction` | `[]FlagsApart`, `~SetMayFail`, `PlainTexts` | `TransactionInv` |
| `OpenTransactionRefusedCorrect` | `OpenTransactionRefused` | the same | `TransactionInv` |
| `EnvEndTranEndsAllCorrect` | `EnvEndTranEndsAll` | the same, and `[]EnvAlone` | `EndEnvInv`, with `WorkInSession`, `TransactionInv` |
| `TransactionsCorrect` | `Spec => TransactionsSpec` | as for `PendingCoversTransaction` | `TransactionInv`, with `WorkInSession` |
| `GetDataProofs!TypeCorrect` | `TypeOK` | | itself |
| `BoundColumnsCorrect` | `BoundColumnsFromStart` | | itself, with `TypeOK` |
| `MoreIsToldCorrect` | `MoreIsTold` | `Probes = "first"` | `StreamInv` |
| `StreamCorrect` | `Spec => StreamSpec` | `Probes = "first"` | `StreamInv` |
| `ReadForwardCorrect` | `ReadForward`, `ToReadCounted` | `Probes = "first"` | `StreamInv` |
| `OdbcConnectProofs!TypeCorrect` | `TypeOK` | | itself |
| `SessionAsAskedCorrect`, `OutStringReconnectsCorrect` | `SessionAsAsked`, `OutStringReconnects` | | `SessionInv` |
| `IsolationAsSetCorrect` | `IsolationAsSet` | | `IsolationInv` |
| `CodeTellsRecordsCorrect` | `CodeTellsRecords` | | itself, with `TypeOK` |
| `RecordsInOrderCorrect` | `RecordsInOrder` | | `ReadInv` |
| `BrowseForwardCorrect` | `BrowseForward` | | `AskedStill` |
| `TypeInfoProofs!TypeCorrect` | `TypeOK` | | itself, with `Standing` |
| `AskedIsSeenCorrect` | `AskedIsSeen` | | `ReadIsOfRow` |
| `FilteredCorrect` | `Spec => FilteredSpec` | `ReuseWithLimit = FALSE` | `Behind` and `Counted` |
| `RowsInOrderCorrect` | `Behind`, `LimitKept` | | `OrderInv` |
| `LoopForwardCorrect` | `LoopForward`, `ToGoExact` | | `TypeOK` |
| `ParamDataProofs!TypeCorrect` | `TypeOK` | | itself, with `Owing` |
| `ExecutedWithGivenCorrect`, `ExecutedWhenCompleteCorrect` | `ExecutedWithGiven`, `ExecutedWhenComplete` | `Announcing` | `DataInv` |
| `PlaceOfParamDataCorrect` | `PlaceOfParamData` | `Announcing` | `DataInv` |
| `ParameterLoopForwardCorrect` | `ParameterLoopForward`, `OwingCounted` | | `TypeInv` |
| `OdbcHandlesProofs!TypeCorrect` | `TypeOK` | | `HandlesInv` |
| `ListsExactCorrect` | `ListsExact` | | `HandlesInv` |
| `ClientCorrect` | `Spec => ClientSpec` | | `HandlesInv` |
| `DestructorGoesOnCorrect` | `DestructorGoesOn` | `"wild" \notin Fresh` | `RecordsSet`, with `HandlesInv` |
| `DeletionCountsDown` | `CountsDown`, `StepsLeftExact` | | `HandlesInv` |
| `ExecutionResultsProofs!TypeCorrect` | `TypeOK` | | itself |
| `HandedOutCorrect` | `HandedOutIsOfThis` | `Tidy` | `HandedOutInv` |
| `StatesTellRowsCorrect` | `StatesTellRows` | `~NullIndicators` | `StatesInv` |

Why the strengthenings are needed:

- `CursorInv` says that the fields of `h` agree (`Linked`) and that a call in the middle
  of `execute()` still has the statement it runs (`StatementHeld`): without the second,
  `ExecuteReturns` could set a result set for a statement that is gone.
- `RowsInv` adds to the two properties how the counters relate during a fetch:
  what was fetched in this call and what was in the ones before sum up to
  `rowCountPerSelect` (`FetchCounted`, `SelectCounted`), and nothing was read of a
  cursor that is just opened (`NothingRead`, `NotFetched`). `RowLimitHonoured` alone is
  not inductive since the code compares its own counter with the limit, not what the
  application received.
- `CancelInv` drops the cursor from the property: the flag outlives a cursor that is closed, and
  only the next `setResultSet` or `getResultSet` resets it.
- `EndInv` says that `eof` is the truth, and that a limit cannot be raised under it: a cursor
  whose end was seen is fetched from, and there the DM takes no new limit. The count
  that `eof` comes from is no more than the rows the application received or lost
  (`SelectBounded`), while `SelectCounted` of `RowsInv` says it is no less than those received;
  the cursors of catalog functions, which inherit a count, are left out of the first.
- `TransactionInv` adds that the driver's autocommit mode is the session's
  (`ModeMirrored`) and that a statement which has executed but not yet returned will
  set the flag (`FlagToCome`): between the two steps the transaction is open and the flag
  is not set. Two threads that are there on one connection at once (`FlagsApart` forbids
  it) are what breaks, as `refused_under_threads` shows;
  with `SetMayFail` the mode is not mirrored; with SQL text that starts
  transactions the driver does not see them. Hence the three assumptions. `FlagsApart` is
  what an application has to see to that uses the driver from several threads;
  one thread satisfies it (`OneThreadApart`). `TransactionsCorrect` says in
  one formula what follows for the application.
- `EndEnvInv` adds that the loop of `OdbcEnv::sqlEndTran` has all open work ahead of it or has
  failed (`WorkToEnd`), and that a session with work belongs to a connection in the list
  (`SessionListed`); that one without a pointer has none is `WorkInSession`, which needs
  `TransactionInv`. A statement executed on a connection that the loop has passed opens work behind
  it, hence `EnvAlone`.
- `CursorFetchDelivers` and `CursorOfExecDirect` are what remains true of the two claims that
  `fetch_succeeds_without_row` and `exec_direct_not_executed` refute: with a cursor, a
  success has brought a row; and a success of which nothing was executed has left no
  cursor to read from. `DirectInv` adds that none appears in the middle.
- `RowsInOrder` is what remains of `FilteredSpec` when a limit is put to a catalog
  function on a handle that has counted rows: rows may be missing at the end, but come in order, each
  once, and no more than the limit. `CountsShown` adds that the handle's count is at least
  the rows shown.
- `StreamInv` says that a position is within its value and that the count is zero only at
  its start (`Inside`), that the columns right of the last one read are untouched
  (`Ahead`), and that driver and application count alike (`Counted`). With
  `Probes = "any"` the position may be in the middle with nothing received since, which
  the code cannot tell from the end.
- `SessionInv` says that as long as there is no session, the handle has gathered what the
  application said so far in this attempt. A conversation with `SQLBrowseConnect` assigns
  one string after the other; the lemma `SaidConcat` is that this is the same as reading
  them as one. `ReadBack` then reads the completed string.
- `IsolationInv` adds that before there is a session the handle remembers the level
  for it.
- `ReadInv` relates the list that `SQLError` takes records from and `SQLGetDiagRec` reads
  to the records that were due when the reading began: what is left are those, but for
  the ones that are gone.
- `Standing` and `ReadIsOfRow` (in `TypeInfoProofs`) tie what was read, and by which getter, to
  the row the cursor is at: the filter has accepted that row, and nothing is read while a call is
  under way. That a row of the asked type reads the same by getters that map and getters that do
  not is the lemma `MapTypeFixed`: `mapType` leaves the types of ODBC as they are.
- `Behind` says that the wanted rows behind the cursor are those that were seen or
  missed, and `Counted` that the statement's flag and counter say no more than
  that. `Counted` is what breaks with `ReuseWithLimit`: a counter that does not begin at
  zero ends the cursor before its limit.
- `HandlesInv` ties four views of the same objects together: where a destructor is and what it
  has still to delete (`PlaceInv`), the lists and the pointers back (`RegisteredInv`,
  `AttachedInv`, `DescriptorsInv`, `DescInv`), what the DM takes for a handle (`HandleInv`),
  and what the client library has open (`ClientInv`). That a list is exact is
  inductive only with the place of the destructor, which empties the list ahead of the
  object that goes; that no session is closed with statements attached follows from the list
  being empty and exact at that step.
- `HandedOutInv` adds that a cursor, and one the DM believes open, is one the application
  has not closed, and of the latest execution or of a catalog function: so no cursor is open
  when outputs are read.
- `DataInv` says what each input is while data is owed (`OwedInv`): given whole; untouched,
  waiting for the length its indicator asks for; or given in parts, and then the
  accumulator of its binding, the value in the database and what the application gave
  are the same, and the length left is what was announced less what was given. The two
  properties look at the moment of the execution only, when nothing waits any more.
  `Announcing` is that a length is announced for text and bytes only and no null piece
  comes for it: a null piece counts as -1 against the length, and a number is set from one
  piece, whatever was announced. The constants of the run satisfy it.
- The theorems about progress name a measure of what is left, which no step of the loop
  leaves as it is: the rows of the cursor (`FetchForward`); the calls of `next` and `accept`
  (`ToGo`); the bytes of the value, and one call more while the first has not told its length
  (`ToRead`); the bindings behind the place of `SQLParamData`, the bytes owed at it and whether
  it has still to be named, in this order (`PlacesLeft`, `BytesOwed`, `ToName`); what
  `SQLBrowseConnect` is missing, which shrinks by what is answered (`AskedStill` says that it is what it
  asked for); the steps of the destructors and of the loops that call them (`StepsLeft`), which
  need `HandlesInv`, since a destructor that deletes what another list still holds would come back
  to it. `DestructorGoesOn` is the other half of `DeletionEnds`: the step that could be
  impossible, the deletion of a record, is possible whenever it is due.
- `StatesInv` adds that several rows by column are bound with indicators (`WellBound`); that the
  elements marked are as many as the count says is `StatesOfFetch` and `Counting`.

## 6. What is only model-checked

Liveness: `FetchLoopEnds`, `ReadLoopEnds`, `ParameterLoopEnds`, `BrowseLoopEnds`, `FetchReturns`,
`DeletionEnds`. For each of them section 5 has the decrease of a measure at every step, for every
value of the constants; what stays with TLC is that the next step is enabled and, by fairness,
taken (ENABLED is out of the prover's reach), and that a measure in the natural numbers cannot
decrease for ever (an induction with an operator as its parameter).

Every invariant and every refinement the passing runs check has a theorem; `connection_threads`
checks its property with modes that are refused and with SQL that starts transactions, which the
theorem covers too.

## 7. What is not modelled

- Undefined behaviour that a model could only guess at: two threads inside one
  diagnostics list or one vector, an exception that leaves through a C entry point
  (`getMoreResults`, `setTransactionIsolation`, the setters under `sqlPutData`), a
  terminator written behind a buffer of no bytes, a null string converted to wide
  characters.
- The conversion of each C type, dates and times. Of a rowset one bound column, and
  of a procedure one output parameter, stand for all.
- The description of parameters and the query timeout, which are passed on.
- What a descriptor record holds, which nothing in the driver reads; the reference counts of a
  `ResultSetMapper` and of what it wraps, which nothing in the driver releases.
- The values of `SQLGetInfo` and `SQLGetFunctions`, the texts of diagnostic records.
- The entry points of `Main.cpp` beyond those that create and delete: each casts its
  handle and calls one method.
- The Windows setup (dialogs, registry), tracing, build files.

## 8. The plan

Done: the statement, connections and transactions, connecting, reading in pieces, data at
execution, filtered cursors, handles and their destructors, what is handed out, and the
proofs of what is safe about them. What would come next, in this order:

1. Pure functions against a reference: `isStoredProcedureEscape` and `getToken`,
   `convertFromSQL_C_DEFAULT`, `setString` and `appendString` with 16-bit lengths.
2. `OdbcSystem`: statements composed with the connection, so that `Transactions`, which the
   connection implements by itself, is implemented by the executions of its statements.
