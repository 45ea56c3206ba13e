---------------------------- MODULE OdbcStatement ----------------------------
(***************************************************************************)
(* One statement handle: class OdbcStatement with the diagnostics it       *)
(* inherits from OdbcObject.  The module follows a statement from          *)
(* preparation through execution, the cursors an execution opens, fetching *)
(* by rowset, further results, generated keys and cancellation.            *)
(*                                                                         *)
(* Three parties act on the handle.  The application thread makes one call *)
(* at a time; a second thread may call SQLCancel while such a call is in   *)
(* progress; the database answers execute() and next() in any way it may.  *)
(* A call that talks to the database for long, execution and fetching, is  *)
(* split where the database answers, so that SQLCancel can come between.   *)
(*                                                                         *)
(* The driver manager in front of the driver rejects calls that make no    *)
(* sense after the return codes it has seen; dm is the little of it that   *)
(* decides which calls reach the driver.                                   *)
(***************************************************************************)
EXTENDS Integers, Sequences

CONSTANTS
  Kinds,       \* kinds of SQL text an application prepares
  SelectSizes, \* sizes of the result of a query
  KeySizes,    \* sizes of the generated keys of an insert (0: no key column)
  CallResults, \* sequences of result sizes a procedure may return
  CatalogSizes,\* sizes of the result of a catalog function
  Limits,      \* values of SQL_ATTR_MAX_ROWS, 0 is no limit
  ArraySizes,  \* values of SQL_ATTR_ROW_ARRAY_SIZE
  MaxDiag,     \* bound: records on the list when the database makes us post one
  MaxCarried   \* bound: row count carried over into a catalog function

ASSUME KindsAssumption == Kinds \subseteq {"select", "insert", "call"}
ASSUME SizesAssumption ==
  /\ SelectSizes \subseteq Nat
  /\ KeySizes \subseteq Nat
  /\ CatalogSizes \subseteq Nat
  /\ CallResults \subseteq Seq(Nat)
ASSUME AttributesAssumption ==
  /\ Limits \subseteq Nat
  /\ ArraySizes \subseteq Nat \ {0}
  /\ 0 \in Limits
  /\ 1 \in ArraySizes
ASSUME BoundsAssumption == MaxDiag \in Nat /\ MaxCarried \in Nat

VARIABLES
  h,    \* the OdbcStatement object
  srv,  \* what the database holds of the latest execution
  pc,   \* the call the application thread is in, or "idle"
  dm,   \* the driver manager's view of the statement
  app,  \* the application's buffers, and what it has learnt so far
  ret   \* what the last call returned, until another begins to wait for the
        \* database or SQLCancel comes: code, diagnostics, rows it delivered

vars == <<h, srv, pc, dm, app, ret>>

-----------------------------------------------------------------------------
(***************************************************************************)
(* The objects.                                                            *)
(***************************************************************************)
\* Failures; data cut short and values put in place of others; a cancel; and
\* metadata that are not there.
Diagnostics == {"error", "warning", "canceled", "noMetaData"}
Codes == {"SQL_SUCCESS", "SQL_SUCCESS_WITH_INFO", "SQL_ERROR", "SQL_NO_DATA",
          "SQL_NEED_DATA"}
Succeeded(code) == code \in {"SQL_SUCCESS", "SQL_SUCCESS_WITH_INFO"}

\* A result set of the client library: left rows are still to be read by
\* next(); open is FALSE once the statement it came from was closed.
ResultSets == [owner : {"statement", "keys", "catalog"}, size : Nat,
               left : Nat, open : BOOLEAN]
NoResultSet == [owner |-> "none", size |-> 0, left |-> 0, open |-> FALSE]
NewResultSet(owner, n) ==
  [owner |-> owner, size |-> n, left |-> n, open |-> TRUE]
HasCursor(s) == s.resultSet # NoResultSet

Handles ==
  [statement : Kinds \cup {"none"},
   resultSet : ResultSets \cup {NoResultSet},
   metaData  : {"none", "statement", "resultSet"},
   eof : BOOLEAN, cancel : BOOLEAN, returnedGeneratedKeys : BOOLEAN,
   rowCountPerFetch : Nat, rowCountPerSelect : Nat,
   maxRowsPerSelect : Limits, rowArraySize : ArraySizes,
   infoPosted : BOOLEAN, errors : Seq(Diagnostics)]

\* Results still to come, the generated keys and whether they were handed out,
\* and whether the text now prepared was ever executed.
Executions == [results : Seq(Nat), keys : Nat, keysGiven : BOOLEAN,
               executed : BOOLEAN]
NoExecution == [results |-> << >>, keys |-> 0, keysGiven |-> FALSE,
                executed |-> FALSE]

ExecuteCalls == {"SQLExecute", "SQLExecDirect", "SQLParamData"}
Calls == ExecuteCalls \cup
         {"SQLPrepare", "SQLFetch", "SQLMoreResults", "SQLCatalog",
          "SQLCloseCursor", "SQLFreeStmt", "SQLSetStmtAttr",
          "SQLDescribeCol", "SQLColAttribute", "SQLColAttributes",
          "SQLNumResultCols", "SQLGetStmtAttr", "SQLError"}

\* What the application knows: it has a prepared text; its rows-fetched buffer;
\* rows it has received, or lost to errors, from the cursor; whether it counted
\* from the start of the cursor; whether it has cancelled since.
Applications == [prepared : BOOLEAN, rowsFetched : Nat, rows : Nat, lost : Nat,
                 fresh : BOOLEAN, cancelled : BOOLEAN]

\* What a call returns; the calls no property speaks of are not told apart.
Observed == {"SQLExecDirect", "SQLFetch", "SQLMoreResults", "SQLDescribeCol"}
Outcomes == [call : Observed \cup {"other", "none"}, code : Codes, diag : Seq(Diagnostics),
             delivered : Nat]
NoOutcome == [call |-> "none", code |-> "SQL_SUCCESS", diag |-> << >>, delivered |-> 0]

-----------------------------------------------------------------------------
(***************************************************************************)
(* OdbcObject: the diagnostics of a handle.                                *)
(***************************************************************************)
clearErrors(s) == [s EXCEPT !.errors = << >>, !.infoPosted = FALSE]

postError(s, d) == [s EXCEPT !.errors = Append(@, d), !.infoPosted = TRUE]

sqlSuccess(s) == IF s.infoPosted THEN "SQL_SUCCESS_WITH_INFO" ELSE "SQL_SUCCESS"

(***************************************************************************)
(* OdbcStatement: the cursor and the statement, as functions of the handle *)
(* because the handlers compose them.                                      *)
(***************************************************************************)
releaseResultSet(s) ==
  [s EXCEPT !.resultSet = NoResultSet,
            !.metaData  = IF HasCursor(s) THEN "none" ELSE @]

\* close() of the client library ends the result sets of the statement.
closeStatement(s) ==
  IF s.resultSet.owner \in {"statement", "keys"}
  THEN [s EXCEPT !.statement = "none", !.resultSet.open = FALSE]
  ELSE [s EXCEPT !.statement = "none"]

\* Mutant of releaseStatement: the statement is closed with its cursor open.
releaseStatementOnly(s) ==
  IF s.statement # "none" THEN closeStatement([s EXCEPT !.metaData = "none"]) ELSE s

releaseStatement(s) ==
  LET r == [releaseResultSet(s) EXCEPT !.metaData = "none"]
  IN  IF r.statement # "none" THEN closeStatement(r) ELSE r

\* Mutant of setResultSet: a cancel is left to hit the next cursor.
setResultSetKeepsCancel(s, rs) ==
  [releaseResultSet(s) EXCEPT !.resultSet = rs, !.metaData = "resultSet",
                              !.eof = FALSE]

setResultSet(s, rs) ==
  [releaseResultSet(s) EXCEPT !.resultSet = rs, !.metaData = "resultSet",
                              !.eof = FALSE, !.cancel = FALSE]

\* Mutant of startResult: the count of rows goes on from the result before.
startResultKeepsCount(s) ==
  [s EXCEPT !.eof = FALSE, !.cancel = FALSE, !.returnedGeneratedKeys = TRUE]

\* getResultSet resets the cursor's state before it knows of a next result.
startResult(s) ==
  [s EXCEPT !.eof = FALSE, !.cancel = FALSE, !.rowCountPerSelect = 0,
            !.returnedGeneratedKeys = TRUE]

GivesKeys(s, d) == ~s.returnedGeneratedKeys /\ d.keys > 0
GivesResult(s, d) == GivesKeys(s, d) \/ d.results # << >>

getResultSet(s, d) ==
  IF GivesKeys(s, d)
  THEN setResultSet(startResult(s), NewResultSet("keys", d.keys))
  ELSE IF d.results # << >>
       THEN setResultSet(startResult(s), NewResultSet("statement", Head(d.results)))
       ELSE startResult(s)

\* The database's side of getResultSet.
afterGetResultSet(s, d) ==
  IF GivesKeys(s, d) THEN [d EXCEPT !.keysGiven = TRUE]
  ELSE IF d.results # << >> THEN [d EXCEPT !.results = Tail(@)]
       ELSE d

prepareStatement(s, kind) ==
  [releaseStatement(clearErrors(s)) EXCEPT
     !.statement = kind,
     !.metaData  = IF kind = "call" THEN "none" ELSE "statement"]

-----------------------------------------------------------------------------
(***************************************************************************)
(* How a call begins and ends, and the driver manager's guards.            *)
(***************************************************************************)
\* A call that goes to the database.
Begin(call, s) == pc' = call /\ h' = s /\ ret' = NoOutcome

Return(call, code, s, delivered) ==
  /\ pc'  = "idle"
  /\ h'   = s
  /\ ret' = [call |-> IF call \in Observed THEN call ELSE "other", code |-> code,
             diag |-> s.errors, delivered |-> delivered]

Idle == pc = "idle"

\* The state a statement falls back to without a result.
Dormant(prepared) == IF prepared THEN "prepared" ELSE "allocated"

MayExecute == Idle /\ dm \in {"allocated", "prepared", "executed"}
MayRead == Idle /\ dm \in {"executed", "fetched"}

\* The application starts counting again when a new cursor is opened.
NewCursor(a) == [a EXCEPT !.rows = 0, !.lost = 0, !.fresh = TRUE]

Init ==
  /\ h = [statement |-> "none", resultSet |-> NoResultSet, metaData |-> "none",
          eof |-> FALSE, cancel |-> FALSE, returnedGeneratedKeys |-> FALSE,
          rowCountPerFetch |-> 0, rowCountPerSelect |-> 0,
          maxRowsPerSelect |-> 0, rowArraySize |-> 1,
          infoPosted |-> FALSE, errors |-> << >>]
  /\ srv = NoExecution
  /\ pc  = "idle"
  /\ dm  = "allocated"
  /\ app = [prepared |-> FALSE, rowsFetched |-> 0, rows |-> 0, lost |-> 0,
            fresh |-> FALSE, cancelled |-> FALSE]
  /\ ret = NoOutcome

-----------------------------------------------------------------------------
(***************************************************************************)
(* Preparing and executing.                                                *)
(***************************************************************************)
SQLPrepare(kind) ==
  /\ MayExecute
  /\ Return("SQLPrepare", "SQL_SUCCESS", prepareStatement(h, kind), 0)
  /\ srv' = NoExecution
  /\ dm'  = "prepared"
  /\ app' = [app EXCEPT !.prepared = TRUE]

\* Mutant of PrepareFails: the diagnostics are cleared on the way out.
PrepareFailsSilently(call) ==
  /\ MayExecute
  /\ Return(call, "SQL_ERROR", releaseStatement(clearErrors(h)), 0)
  /\ srv' = NoExecution
  /\ dm'  = "allocated"
  /\ app' = [app EXCEPT !.prepared = FALSE]

\* The database refuses the text, or the catalog query: SQLPrepare,
\* SQLExecDirect and the catalog functions fail alike.
PrepareFails(call) ==
  /\ MayExecute
  /\ Return(call, "SQL_ERROR",
            postError(releaseStatement(clearErrors(h)), "error"), 0)
  /\ srv' = NoExecution
  /\ dm'  = "allocated"
  /\ app' = [app EXCEPT !.prepared = FALSE]

\* The parameters are bound, and the call goes on to the database.
SQLExecute ==
  /\ MayExecute
  /\ app.prepared
  /\ Begin("SQLExecute", clearErrors(h))
  /\ UNCHANGED <<srv, dm, app>>

\* A parameter is left to SQLPutData.
SQLExecuteNeedsData ==
  /\ MayExecute
  /\ app.prepared
  /\ Return("SQLExecute", "SQL_NEED_DATA", clearErrors(h), 0)
  /\ dm' = "needData"
  /\ UNCHANGED <<srv, app>>

\* setParameter refuses the value of a parameter.
SQLExecuteBadParameter ==
  /\ MayExecute
  /\ app.prepared
  /\ Return("SQLExecute", "SQL_ERROR", postError(clearErrors(h), "error"), 0)
  /\ dm' = "prepared"
  /\ UNCHANGED <<srv, app>>

SQLExecDirect(kind) ==
  /\ MayExecute
  /\ Begin("SQLExecDirect", prepareStatement(h, kind))
  /\ srv' = NoExecution
  /\ app' = [app EXCEPT !.prepared = FALSE]
  /\ UNCHANGED dm

\* What executeStatement returns is dropped: a parameter that needs data, or
\* has a bad value, ends SQLExecDirect with the code of its sqlPrepare.
SQLExecDirectDropsResult(kind) ==
  /\ MayExecute
  /\ \E s \in {prepareStatement(h, kind),
               postError(prepareStatement(h, kind), "error")} :
       Return("SQLExecDirect", "SQL_SUCCESS", s, 0)
  /\ srv' = NoExecution
  /\ dm'  = "executed"
  /\ app' = [app EXCEPT !.prepared = FALSE]

\* The data of every parameter is there: SQLParamData executes.
SQLParamData ==
  /\ Idle
  /\ dm = "needData"
  /\ Begin("SQLParamData", clearErrors(h))
  /\ UNCHANGED <<srv, dm, app>>

\* What the database may answer to execute().
Answers(kind) ==
  IF kind = "select" THEN [results : {<<n>> : n \in SelectSizes}, keys : {0}]
  ELSE IF kind = "insert" THEN [results : {<< >>}, keys : KeySizes]
       ELSE [results : CallResults, keys : {0}]

\* A callable statement copies its output parameters; one may be cut short.
CopiesTruncated == h.statement = "call" /\ Len(h.errors) < MaxDiag
outputParameters(s, cut) == IF cut THEN postError(s, "warning") ELSE s

ExecuteReturns(answer, cut) ==
  LET s == outputParameters(h, cut)
      d == [results |-> answer.results, keys |-> answer.keys,
            keysGiven |-> FALSE, executed |-> TRUE]
      hasRset == answer.results # << >>
      done == IF hasRset THEN getResultSet(s, d) ELSE s
  IN  /\ pc \in ExecuteCalls
      /\ cut => CopiesTruncated
      /\ Return(pc, IF pc = "SQLExecDirect" THEN "SQL_SUCCESS" ELSE sqlSuccess(s),
                done, 0)
      /\ srv' = IF hasRset THEN afterGetResultSet(s, d) ELSE d
      /\ dm'  = "executed"
      /\ app' = IF hasRset
                THEN [NewCursor(app) EXCEPT !.cancelled = FALSE]
                ELSE [app EXCEPT !.fresh = FALSE]

ExecuteThrows ==
  /\ pc \in ExecuteCalls
  /\ Return(pc, "SQL_ERROR", postError(h, "error"), 0)
  /\ srv' = NoExecution
  /\ dm'  = Dormant(app.prepared)
  /\ UNCHANGED app

\* sqlTables, sqlColumns, sqlGetTypeInfo and the other catalog functions.  They
\* leave rowCountPerSelect as it is, which MaxCarried keeps finite.
SQLCatalog(n) ==
  /\ MayExecute
  /\ h.rowCountPerSelect <= MaxCarried
  /\ Return("SQLCatalog", "SQL_SUCCESS",
            setResultSet(releaseStatement(clearErrors(h)),
                         NewResultSet("catalog", n)), 0)
  /\ srv' = NoExecution
  /\ dm'  = "executed"
  /\ app' = [NewCursor(app) EXCEPT !.prepared = FALSE, !.cancelled = FALSE]

-----------------------------------------------------------------------------
(***************************************************************************)
(* Fetching: sqlFetch begins, takes one row of the rowset after another    *)
(* and returns.                                                            *)
(***************************************************************************)
SQLFetchNoCursor ==
  /\ MayRead
  /\ ~HasCursor(h)
  /\ IF h.infoPosted
     THEN Return("SQLFetch", "SQL_SUCCESS_WITH_INFO", h, 0)
     ELSE Return("SQLFetch", "SQL_ERROR", postError(h, "error"), 0)
  /\ dm' = IF h.infoPosted THEN "fetched" ELSE dm
  /\ UNCHANGED <<srv, app>>

SQLFetchCanceled ==
  /\ MayRead
  /\ HasCursor(h)
  /\ h.cancel
  /\ Return("SQLFetch", "SQL_ERROR", postError(releaseResultSet(h), "canceled"), 0)
  /\ UNCHANGED <<srv, dm, app>>

SQLFetch ==
  /\ MayRead
  /\ HasCursor(h)
  /\ ~h.cancel
  /\ Begin("SQLFetch", [h EXCEPT !.rowCountPerFetch = 0])
  /\ UNCHANGED <<srv, dm, app>>

\* The rowset is not full, and sqlFetch asks for another row.
WantsRow == pc = "SQLFetch" /\ h.rowCountPerFetch < h.rowArraySize

\* Mutant of LimitReached: one row too many.
LimitPassed(s) ==
  s.maxRowsPerSelect > 0 /\ s.rowCountPerSelect > s.maxRowsPerSelect

LimitReached(s) ==
  s.maxRowsPerSelect > 0 /\ s.rowCountPerSelect >= s.maxRowsPerSelect

\* Mutant of AtEnd: the answer of next() is not looked at.
AtEndUnchecked(s) == s.eof \/ LimitReached(s)

AtEnd(s) == s.eof \/ LimitReached(s) \/ s.resultSet.left = 0

\* next() moves the cursor to a row.
consume(s) == [s EXCEPT !.resultSet.left = @ - 1]

countRow(s) == [s EXCEPT !.rowCountPerFetch = @ + 1, !.rowCountPerSelect = @ + 1]

\* The application, whose rows-fetched buffer is *rowCountPerFetchPtr, takes
\* the rowset of a call that succeeded, and none of one that failed.  It zeroes
\* its buffer between the calls.
take(a) == [a EXCEPT !.rows = @ + a.rowsFetched, !.rowsFetched = 0]
lose(a, n) == [a EXCEPT !.lost = @ + n, !.rowsFetched = 0]

FetchRow(cut) ==
  LET s == IF cut THEN postError(consume(h), "warning") ELSE consume(h)
  IN  /\ WantsRow
      /\ ~AtEnd(h)
      /\ cut => Len(h.errors) < MaxDiag
      /\ h'   = countRow(s)
      /\ app' = [app EXCEPT !.rowsFetched = h.rowCountPerFetch + 1]
      /\ UNCHANGED <<srv, pc, dm, ret>>

\* setValue cannot convert a bound column: the row is read but not counted.
FetchRowFails ==
  /\ WantsRow
  /\ ~AtEnd(h)
  /\ Len(h.errors) < MaxDiag
  /\ Return("SQLFetch", "SQL_ERROR", postError(consume(h), "error"), 0)
  /\ app' = lose(app, h.rowCountPerFetch + 1)
  /\ UNCHANGED <<srv, dm>>

\* next() throws.
FetchThrows ==
  /\ WantsRow
  /\ ~(h.eof \/ LimitReached(h))
  /\ Len(h.errors) < MaxDiag
  /\ Return("SQLFetch", "SQL_ERROR", postError(h, "error"), 0)
  /\ app' = lose(app, h.rowCountPerFetch)
  /\ UNCHANGED <<srv, dm>>

\* Mutant of FetchEnds: next() is asked before the row limit is looked at.
FetchEndsAfterNext ==
  /\ WantsRow
  /\ AtEnd(h)
  /\ Return("SQLFetch",
            IF h.rowCountPerFetch > 0 THEN sqlSuccess(h) ELSE "SQL_NO_DATA",
            [(IF h.eof \/ h.resultSet.left = 0 THEN h ELSE consume(h))
               EXCEPT !.eof = TRUE], h.rowCountPerFetch)
  /\ app' = IF h.rowCountPerFetch > 0 THEN take(app) ELSE app
  /\ dm'  = "fetched"
  /\ UNCHANGED srv

\* Mutant of FetchEnds: an empty rowset is no reason for SQL_NO_DATA.
FetchEndsEmpty ==
  /\ WantsRow
  /\ AtEnd(h)
  /\ Return("SQLFetch", sqlSuccess(h), [h EXCEPT !.eof = TRUE], h.rowCountPerFetch)
  /\ app' = IF h.rowCountPerFetch > 0 THEN take(app) ELSE app
  /\ dm'  = "fetched"
  /\ UNCHANGED srv

FetchEnds ==
  /\ WantsRow
  /\ AtEnd(h)
  /\ Return("SQLFetch",
            IF h.rowCountPerFetch > 0 THEN sqlSuccess(h) ELSE "SQL_NO_DATA",
            [h EXCEPT !.eof = TRUE], h.rowCountPerFetch)
  /\ app' = IF h.rowCountPerFetch > 0 THEN take(app) ELSE app
  /\ dm'  = "fetched"
  /\ UNCHANGED srv

FetchFull ==
  /\ pc = "SQLFetch"
  /\ h.rowCountPerFetch >= h.rowArraySize
  /\ Return("SQLFetch", sqlSuccess(h), h, h.rowCountPerFetch)
  /\ app' = take(app)
  /\ dm'  = "fetched"
  /\ UNCHANGED srv

\* sqlMoreResults clears no diagnostics.
SQLMoreResults ==
  LET found == h.statement # "none" /\ GivesResult(h, srv)
  IN  /\ MayRead
      /\ IF h.statement = "none"
         THEN Return("SQLMoreResults", "SQL_NO_DATA", h, 0) /\ srv' = srv
         ELSE /\ Return("SQLMoreResults",
                        IF found THEN sqlSuccess(h) ELSE "SQL_NO_DATA",
                        getResultSet(h, srv), 0)
              /\ srv' = afterGetResultSet(h, srv)
      /\ dm'  = IF found THEN "executed" ELSE Dormant(app.prepared)
      /\ app' = IF found THEN [NewCursor(app) EXCEPT !.cancelled = FALSE]
                ELSE [app EXCEPT !.fresh = FALSE]

-----------------------------------------------------------------------------
(***************************************************************************)
(* Closing, attributes and diagnostics.                                    *)
(***************************************************************************)
SQLCloseCursor ==
  /\ MayRead
  /\ Return("SQLCloseCursor", "SQL_SUCCESS", releaseResultSet(clearErrors(h)), 0)
  /\ dm' = Dormant(app.prepared)
  /\ UNCHANGED <<srv, app>>

\* SQLFreeStmt with SQL_CLOSE.
SQLFreeStmt ==
  /\ Idle
  /\ dm # "needData"
  /\ Return("SQLFreeStmt", "SQL_SUCCESS", releaseResultSet(clearErrors(h)), 0)
  /\ dm' = Dormant(app.prepared)
  /\ UNCHANGED <<srv, app>>

\* The application sets the row limit before it executes.
SetMaxRows(limit) ==
  /\ Idle
  /\ dm \in {"allocated", "prepared"}
  /\ Return("SQLSetStmtAttr", "SQL_SUCCESS",
            [clearErrors(h) EXCEPT !.maxRowsPerSelect = limit], 0)
  /\ UNCHANGED <<srv, dm, app>>

SetRowArraySize(size) ==
  /\ Idle
  /\ dm # "needData"
  /\ Return("SQLSetStmtAttr", "SQL_SUCCESS",
            [clearErrors(h) EXCEPT !.rowArraySize = size], 0)
  /\ UNCHANGED <<srv, dm, app>>

(***************************************************************************)
(* Asking a handle, and attributes it does not take: such a call leaves    *)
(* nothing but its records.                                                *)
(***************************************************************************)
Succeeds(call, s) == Return(call, sqlSuccess(s), s, 0)
Fails(call, s, d) == Return(call, "SQL_ERROR", postError(s, d), 0)

MayDescribe == Idle /\ dm \in {"prepared", "executed", "fetched"}

\* setString copies a name, whole or cut short.
copied(s) == {s, postError(s, "warning")}

\* sqlDescribeCol copies the name before it asks for what may fail.
SQLDescribeCol ==
  /\ MayDescribe
  /\ LET c == clearErrors(h)
     IN  \/ h.metaData = "none" /\ Fails("SQLDescribeCol", c, "noMetaData")
         \/ /\ h.metaData # "none"
            /\ \E s \in copied(c) : \/ Succeeds("SQLDescribeCol", s)
                                   \/ Fails("SQLDescribeCol", s, "error")
  /\ UNCHANGED <<srv, dm, app>>

\* sqlColAttribute and the older sqlColAttributes copy a name last, once the
\* database has answered and the field is one they know.
ColumnField(call) ==
  /\ MayDescribe
  /\ LET c == clearErrors(h)
     IN  \/ h.metaData = "none" /\ Fails(call, c, "noMetaData")
         \/ /\ h.metaData # "none"
            /\ (\E s \in copied(c) : Succeeds(call, s)) \/ Fails(call, c, "error")
  /\ UNCHANGED <<srv, dm, app>>

SQLColAttribute == ColumnField("SQLColAttribute")
SQLColAttributes == ColumnField("SQLColAttributes")

\* Without metadata there are no columns, which is no error.
SQLNumResultCols ==
  /\ MayDescribe
  /\ LET c == clearErrors(h)
     IN  \/ Succeeds("SQLNumResultCols", c)
         \/ h.metaData # "none" /\ Fails("SQLNumResultCols", c, "error")
  /\ UNCHANGED <<srv, dm, app>>

\* An attribute is handed out, or is none that sqlGetStmtAttr knows.
SQLGetStmtAttr ==
  /\ Idle
  /\ dm # "needData"
  /\ LET c == clearErrors(h)
     IN  Succeeds("SQLGetStmtAttr", c) \/ Fails("SQLGetStmtAttr", c, "error")
  /\ UNCHANGED <<srv, dm, app>>

\* A cursor type or a concurrency is replaced by the one there is, or the
\* attribute is none that sqlSetStmtAttr knows.
SetOtherAttribute ==
  /\ Idle
  /\ dm # "needData"
  /\ LET c == clearErrors(h)
     IN  \/ Succeeds("SQLSetStmtAttr", postError(c, "warning"))
         \/ Fails("SQLSetStmtAttr", c, "error")
  /\ UNCHANGED <<srv, dm, app>>

Asking ==
  \/ SQLDescribeCol
  \/ SQLColAttribute
  \/ SQLColAttributes
  \/ SQLNumResultCols
  \/ SQLGetStmtAttr
  \/ SetOtherAttribute

\* SQLError hands out the first record and forgets it.
SQLError ==
  /\ Idle
  /\ h.errors # << >>
  /\ Return("SQLError", "SQL_SUCCESS", [h EXCEPT !.errors = Tail(@)], 0)
  /\ UNCHANGED <<srv, dm, app>>

\* SQLCancel comes from a second thread whenever it likes.  A statement that
\* waits for data gives up waiting.
SQLCancel ==
  /\ h'   = [clearErrors(h) EXCEPT !.cancel = TRUE]
  /\ dm'  = IF dm = "needData" /\ Idle THEN "prepared" ELSE dm
  /\ app' = [app EXCEPT !.cancelled = TRUE]
  /\ ret' = NoOutcome
  /\ UNCHANGED <<srv, pc>>

-----------------------------------------------------------------------------
Prepare ==
  \/ \E kind \in Kinds : SQLPrepare(kind)
  \/ \E call \in {"SQLPrepare", "SQLExecDirect", "SQLCatalog"} : PrepareFails(call)

Execute ==
  \/ SQLExecute
  \/ SQLExecuteNeedsData
  \/ SQLExecuteBadParameter
  \/ \E kind \in Kinds : SQLExecDirect(kind)
  \/ \E kind \in Kinds : SQLExecDirectDropsResult(kind)
  \/ SQLParamData
  \/ \E n \in CatalogSizes : SQLCatalog(n)

ExecuteStep ==
  \/ /\ pc \in ExecuteCalls
     /\ \E answer \in Answers(h.statement), cut \in BOOLEAN :
          ExecuteReturns(answer, cut)
  \/ ExecuteThrows

Fetch ==
  \/ SQLFetchNoCursor
  \/ SQLFetchCanceled
  \/ SQLFetch

FetchStep ==
  \/ \E cut \in BOOLEAN : FetchRow(cut)
  \/ FetchRowFails
  \/ FetchThrows
  \/ FetchEnds
  \/ FetchFull

Other ==
  \/ SQLMoreResults
  \/ SQLCloseCursor
  \/ SQLFreeStmt
  \/ \E limit \in Limits : SetMaxRows(limit)
  \/ \E size \in ArraySizes : SetRowArraySize(size)
  \/ Asking
  \/ SQLError

Next == Prepare \/ Execute \/ ExecuteStep \/ Fetch \/ FetchStep \/ Other \/ SQLCancel

Spec == Init /\ [][Next]_vars

\* A call in progress runs to its end, and an application reading a cursor
\* calls SQLFetch again and again.
FairSpec == Spec /\ WF_vars(FetchStep \/ ExecuteStep) /\ WF_vars(Fetch)

-----------------------------------------------------------------------------
(***************************************************************************)
(* Properties.                                                             *)
(***************************************************************************)
\* Every variable has its type.
TypeOK ==
  /\ h \in Handles
  /\ srv \in Executions
  /\ pc \in ExecuteCalls \cup {"idle", "SQLFetch"}
  /\ dm \in {"allocated", "prepared", "needData", "executed", "fetched"}
  /\ app \in Applications
  /\ ret \in Outcomes

\* The cursor and the metadata a handle points to never outlive what owns
\* them: an open cursor belongs to a statement that is not closed (or to the
\* catalog), and the metadata are those of the cursor whenever there is one,
\* else those of a statement that is still there.  The client library owns the
\* objects; releaseStatement, setResultSet and getResultSet must keep the
\* pointers in step over every mix of executions, catalog calls and failures.
NoDanglingCursor ==
  /\ HasCursor(h) => h.resultSet.open
  /\ h.resultSet.owner \in {"statement", "keys"} => h.statement # "none"
  /\ h.metaData = "resultSet" <=> HasCursor(h)
  /\ h.metaData = "statement" => h.statement # "none"

\* Rows the current rowset already holds while sqlFetch is at work.
InRowset == IF pc = "SQLFetch" THEN h.rowCountPerFetch ELSE 0

\* No row is lost in silence: each row the database gave up through next() has
\* reached the application by way of *rowCountPerFetchPtr after a call that
\* succeeded, or was read by a call that returned SQL_ERROR, or is in the rowset
\* being fetched.  sqlFetch must look at eof and at the row limit before next().
NoRowLost ==
  HasCursor(h) => h.resultSet.size - h.resultSet.left = app.rows + app.lost + InRowset

\* A row limit holds for the cursor as the application sees it, whatever the
\* rowset size and however many results came before.
RowLimitHonoured ==
  HasCursor(h) /\ app.fresh /\ h.maxRowsPerSelect > 0
    => app.rows + InRowset <= h.maxRowsPerSelect

\* SQL_NO_DATA from SQLFetch on a cursor is the truth: the database has no more
\* rows for it, or the limit was reached on this cursor.  The cursors of catalog
\* functions are left out: they inherit rowCountPerSelect (see the README).
FetchSawNoData == ret.call = "SQLFetch" /\ ret.code = "SQL_NO_DATA" /\ Idle
AllRead ==
  \/ h.resultSet.left = 0
  \/ h.maxRowsPerSelect > 0 /\ app.rows + app.lost >= h.maxRowsPerSelect
NoDataIsTheEnd ==
  FetchSawNoData /\ HasCursor(h) /\ app.fresh /\ h.resultSet.owner # "catalog"
    => AllRead

\* A call that returns SQL_ERROR leaves the diagnostic record that explains it.
ErrorHasDiagnostic == ret.code = "SQL_ERROR" => ret.diag # << >>

\* A cancellation never hits a cursor opened after it: SQLFetch reports a cancel
\* only if SQLCancel was called since that cursor was opened.
CancelIsForThisCursor ==
  HasCursor(h) /\ h.cancel => app.cancelled

\* An application that reads a cursor to the end gets there: the loop calling
\* SQLFetch leaves it, by SQL_NO_DATA, an error, a close or another execution.
FetchLoopEnds ==
  (HasCursor(h) /\ dm \in {"executed", "fetched"})
    ~> \/ ~HasCursor(h)
       \/ dm \notin {"executed", "fetched"}
       \/ pc \in ExecuteCalls
       \/ ret.call = "SQLFetch" /\ ~Succeeded(ret.code)

\* SQLFetch that succeeds has delivered a row: sqlFetch must not take the
\* diagnostic of an earlier call for its own success.
SucceededFetchDelivers ==
  ret.call = "SQLFetch" /\ Succeeded(ret.code) => ret.delivered > 0

\* SQLExecDirect that succeeds has executed the statement: sqlExecuteDirect
\* must return what executeStatement does.
SucceededExecDirectExecuted ==
  ret.call = "SQLExecDirect" /\ Succeeded(ret.code) /\ Idle => srv.executed
=============================================================================
