------------------------------ MODULE TypeInfo ------------------------------
(***************************************************************************)
(* The cursors whose rows and values the driver changes on their way:      *)
(* SQLGetTypeInfo, SQLColumns and SQLProcedureColumns wrap the result of   *)
(* the database in a ResultSetMapper, which hides the rows a filter does   *)
(* not accept and maps the types of the database to those of ODBC.  The    *)
(* result of a query passes through the same sqlFetch without a mapper.    *)
(*                                                                         *)
(* The cursor of the database moves on by itself, so that one SQLFetch may *)
(* take many of its steps, and each may throw.  A row is told apart by its *)
(* place and its DATA_TYPE.  Rowsets and diagnostics are in OdbcStatement. *)
(***************************************************************************)
EXTENDS Integers, Sequences, FiniteSets

CONSTANTS
  Results,        \* results of the database: for each row its DATA_TYPE
  Asked,          \* the types applications ask SQLGetTypeInfo for
  Limits,         \* values of SQL_ATTR_MAX_ROWS, 0 is no limit
  DataTypeColumn, \* where findColumn finds DATA_TYPE
  ReuseWithLimit, \* whether an application reuses, for a catalog function under
                  \* a limit, a handle that has read rows since it last executed
  MaxCount        \* bound: rows a handle reads before it opens another cursor

\* The types of the database, and those of ODBC: two have another number.
SqlTypes == {"INTEGER", "VARCHAR", "BLOB", "CLOB", "LONGVARBINARY", "LONGVARCHAR"}

mapType(in) ==
  CASE in = "BLOB" -> "LONGVARBINARY"
    [] in = "CLOB" -> "LONGVARCHAR"
    [] OTHER -> in

OdbcTypes == {mapType(t) : t \in SqlTypes}

\* The getters of a result set by which setValue reads a type, and those of them
\* that OdbcTypeMapper overrides: GetMapper hands on what the others read.
Getters == {"getByte", "getShort", "getInt", "getLong", "getFloat", "getDouble", "getString"}
MappedGetters == {"getShort", "getInt", "getLong"}

ASSUME ResultsAssumption == Results \subseteq Seq(SqlTypes)
ASSUME AskedAssumption == Asked \subseteq OdbcTypes
ASSUME LimitsAssumption == Limits \subseteq Nat /\ 0 \in Limits
ASSUME ColumnAssumption == DataTypeColumn \in Nat \ {0}
ASSUME ApplicationAssumption == ReuseWithLimit \in BOOLEAN /\ MaxCount \in Nat

VARIABLES
  resultSet,         \* the cursor: its rows, what maps and filters them
  at,                \* how many rows of it next() has gone past, or is at
  eof, cancel,       \* flags of the statement
  maxRowsPerSelect,  \* SQL_ATTR_MAX_ROWS
  rowCountPerSelect, \* rows read since the last execution
  pc,                \* where sqlFetch is: it waits for next() or for accept()
  shown,             \* the places of the rows the application has seen
  missed,            \* those an error stands for
  answer,            \* what the last call answered
  read               \* what SQLGetData gave of DATA_TYPE in this row, by which getter

vars == <<resultSet, at, eof, cancel, maxRowsPerSelect, rowCountPerSelect, pc,
          shown, missed, answer, read>>
handle == <<resultSet, eof, cancel, maxRowsPerSelect, rowCountPerSelect>>

-----------------------------------------------------------------------------
AnyType == "SQL_ALL_TYPES"

\* A filter looks for its column when it first sees a row.
ResultSets ==
  [rows : Results, mapped : BOOLEAN, filter : Asked \cup {AnyType},
   colIndex : {-1, DataTypeColumn}]
NoResultSet == [rows |-> << >>, mapped |-> FALSE, filter |-> "none", colIndex |-> -1]
NoRead == [as |-> "nothing", type |-> "none"]

ResultSetMapper(rows, filter) ==
  [rows |-> rows, mapped |-> TRUE, filter |-> filter, colIndex |-> -1]
Plain(rows) ==
  [rows |-> rows, mapped |-> FALSE, filter |-> AnyType, colIndex |-> -1]

\* Mutant of accepts: a filter lets the row by which it finds its column.
acceptsFirst(rs, p) ==
  rs.filter = AnyType \/ rs.colIndex = -1 \/ rs.rows[p] = rs.filter

\* The filter compares what the database says, not what the mapper makes of it.
accepts(rs, p) == rs.filter = AnyType \/ rs.rows[p] = rs.filter

\* The type whose number a getter gives.  A number the database has for itself
\* may be too wide for a byte; those of ODBC all fit.
get(rs, p, getter) ==
  IF rs.mapped /\ getter \in MappedGetters THEN mapType(rs.rows[p]) ELSE rs.rows[p]

Row(rs) == 1 .. Len(rs.rows)
LimitReached == maxRowsPerSelect > 0 /\ rowCountPerSelect >= maxRowsPerSelect

Init ==
  /\ resultSet = NoResultSet
  /\ at = 0
  /\ eof = FALSE /\ cancel = FALSE
  /\ maxRowsPerSelect = 0 /\ rowCountPerSelect = 0
  /\ pc = "idle"
  /\ shown = {} /\ missed = {}
  /\ answer = "nothing"
  /\ read = NoRead

-----------------------------------------------------------------------------
(***************************************************************************)
(* Opening and closing.                                                    *)
(***************************************************************************)
\* Nothing of the cursor before is left, nor of what was read of it.
NewCursor(rs, said) ==
  /\ resultSet' = rs
  /\ at' = 0
  /\ shown' = {} /\ missed' = {}
  /\ read' = NoRead
  /\ answer' = said

releaseResultSet(said) ==
  /\ NewCursor(NoResultSet, said)
  /\ UNCHANGED <<eof, cancel, maxRowsPerSelect, rowCountPerSelect, pc>>

\* Mutant of setResultSet: a cursor begins where the one before it ended.
setResultSetAtEnd(rs) ==
  /\ NewCursor(rs, "nothing")
  /\ cancel' = FALSE
  /\ UNCHANGED <<eof, maxRowsPerSelect, rowCountPerSelect, pc>>

setResultSet(rs) ==
  /\ NewCursor(rs, "nothing")
  /\ eof' = FALSE /\ cancel' = FALSE
  /\ UNCHANGED <<maxRowsPerSelect, rowCountPerSelect, pc>>

\* An application that puts a limit to a catalog function does so on a handle
\* that counts from zero: only an execution starts the count again.
MayOpenCatalog ==
  /\ pc = "idle"
  /\ rowCountPerSelect <= MaxCount
  /\ maxRowsPerSelect = 0 \/ rowCountPerSelect = 0 \/ ReuseWithLimit

\* The database refuses, or has no column for the mapper: the cursor before is
\* gone all the same.
CatalogFails == releaseResultSet("error")

\* sqlColumns and sqlProcedureColumns map all the rows.
SQLColumns ==
  /\ MayOpenCatalog
  /\ \/ \E rows \in Results : setResultSet(ResultSetMapper(rows, AnyType))
     \/ CatalogFails

SQLGetTypeInfo(dataType) ==
  /\ MayOpenCatalog
  /\ \/ \E rows \in Results : setResultSet(ResultSetMapper(rows, dataType))
     \/ CatalogFails

\* A query: getResultSet also starts the count.
SQLExecDirect ==
  /\ pc = "idle"
  /\ \E rows \in Results : NewCursor(Plain(rows), "nothing")
  /\ eof' = FALSE /\ cancel' = FALSE
  /\ rowCountPerSelect' = 0
  /\ UNCHANGED <<maxRowsPerSelect, pc>>

SQLCloseCursor ==
  /\ pc = "idle"
  /\ resultSet # NoResultSet
  /\ releaseResultSet("nothing")

\* The application sets the limit before it opens a cursor.
SQLSetStmtAttr(n) ==
  /\ pc = "idle"
  /\ resultSet = NoResultSet
  /\ n # maxRowsPerSelect
  /\ maxRowsPerSelect' = n
  /\ answer' = "nothing"
  /\ UNCHANGED <<resultSet, at, eof, cancel, rowCountPerSelect, pc, shown, missed, read>>

\* From a second thread, at any time.
SQLCancel ==
  /\ resultSet # NoResultSet
  /\ ~cancel
  /\ cancel' = TRUE
  /\ UNCHANGED <<resultSet, at, eof, maxRowsPerSelect, rowCountPerSelect, pc,
                 shown, missed, answer, read>>

-----------------------------------------------------------------------------
(***************************************************************************)
(* SQLFetch, a row at a time, and the loop of ResultSetMapper::next.       *)
(***************************************************************************)
Answer(said) ==
  /\ answer' = said
  /\ pc' = "idle"

NoMoreData ==
  /\ Answer("end")
  /\ eof' = TRUE
  /\ UNCHANGED <<resultSet, cancel, maxRowsPerSelect, rowCountPerSelect, shown, missed>>

SQLFetch ==
  /\ pc = "idle"
  /\ resultSet # NoResultSet
  /\ \/ cancel /\ releaseResultSet("error")
     \/ /\ ~cancel
        /\ read' = NoRead
        /\ at' = at
        /\ \/ (eof \/ LimitReached) /\ NoMoreData
           \/ /\ ~eof /\ ~LimitReached
              /\ pc' = "next"
              /\ UNCHANGED <<handle, shown, missed, answer>>

\* The row the cursor is at goes to the application.
Deliver(p) ==
  /\ Answer("row")
  /\ shown' = shown \cup {p}
  /\ rowCountPerSelect' = rowCountPerSelect + 1
  /\ UNCHANGED <<eof, cancel, maxRowsPerSelect, missed>>

\* Mutant of NextOfBase: the loop does not ask for another row.
NextOfBaseStays ==
  /\ pc = "next"
  /\ read' = read
  /\ \/ /\ at < Len(resultSet.rows)
        /\ at' = IF at = 0 THEN 1 ELSE at
        /\ pc' = "accept"
        /\ UNCHANGED <<handle, shown, missed, answer>>
     \/ /\ at = Len(resultSet.rows)
        /\ at' = at
        /\ NoMoreData

\* base->next(): a row, which the filter is to see, or the end.
NextOfBase ==
  /\ pc = "next"
  /\ read' = read
  /\ \/ /\ at < Len(resultSet.rows)
        /\ at' = at + 1
        /\ pc' = "accept"
        /\ UNCHANGED <<handle, shown, missed, answer>>
     \/ /\ at = Len(resultSet.rows)
        /\ at' = at
        /\ NoMoreData

\* rowFilter->accept(base): the row is shown, or the loop goes on.  Without a
\* filter nothing is asked.
Accept ==
  /\ pc = "accept"
  /\ resultSet' = [resultSet EXCEPT !.colIndex = IF resultSet.filter = AnyType
                                                 THEN @ ELSE DataTypeColumn]
  /\ \/ accepts(resultSet, at) /\ Deliver(at)
     \/ /\ ~accepts(resultSet, at)
        /\ pc' = "next"
        /\ UNCHANGED <<eof, cancel, maxRowsPerSelect, rowCountPerSelect,
                       shown, missed, answer>>
  /\ UNCHANGED <<at, read>>

\* base->next(), findColumn or getInt throws.  A row that the filter was looking
\* at is behind the cursor, and nobody will see it.
Throws ==
  /\ \/ pc = "next" /\ missed' = missed
     \/ /\ pc = "accept" /\ resultSet.filter # AnyType
        /\ missed' = IF accepts(resultSet, at) THEN missed \cup {at} ELSE missed
  /\ Answer("error")
  /\ UNCHANGED <<handle, at, shown, read>>

\* SQLGetData of DATA_TYPE in the row of the last fetch, as text or any number.
SQLGetData ==
  /\ pc = "idle"
  /\ answer = "row"
  /\ read' \in {[as |-> getter, type |-> get(resultSet, at, getter)] : getter \in Getters}
  /\ UNCHANGED <<handle, at, pc, shown, missed, answer>>

-----------------------------------------------------------------------------
Next ==
  \/ \E t \in Asked \cup {AnyType} : SQLGetTypeInfo(t)
  \/ SQLColumns
  \/ SQLExecDirect
  \/ SQLCloseCursor
  \/ \E n \in Limits : SQLSetStmtAttr(n)
  \/ SQLCancel
  \/ SQLFetch
  \/ NextOfBase
  \/ Accept
  \/ Throws
  \/ SQLGetData

Spec == Init /\ [][Next]_vars

\* A call the database answers goes on.
FairSpec == Spec /\ WF_vars(NextOfBase) /\ WF_vars(Accept)

-----------------------------------------------------------------------------
(***************************************************************************)
(* Properties.                                                             *)
(***************************************************************************)
\* Every variable has its type.
TypeOK ==
  /\ resultSet \in ResultSets \cup {NoResultSet}
  /\ at \in 0 .. Len(resultSet.rows)
  /\ eof \in BOOLEAN /\ cancel \in BOOLEAN
  /\ maxRowsPerSelect \in Limits
  /\ rowCountPerSelect \in Nat
  /\ pc \in {"idle", "next", "accept"}
  /\ shown \subseteq Row(resultSet) /\ missed \subseteq Row(resultSet)
  /\ answer \in {"nothing", "row", "end", "error"}
  /\ read \in [as : Getters \cup {"nothing"}, type : SqlTypes \cup {"none"}]

\* What a mapped cursor calls a type, read as an integer of two bytes or more, is a
\* type of ODBC; and every row of SQLGetTypeInfo for one type is of that type, by
\* whichever getter it is read, although the filter looks at the database's number,
\* three of the getters map it and four do not.
AskedIsSeen ==
  /\ resultSet.mapped /\ read.as \in MappedGetters => read.type \in OdbcTypes
  /\ resultSet.filter # AnyType /\ read # NoRead => read.type = resultSet.filter

\* The rows a cursor is for: those of the type the application asked for.
Wanted == {p \in Row(resultSet) : resultSet.filter \in {AnyType, resultSet.rows[p]}}
PlacesOf == UNION {1 .. Len(rows) : rows \in Results}

Cursor == INSTANCE FilteredCursor WITH
  Places <- PlacesOf,
  wanted <- Wanted,
  limit  <- maxRowsPerSelect,
  said   <- answer

\* The cursors implement FilteredCursor: of the rows of the wanted type none is
\* left out, shown twice or out of order, whatever the filter skips, next() and
\* accept() throw, a cancel or a limit cuts short, and other cursors did before.
FilteredSpec == Cursor!Spec

\* SQLFetch returns, however many rows the filter hides: the loop in next() takes
\* a row of the database each time round.
FetchReturns == pc # "idle" ~> pc = "idle"
=============================================================================
