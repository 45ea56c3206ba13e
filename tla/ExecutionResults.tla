--------------------------- MODULE ExecutionResults ---------------------------
(***************************************************************************)
(* What a statement handle writes into the memory of the application: the  *)
(* output parameters and the row count of an execution, and the arrays of  *)
(* a fetch by rowset, which are the values, their indicators, the status   *)
(* of each row and the number of rows.                                     *)
(*                                                                         *)
(* Executions are numbered, and a value is told apart by the execution it  *)
(* comes from; a row by its place in the cursor.  Each call is one step:   *)
(* what comes between the steps of a call, generated keys, row limits and  *)
(* the codes of the calls are in OdbcStatement, and how a value is cut in  *)
(* pieces is in GetData.                                                   *)
(***************************************************************************)
EXTENDS Integers, FiniteSets

CONSTANTS
  Procedures,     \* numbers of result sets a procedure may return
  Queries,        \* the same for any other text
  Sizes,          \* numbers of rows of a result set
  ArraySizes,     \* values of SQL_ATTR_ROW_ARRAY_SIZE
  MaxArray,       \* elements in each array of the application
  Tidy,           \* whether an application closes what it read before it executes
  NullIndicators, \* whether it binds without indicators for several rows by column
  MaxExecuted     \* bound: executions of a handle

ASSUME CountsAssumption == Procedures \cup Queries \cup Sizes \subseteq Nat
ASSUME ArraySizesAssumption ==
  MaxArray \in Nat /\ ArraySizes \subseteq 1 .. MaxArray /\ 1 \in ArraySizes
ASSUME ApplicationAssumption ==
  Tidy \in BOOLEAN /\ NullIndicators \in BOOLEAN /\ MaxExecuted \in Nat

VARIABLES
  statement,   \* what is prepared: whether it is a procedure, how many sets it returns
  executed,    \* how often the database has executed something for this handle
  sets,        \* result sets of the last execution still at the database
  resultSet,   \* the cursor: whose it is, its rows, and how far it was read
  eof,         \* the flag of the statement
  rowCount,    \* the execution whose count the statement keeps, or None
  binding,     \* rowSize, rowArraySize, and whether there is an indicator
  dm,          \* the state of the handle for the driver manager
  unread,      \* whether the application has not closed what it began to read
  memory,      \* of the application
  answer       \* what the last call said: also the row before its rowset, a row count

driver == <<statement, sets, resultSet, eof, rowCount>>
vars == <<statement, executed, sets, resultSet, eof, rowCount, binding,
          dm, unread, memory, answer>>

-----------------------------------------------------------------------------
Elements == 0 .. MaxArray - 1
None == -1

Texts == [callable : {TRUE}, sets : Procedures] \cup [callable : {FALSE}, sets : Queries]
NoText == [callable |-> FALSE, sets |-> 0]
NoStatement == [text |-> NoText, open |-> FALSE]
NoCursor == [of |-> None, rows |-> 0, at |-> 0]
NoRows == [i \in Elements |-> 0]
HasCursor == resultSet # NoCursor

\* out is the execution whose output the buffer holds; value and indicator the rows
\* in the elements of the arrays; stray says something else was written to.
Memory ==
  [out : Nat, value : [Elements -> Nat], indicator : [Elements -> Nat],
   status : [Elements -> {"nothing", "SQL_NO_DATA", "SQL_ROW_SUCCESS"}],
   fetched : Nat, stray : BOOLEAN]

Said(call, code) == [call |-> call, code |-> code, before |-> 0, told |-> None]

Init ==
  /\ statement = NoStatement
  /\ executed = 0 /\ sets = 0
  /\ resultSet = NoCursor
  /\ eof = FALSE
  /\ rowCount = None
  /\ binding = [rowSize |-> "column", rowArraySize |-> 1, indicator |-> TRUE]
  /\ dm = "allocated"
  /\ unread = FALSE
  /\ memory = [out |-> 0, value |-> NoRows, indicator |-> NoRows,
               status |-> [i \in Elements |-> "nothing"], fetched |-> 0, stray |-> FALSE]
  /\ answer = Said("none", "SQL_SUCCESS")

-----------------------------------------------------------------------------
(***************************************************************************)
(* Preparing and executing.                                                *)
(***************************************************************************)
\* The driver manager refuses while it believes a cursor open.
MayExecute == dm # "cursor" /\ (Tidy => ~unread)

\* releaseStatement, with the cursor, and then the new statement or none.
SQLPrepare ==
  /\ MayExecute
  /\ resultSet' = NoCursor
  /\ \/ \E text \in Texts :
          /\ statement' = [text |-> text, open |-> TRUE]
          /\ dm' = "prepared"
          /\ answer' = Said("SQLPrepare", "SQL_SUCCESS")
     \/ /\ statement' = NoStatement
        /\ dm' = "allocated"
        /\ answer' = Said("SQLPrepare", "SQL_ERROR")
  /\ unread' = FALSE
  /\ UNCHANGED <<executed, sets, eof, rowCount, binding, memory>>

\* A catalog function: the statement goes, and the cursor belongs to none.
SQLTables ==
  /\ MayExecute
  /\ statement' = NoStatement
  /\ \/ /\ \E n \in Sizes : resultSet' = [of |-> 0, rows |-> n, at |-> 0]
        /\ eof' = FALSE
        /\ dm' = "cursor" /\ unread' = TRUE
        /\ answer' = Said("SQLTables", "SQL_SUCCESS")
     \/ /\ resultSet' = NoCursor
        /\ eof' = eof
        /\ dm' = "allocated" /\ unread' = FALSE
        /\ answer' = Said("SQLTables", "SQL_ERROR")
  /\ UNCHANGED <<executed, sets, rowCount, binding, memory>>

\* The first result set of the n-th execution, or the next: where there is none the
\* cursor stays, but its end is forgotten.
getResultSet(n, left) ==
  /\ eof' = FALSE
  /\ IF left = 0
     THEN resultSet' = resultSet /\ sets' = 0
     ELSE /\ sets' = left - 1
          /\ \E rows \in Sizes : resultSet' = [of |-> n, rows |-> rows, at |-> 0]

\* Mutant of outputs: they are read after getResultSet, where the first row of its
\* cursor was not fetched yet.
outputsAfter(n) == IF HasCursor \/ statement.text.sets > 0 THEN 0 ELSE n

\* Where setValue takes the outputs of the n-th execution from: an open cursor goes
\* before the procedure.
outputs(n) == IF HasCursor THEN resultSet.of ELSE n

\* The part of doExecuteStatement up to the row count.  An output that cannot be
\* converted is only a diagnostic.
outputsSet(code) ==
  \/ /\ code = "SQL_SUCCESS"
     /\ memory' = IF statement.text.callable
                  THEN [memory EXCEPT !.out = outputs(executed + 1)] ELSE memory
  \/ /\ code = "SQL_SUCCESS_WITH_INFO"
     /\ statement.text.callable
     /\ memory' = memory

\* The database refuses, and nothing changes; or it throws in getResultSet, after
\* the outputs.
SQLExecuteFails ==
  /\ MayExecute
  /\ statement.open
  /\ \/ UNCHANGED <<executed, sets, eof, rowCount, memory>>
     \/ /\ executed < MaxExecuted
        /\ statement.text.sets > 0
        /\ executed' = executed + 1
        /\ \E code \in {"SQL_SUCCESS", "SQL_SUCCESS_WITH_INFO"} : outputsSet(code)
        /\ rowCount' = executed + 1
        /\ eof' = FALSE /\ sets' = 0
  /\ dm' = "prepared"
  /\ answer' = Said("SQLExecute", "SQL_ERROR")
  /\ UNCHANGED <<statement, resultSet, binding, unread>>

\* doExecuteStatement.
SQLExecute ==
  /\ MayExecute
  /\ statement.open
  /\ executed < MaxExecuted
  /\ executed' = executed + 1
  /\ \E code \in {"SQL_SUCCESS", "SQL_SUCCESS_WITH_INFO"} :
       outputsSet(code) /\ answer' = Said("SQLExecute", code)
  /\ rowCount' = executed + 1
  /\ IF statement.text.sets > 0
     THEN /\ getResultSet(executed + 1, statement.text.sets)
          /\ dm' = "cursor" /\ unread' = TRUE
     ELSE /\ dm' = "executed" /\ sets' = 0
          /\ UNCHANGED <<resultSet, eof, unread>>
  /\ UNCHANGED <<statement, binding>>

\* sqlMoreResults: the driver manager takes SQL_NO_DATA for the end of the cursor.
SQLMoreResults ==
  /\ dm = "cursor"
  /\ IF statement.open
     THEN getResultSet(executed, sets)
     ELSE UNCHANGED <<eof, resultSet, sets>>
  /\ IF statement.open /\ sets > 0
     THEN dm' = dm /\ answer' = Said("SQLMoreResults", "SQL_SUCCESS")
     ELSE /\ dm' = IF statement.open THEN "prepared" ELSE "allocated"
          /\ answer' = Said("SQLMoreResults", "SQL_NO_DATA")
  /\ UNCHANGED <<statement, executed, rowCount, binding, unread, memory>>

\* sqlRowCount gives a count away.
SQLRowCount ==
  /\ dm \in {"executed", "cursor"}
  /\ answer' = [Said("SQLRowCount", "SQL_SUCCESS") EXCEPT !.told = IF statement.open
                                                                   THEN rowCount ELSE 0]
  /\ rowCount' = IF statement.open THEN None ELSE rowCount
  /\ UNCHANGED <<statement, executed, sets, resultSet, eof, binding, dm, unread, memory>>

\* SQLFreeStmt with SQL_CLOSE, which the driver manager always lets pass.  The
\* application is through with its rows, and wipes its arrays of values.
SQLFreeStmtClose ==
  /\ resultSet' = NoCursor
  /\ unread' = FALSE
  /\ dm' = IF dm = "allocated" \/ ~statement.open THEN "allocated" ELSE "prepared"
  /\ answer' = Said("SQLFreeStmt", "SQL_SUCCESS")
  /\ memory' = [memory EXCEPT !.value = NoRows, !.indicator = NoRows]
  /\ UNCHANGED <<statement, executed, sets, eof, rowCount, binding>>

-----------------------------------------------------------------------------
(***************************************************************************)
(* Fetching by rowset.                                                     *)
(***************************************************************************)
\* SQLSetStmtAttr and SQLBindCol, between the calls that fetch.
Bind(b) ==
  /\ dm \in {"prepared", "cursor"}
  /\ b # binding
  /\ b.indicator \/ b.rowArraySize = 1 \/ b.rowSize = "row" \/ NullIndicators
  /\ binding' = b
  /\ answer' = Said("SQLSetStmtAttr", "SQL_SUCCESS")
  /\ UNCHANGED <<driver, executed, dm, unread, memory>>

\* Mutant of rowset: the states of the rowset before are left in the array.
rowsetUncleared(n, m) ==
  [m EXCEPT !.status = [i \in Elements |-> IF i < n THEN "SQL_ROW_SUCCESS" ELSE @[i]],
            !.fetched = IF n > 0 THEN n ELSE @]

\* The states are cleared first and set row by row, as the number of rows is.
rowset(n, m) ==
  [m EXCEPT !.status = [i \in Elements |->
                          CASE i < n -> "SQL_ROW_SUCCESS"
                            [] i >= n /\ i < binding.rowArraySize -> "SQL_NO_DATA"
                            [] OTHER -> @[i]],
            !.fetched = IF n > 0 THEN n ELSE @]

\* setValue of the first n elements: by column the place of an indicator is counted
\* from its pointer, also from a null one, which is taken for none in element 0 only.
setValues(n, m) ==
  [m EXCEPT !.value = [i \in Elements |-> IF i < n THEN resultSet.at + i + 1 ELSE @[i]],
            !.indicator = [i \in Elements |-> IF i < n /\ binding.indicator
                                              THEN resultSet.at + i + 1 ELSE @[i]],
            !.stray = @ \/ (binding.rowSize = "column" /\ ~binding.indicator /\ n > 1)]

Fetched(n, code, read) ==
  /\ answer' = [Said("SQLFetch", code) EXCEPT !.before = resultSet.at]
  /\ memory' = rowset(n, setValues(n, memory))
  /\ resultSet' = [resultSet EXCEPT !.at = @ + read]
  /\ UNCHANGED <<statement, executed, sets, rowCount, binding, dm, unread>>

Left == resultSet.rows - resultSet.at

\* The rows run out, the rowset is full, next() throws, or a column of the row after
\* the n-th cannot be converted: that row is gone.
SQLFetch ==
  /\ dm = "cursor"
  /\ HasCursor
  /\ \E n \in 0 .. binding.rowArraySize :
       \/ /\ n < binding.rowArraySize
          /\ n = IF eof THEN 0 ELSE Left
          /\ eof' = TRUE
          /\ Fetched(n, IF n > 0 THEN "SQL_SUCCESS" ELSE "SQL_NO_DATA", n)
       \/ /\ ~eof /\ n = binding.rowArraySize /\ n <= Left
          /\ eof' = eof
          /\ Fetched(n, "SQL_SUCCESS", n)
       \/ /\ ~eof /\ n < binding.rowArraySize /\ n <= Left
          /\ eof' = eof
          /\ Fetched(n, "SQL_ERROR", n)
       \/ /\ ~eof /\ n < binding.rowArraySize /\ n < Left
          /\ eof' = eof
          /\ Fetched(n, "SQL_ERROR", n + 1)

-----------------------------------------------------------------------------
Next ==
  \/ SQLPrepare
  \/ SQLTables
  \/ SQLExecute \/ SQLExecuteFails
  \/ SQLMoreResults
  \/ SQLRowCount
  \/ SQLFreeStmtClose
  \/ \E layout \in {"column", "row"}, size \in ArraySizes, i \in BOOLEAN :
       Bind([rowSize |-> layout, rowArraySize |-> size, indicator |-> i])
  \/ SQLFetch

Spec == Init /\ [][Next]_vars

-----------------------------------------------------------------------------
(***************************************************************************)
(* Properties.                                                             *)
(***************************************************************************)
\* Every variable has its type.
TypeOK ==
  /\ statement \in [text : Texts \cup {NoText}, open : BOOLEAN]
  /\ executed \in 0 .. MaxExecuted
  /\ sets \in Nat
  /\ resultSet \in [of : Nat, rows : Nat, at : Nat] \cup {NoCursor}
  /\ resultSet.at <= resultSet.rows
  /\ eof \in BOOLEAN
  /\ rowCount \in Nat \cup {None}
  /\ binding \in [rowSize : {"column", "row"}, rowArraySize : ArraySizes, indicator : BOOLEAN]
  /\ dm \in {"allocated", "prepared", "executed", "cursor"}
  /\ unread \in BOOLEAN
  /\ memory \in Memory

\* What an execution hands out is its own: the output parameters of a procedure that
\* succeeded are of this call, a row count is of the latest execution or was given
\* away before, and the rows a fetch delivers are of the latest execution or of the
\* catalog, whatever the handle executed and read before.
HandedOutIsOfThis ==
  /\ answer.call = "SQLExecute" /\ answer.code = "SQL_SUCCESS" /\ statement.text.callable
       => memory.out = executed
  /\ answer.call = "SQLRowCount" => answer.told \in {executed, None, 0}
  /\ answer.call = "SQLFetch" => resultSet.of \in {executed, 0}

\* After any SQLFetch, one that failed in the middle too, the array of states tells
\* which elements hold rows of this rowset: they come first, they are the rows that
\* follow the rowset before, each with its value and its indicator, and a fetch that
\* succeeded counts them.  Nothing else is written to.
StatesTellRows ==
  answer.call = "SQLFetch" =>
    LET got == {i \in 0 .. binding.rowArraySize - 1 : memory.status[i] = "SQL_ROW_SUCCESS"}
    IN  /\ got = 0 .. Cardinality(got) - 1
        /\ answer.before + Cardinality(got) <= resultSet.at
        /\ \A i \in got :
             /\ memory.value[i] = answer.before + i + 1
             /\ binding.indicator => memory.indicator[i] = answer.before + i + 1
        /\ answer.code = "SQL_SUCCESS" => memory.fetched = Cardinality(got) /\ got # {}
        /\ answer.code = "SQL_NO_DATA" => got = {}
        /\ ~memory.stray
=============================================================================
