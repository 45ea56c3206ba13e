------------------------------- MODULE GetData -------------------------------
(***************************************************************************)
(* Reading the columns of a row: OdbcStatement::sqlGetData, which may      *)
(* deliver a value in several pieces, and the bound columns that sqlFetch  *)
(* delivers with each row.  Both go through setValue, which keeps in a     *)
(* Binding how far it is (offset) and how often it was asked (count).      *)
(*                                                                         *)
(* The driver reports SQL_GETDATA_EXTENSIONS as 0, so an application reads *)
(* the columns of a row from left to right.  It reads a column with one C  *)
(* type, and offers wide characters an even number of bytes.               *)
(***************************************************************************)
EXTENDS Integers, Sequences

CONSTANTS
  NumColumns, \* columns of the result
  CType,      \* the C type the application asks of each column
  Lengths,    \* lengths of the values of each column, in bytes of that type
  Buffers,    \* lengths of the buffers it offers for each column
  Bound,      \* columns bound by SQLBindCol, and the lengths of their buffers
  Probes      \* when it may offer a buffer that holds no data: "first", "any"

Columns == 1 .. NumColumns

ASSUME NumColumnsAssumption == NumColumns \in Nat \ {0}
ASSUME CTypeAssumption == CType \in [Columns -> {"char", "wide", "binary", "fixed"}]
ASSUME LengthsAssumption ==
  /\ Lengths \in [Columns -> SUBSET Nat]
  /\ Buffers \in [Columns -> SUBSET Nat]
  /\ Bound \in [Columns -> Nat \cup {-1}]
ASSUME ProbesAssumption == Probes \in {"first", "any"}

VARIABLES
  row,             \* the row the cursor stands on
  getDataBindings, \* how far SQLGetData is with each column: a vector
  fetchBindings,   \* the same for the bound columns, in sqlFetch
  app,             \* the column the application is at, what it has of each,
                   \* and what sqlFetch put into its bound buffers
  ret              \* the last call that returned

vars == <<row, getDataBindings, fetchBindings, app, ret>>

-----------------------------------------------------------------------------
(***************************************************************************)
(* Values and bindings.                                                    *)
(***************************************************************************)
Long(c) == CType[c] # "fixed"

\* A null reads as an empty value, with an indicator of its own.
ValuesOf(c) == [null : BOOLEAN, length : Lengths[c]]
RowValues == {r \in [Columns -> [null : BOOLEAN, length : UNION {Lengths[c] : c \in Columns}]] :
                \A c \in Columns : /\ r[c] \in ValuesOf(c)
                                   /\ r[c].null => r[c].length = 0}
NoRow == << >>

\* The code tests count only for zero: 1 stands for every other count.
Binding == [offset : Nat, count : 0 .. 1]
Fresh == [offset |-> 0, count |-> 0]
reset(bindings) == [c \in DOMAIN bindings |-> Fresh]

\* Mutant of alloc: one binding too many.
allocOneMore(bindings, n) ==
  [c \in 1 .. n + 1 |-> IF c <= Len(bindings) THEN bindings[c] ELSE Fresh]

\* vector::resize, which drops what is behind the new end.
alloc(bindings, n) ==
  [c \in 1 .. n |-> IF c <= Len(bindings) THEN bindings[c] ELSE Fresh]

\* The bytes a buffer of this C type needs beside the data.
Terminator == [char |-> 1, wide |-> 2, binary |-> 0, fixed |-> 0]

Lesser(a, b) == IF a <= b THEN a ELSE b

\* maxlen: what setValue copies of a value into the buffer.
room(c, buffer) == buffer - Terminator[CType[c]]
left(b, v) == v.length - b.offset
maxlen(c, b, v, buffer) ==
  IF left(b, v) <= 0 \/ room(c, buffer) < 0 THEN 0
  ELSE Lesser(room(c, buffer), left(b, v))

\* setValue posts 01004, data truncated.
truncated(c, b, v, buffer) ==
  left(b, v) > 0 /\ room(c, buffer) >= 0 /\ maxlen(c, b, v, buffer) # left(b, v)

\* The end of the value was reached before: nothing to copy, and not for the
\* first time.
exhausted(c, b, v, buffer) ==
  Long(c) /\ ~v.null /\ maxlen(c, b, v, buffer) = 0 /\ b.count > 0

\* Mutant of setValue: the position is not moved by what was copied.
setValueStands(c, b, v, buffer) ==
  IF exhausted(c, b, v, buffer) THEN Fresh
  ELSE [offset |-> b.offset, count |-> IF v.null THEN b.count ELSE 1]

\* Mutant of setValue: the end of a value is not noted, and read again and again.
setValueForgetsCount(c, b, v, buffer) ==
  IF exhausted(c, b, v, buffer) THEN Fresh
  ELSE [offset |-> IF Long(c) THEN b.offset + maxlen(c, b, v, buffer) ELSE b.offset,
        count  |-> b.count]

\* The binding after setValue.
setValue(c, b, v, buffer) ==
  IF exhausted(c, b, v, buffer) THEN Fresh
  ELSE [offset |-> IF Long(c) THEN b.offset + maxlen(c, b, v, buffer) ELSE b.offset,
        count  |-> IF v.null THEN b.count ELSE 1]

\* The code of setValue for SQLGetData, which starts without diagnostics.
\* Mutant of code: a truncated piece goes unreported.
codeUntold(c, b, v, buffer) ==
  IF exhausted(c, b, v, buffer) THEN "SQL_NO_DATA" ELSE "SQL_SUCCESS"

code(c, b, v, buffer) ==
  IF Long(c) /\ truncated(c, b, v, buffer) THEN "SQL_SUCCESS_WITH_INFO"
  ELSE IF exhausted(c, b, v, buffer) THEN "SQL_NO_DATA" ELSE "SQL_SUCCESS"

-----------------------------------------------------------------------------
(***************************************************************************)
(* The calls.                                                              *)
(***************************************************************************)
NoPiece == [from |-> 0, bytes |-> 0]
NewRow(a) == [a EXCEPT !.column = 1, !.got = [c \in Columns |-> 0]]
Answer(call, c, result, from, bytes) ==
  ret' = [call |-> call, column |-> c, code |-> result, from |-> from, bytes |-> bytes]

Init ==
  /\ row = NoRow
  /\ getDataBindings = << >>
  /\ fetchBindings = [c \in Columns |-> Fresh]
  /\ app = [column |-> 1, got |-> [c \in Columns |-> 0],
            bound |-> [c \in Columns |-> NoPiece]]
  /\ ret = [call |-> "SQLFreeStmt", column |-> 1, code |-> "SQL_SUCCESS", from |-> 0,
            bytes |-> 0]

BoundColumns == {c \in Columns : Bound[c] >= 0}

\* sqlFetch puts a row into the bound buffers, each column from its binding.
bound(r, bindings) ==
  [c \in Columns |->
     IF c \in BoundColumns
     THEN [from |-> bindings[c].offset,
           bytes |-> maxlen(c, bindings[c], r[c], Bound[c])]
     ELSE NoPiece]
boundBindings(r, bindings) ==
  [c \in Columns |->
     IF c \in BoundColumns THEN setValue(c, bindings[c], r[c], Bound[c])
     ELSE bindings[c]]

\* Mutant of SQLFetch: the positions of the row before are kept.
SQLFetchKeepsPositions(r) ==
  /\ row' = r
  /\ fetchBindings' = boundBindings(r, fetchBindings)
  /\ UNCHANGED getDataBindings
  /\ app' = [NewRow(app) EXCEPT !.bound = bound(r, fetchBindings)]
  /\ Answer("SQLFetch", 1, "SQL_SUCCESS", 0, 0)

\* The next row: the bound columns are delivered from their start, and SQLGetData
\* starts over.
SQLFetch(r) ==
  LET fresh == reset(fetchBindings)
  IN  /\ row' = r
      /\ fetchBindings' = boundBindings(r, fresh)
      /\ getDataBindings' = reset(getDataBindings)
      /\ app' = [NewRow(app) EXCEPT !.bound = bound(r, fresh)]
      /\ Answer("SQLFetch", 1, "SQL_SUCCESS", 0, 0)

\* No more rows, or a bound column that cannot be converted: SQLGetData does not
\* start over, and the application reads nothing before another fetch succeeds.
SQLFetchFails(result) ==
  /\ row' = NoRow
  /\ fetchBindings' \in {fetchBindings, reset(fetchBindings)}
  /\ app' = NewRow(app)
  /\ Answer("SQLFetch", 1, result, 0, 0)
  /\ UNCHANGED getDataBindings

\* The cursor is closed: releaseResultSet.
CloseCursor ==
  /\ row' = NoRow
  /\ getDataBindings' = << >>
  /\ app' = NewRow(app)
  /\ Answer("SQLFreeStmt", 1, "SQL_SUCCESS", 0, 0)
  /\ UNCHANGED fetchBindings

\* SQLGetData delivered of column c before, in this row.
asked(c) == c \in DOMAIN getDataBindings /\ getDataBindings[c].count > 0

\* The application reads on to the right, and may look for the length of a
\* value by a buffer that has room for none of it.
MayGetData(c, buffer) ==
  /\ row # NoRow
  /\ c >= app.column
  /\ buffer \in Buffers[c]
  /\ room(c, buffer) >= 0
  /\ Long(c) /\ room(c, buffer) = 0 /\ Probes = "first"
       => ~asked(c)

\* What the application has of a value: the pieces one after another, and
\* nothing once it was told of the end.
received(got, c, result, bytes) ==
  IF result = "SQL_NO_DATA" THEN [got EXCEPT ![c] = 0] ELSE [got EXCEPT ![c] = @ + bytes]

SQLGetData(c, buffer) ==
  LET bindings == alloc(getDataBindings, c)
      b == bindings[c]
      v == row[c]
      result == code(c, b, v, buffer)
      bytes == IF Long(c) THEN maxlen(c, b, v, buffer) ELSE 0
  IN  /\ MayGetData(c, buffer)
      /\ getDataBindings' = [bindings EXCEPT ![c] = setValue(c, b, v, buffer)]
      /\ app' = [app EXCEPT !.column = c, !.got = received(@, c, result, bytes)]
      /\ Answer("SQLGetData", c, result, b.offset, bytes)
      /\ UNCHANGED <<row, fetchBindings>>

-----------------------------------------------------------------------------
Next ==
  \/ \E r \in RowValues : SQLFetch(r)
  \/ \E result \in {"SQL_NO_DATA", "SQL_ERROR"} : SQLFetchFails(result)
  \/ CloseCursor
  \/ \E c \in Columns : \E buffer \in Buffers[c] : SQLGetData(c, buffer)

Spec == Init /\ [][Next]_vars

\* An application reading a column goes on with a buffer that holds data.
ReadOn ==
  \E buffer \in Buffers[app.column] :
    room(app.column, buffer) > 0 /\ SQLGetData(app.column, buffer)
FairSpec == Spec /\ WF_vars(ReadOn)

-----------------------------------------------------------------------------
(***************************************************************************)
(* Properties.                                                             *)
(***************************************************************************)
\* Every variable has its type.
TypeOK ==
  /\ row \in RowValues \cup {NoRow}
  /\ getDataBindings \in Seq(Binding) /\ Len(getDataBindings) <= NumColumns
  /\ fetchBindings \in [Columns -> Binding]
  /\ app \in [column : Columns, got : [Columns -> Nat],
              bound : [Columns -> [from : Nat, bytes : Nat]]]
  /\ ret \in [call : {"SQLFetch", "SQLFreeStmt", "SQLGetData"}, column : Columns,
              code : {"SQL_SUCCESS", "SQL_SUCCESS_WITH_INFO", "SQL_NO_DATA", "SQL_ERROR"},
              from : Nat, bytes : Nat]

GotData == ret.call = "SQLGetData" /\ Long(ret.column) /\ ~row[ret.column].null

\* The code tells an application whether to go on: SQL_SUCCESS_WITH_INFO if and
\* only if bytes of the value are still to come, SQL_SUCCESS with the last of
\* them, over every mix of buffer sizes and any number of pieces.
MoreIsTold ==
  GotData => /\ ret.code = "SQL_SUCCESS_WITH_INFO"
                  <=> ret.from + ret.bytes < row[ret.column].length
             /\ ret.code = "SQL_SUCCESS" => app.got[ret.column] = row[ret.column].length

\* A bound column holds the start of its value in the current row, as much as
\* the buffer takes: sqlFetch resets the positions between rows.
BoundColumnsFromStart ==
  ret.call = "SQLFetch" /\ ret.code = "SQL_SUCCESS" =>
    \A c \in BoundColumns :
      Long(c) => app.bound[c] = [from |-> 0,
                                 bytes |-> IF room(c, Bound[c]) < 0 THEN 0
                                           ELSE Lesser(room(c, Bound[c]), row[c].length)]

\* An application that reads a column piece by piece is told of its end, unless
\* it turns to another column or row: setValue must make progress.
ReadLoopEnds ==
  \A c \in Columns :
    (GotData /\ ret.column = c)
      ~> \/ ret.call # "SQLGetData"
         \/ ret.column # c
         \/ ret.code = "SQL_NO_DATA"

\* Reading by SQLGetData is the stream of pieces that ColumnStream promises.
position(c) ==
  IF row = NoRow \/ ~Long(c) \/ c > Len(getDataBindings) THEN 0
  ELSE getDataBindings[c].offset
streamValue(v, c) ==
  IF Long(c) /\ ~v.null THEN v.length ELSE -1
streamReply ==
  IF ret.call # "SQLGetData" THEN [kind |-> "none"]
  ELSE IF ~GotData THEN [kind |-> "whole", column |-> ret.column]
  ELSE IF ret.code = "SQL_NO_DATA" THEN [kind |-> "end", column |-> ret.column]
  ELSE [kind |-> IF ret.code = "SQL_SUCCESS" THEN "last" ELSE "more",
        column |-> ret.column, from |-> ret.from, bytes |-> ret.bytes]

streamRow(r) == [c \in Columns |-> streamValue(r[c], c)]
streamAt == IF row = NoRow THEN NoRow ELSE streamRow(row)
streamPos == [c \in Columns |-> position(c)]
streamRows == {streamRow(r) : r \in RowValues}
Stream == INSTANCE ColumnStream WITH
  Rows  <- streamRows,
  row   <- streamAt,
  pos   <- streamPos,
  reply <- streamReply

\* SQLGetData implements the stream: no byte of a value is delivered twice or
\* left out, and SQL_NO_DATA comes only after the last, whatever is fetched,
\* closed or read in between.
StreamSpec == Stream!Spec
=============================================================================
