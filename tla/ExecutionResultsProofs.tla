------------------------ MODULE ExecutionResultsProofs ------------------------
(***************************************************************************)
(* Theorems about ExecutionResults: its types, that what is handed out is  *)
(* of the latest execution, and that the states of a rowset tell its rows. *)
(***************************************************************************)
EXTENDS ExecutionResults, FiniteSetTheorems, TLAPS

-----------------------------------------------------------------------------
(***************************************************************************)
(* Types.                                                                  *)
(***************************************************************************)
LEMMA TextType ==
  ASSUME NEW text \in Texts \cup {NoText}
  PROVE  text.sets \in Nat /\ text.callable \in BOOLEAN
<1>1. CASE text \in [callable : {TRUE}, sets : Procedures]
  <2>1. text.callable = TRUE /\ text.sets \in Procedures
    BY <1>1
  <2> QED
    BY <2>1, CountsAssumption
<1>2. CASE text \in [callable : {FALSE}, sets : Queries]
  <2>1. text.callable = FALSE /\ text.sets \in Queries
    BY <1>2
  <2> QED
    BY <2>1, CountsAssumption
<1>3. CASE text = NoText
  BY <1>3 DEF NoText
<1> QED
  BY <1>1, <1>2, <1>3 DEF Texts

LEMMA SaidType ==
  ASSUME NEW call, NEW code
  PROVE  /\ Said(call, code).call = call /\ Said(call, code).code = code
         /\ Said(call, code).before = 0
BY DEF Said

LEMMA TypeInit == Init => TypeOK
<1> SUFFICES ASSUME Init PROVE TypeOK
  OBVIOUS
<1>1. NoRows \in [Elements -> Nat]
  BY DEF NoRows
<1>2. memory \in Memory
  BY <1>1 DEF Init, Memory
<1>3. statement \in [text : Texts \cup {NoText}, open : BOOLEAN]
  BY DEF Init, NoStatement
<1>4. binding \in [rowSize : {"column", "row"}, rowArraySize : ArraySizes,
                   indicator : BOOLEAN]
  BY ArraySizesAssumption DEF Init
<1>5. /\ resultSet \in [of : Nat, rows : Nat, at : Nat] \cup {NoCursor}
      /\ resultSet.at <= resultSet.rows
  BY DEF Init, NoCursor
<1>6. executed \in 0 .. MaxExecuted /\ sets \in Nat /\ rowCount \in Nat \cup {None}
  BY ApplicationAssumption DEF Init, None
<1> QED
  BY <1>2, <1>3, <1>4, <1>5, <1>6 DEF Init, TypeOK

LEMMA CursorType ==
  ASSUME TypeOK
  PROVE  /\ resultSet.at \in Nat /\ resultSet.rows \in Nat
         /\ HasCursor => resultSet.of \in Nat
<1>1. CASE resultSet \in [of : Nat, rows : Nat, at : Nat]
  BY <1>1
<1>2. CASE resultSet = NoCursor
  BY <1>2 DEF NoCursor, HasCursor
<1> QED
  BY <1>1, <1>2 DEF TypeOK

LEMMA NewCursorType ==
  ASSUME NEW n \in Nat, NEW rows \in Sizes, NEW cursor,
         cursor = [of |-> n, rows |-> rows, at |-> 0]
  PROVE  /\ cursor \in [of : Nat, rows : Nat, at : Nat]
         /\ cursor.at <= cursor.rows /\ cursor.of = n /\ cursor # NoCursor
<1>1. rows \in Nat
  BY CountsAssumption
<1>2. cursor.of = n /\ cursor.at = 0 /\ cursor.rows = rows
  OBVIOUS
<1>3. NoCursor.of = -1
  BY DEF NoCursor, None
<1>4. cursor # NoCursor
  BY <1>2, <1>3
<1> QED
  BY <1>1, <1>2, <1>4

\* What getResultSet leaves.
LEMMA GetResultSetType ==
  ASSUME TypeOK, NEW n \in Nat, NEW left \in Nat, getResultSet(n, left)
  PROVE  /\ resultSet' \in [of : Nat, rows : Nat, at : Nat] \cup {NoCursor}
         /\ resultSet'.at <= resultSet'.rows
         /\ eof' \in BOOLEAN /\ sets' \in Nat
         /\ \/ resultSet' = resultSet
            \/ resultSet' # NoCursor /\ resultSet'.of = n
<1>1. CASE left = 0
  <2>1. resultSet' = resultSet /\ sets' = 0 /\ eof' = FALSE
    BY <1>1 DEF getResultSet
  <2>2. /\ resultSet \in [of : Nat, rows : Nat, at : Nat] \cup {NoCursor}
        /\ resultSet.at <= resultSet.rows
    BY DEF TypeOK
  <2>3. /\ resultSet' \in [of : Nat, rows : Nat, at : Nat] \cup {NoCursor}
        /\ resultSet'.at <= resultSet'.rows
    BY <2>1, <2>2, Zenon
  <2>4. eof' \in BOOLEAN /\ sets' \in Nat
    BY <2>1
  <2> QED
    BY <2>1, <2>3, <2>4, Zenon
<1>2. CASE left # 0
  <2>1. PICK rows \in Sizes : resultSet' = [of |-> n, rows |-> rows, at |-> 0]
    BY <1>2 DEF getResultSet
  <2>2. /\ resultSet' \in [of : Nat, rows : Nat, at : Nat]
        /\ resultSet'.at <= resultSet'.rows /\ resultSet'.of = n /\ resultSet' # NoCursor
    BY <2>1, NewCursorType
  <2>3. eof' = FALSE /\ sets' = left - 1
    BY <1>2 DEF getResultSet
  <2>4. eof' \in BOOLEAN /\ sets' \in Nat
    <3>1. left - 1 \in Nat
      BY <1>2
    <3> QED
      BY <2>3, <3>1, Zenon
  <2> QED
    BY <2>2, <2>4, Zenon
<1> QED
  BY <1>1, <1>2

LEMMA OutputsSetType ==
  ASSUME TypeOK, NEW code, outputsSet(code)
  PROVE  memory' \in Memory
<1>1. CASE memory' = memory
  BY <1>1 DEF TypeOK
<1>2. CASE memory' = [memory EXCEPT !.out = outputs(executed + 1)]
  <2>1. outputs(executed + 1) \in Nat
    BY CursorType DEF outputs, TypeOK
  <2> QED
    BY <1>2, <2>1 DEF Memory, TypeOK
<1> QED
  BY <1>1, <1>2 DEF outputsSet

LEMMA ClearedType ==
  ASSUME TypeOK
  PROVE  [memory EXCEPT !.value = NoRows, !.indicator = NoRows] \in Memory
<1>1. NoRows \in [Elements -> Nat]
  BY DEF NoRows
<1> QED
  BY <1>1 DEF TypeOK, Memory

LEMMA ElementsNat == Elements \subseteq Nat
BY ArraySizesAssumption DEF Elements

\* What a fetch writes into the first n elements, and into the states of the rest.
LEMMA FetchedMemory ==
  ASSUME TypeOK, NEW n \in Nat, NEW m, m = rowset(n, setValues(n, memory))
  PROVE  /\ m \in Memory
         /\ m.value = [i \in Elements |-> IF i < n THEN resultSet.at + i + 1
                                          ELSE memory.value[i]]
         /\ m.indicator = [i \in Elements |-> IF i < n /\ binding.indicator
                                              THEN resultSet.at + i + 1
                                              ELSE memory.indicator[i]]
         /\ m.status = [i \in Elements |->
                          CASE i < n -> "SQL_ROW_SUCCESS"
                            [] i >= n /\ i < binding.rowArraySize -> "SQL_NO_DATA"
                            [] OTHER -> memory.status[i]]
         /\ m.fetched = IF n > 0 THEN n ELSE memory.fetched
         /\ m.stray = (memory.stray \/ ( binding.rowSize = "column" /\ ~binding.indicator
                                         /\ n > 1))
<1> DEFINE v == [i \in Elements |-> IF i < n THEN resultSet.at + i + 1 ELSE memory.value[i]]
<1> DEFINE d == [i \in Elements |-> IF i < n /\ binding.indicator
                                    THEN resultSet.at + i + 1 ELSE memory.indicator[i]]
<1> DEFINE s == [i \in Elements |-> CASE i < n -> "SQL_ROW_SUCCESS"
                                      [] i >= n /\ i < binding.rowArraySize -> "SQL_NO_DATA"
                                      [] OTHER -> memory.status[i]]
<1> DEFINE f == IF n > 0 THEN n ELSE memory.fetched
<1> DEFINE x == memory.stray \/ ( binding.rowSize = "column" /\ ~binding.indicator /\ n > 1)
<1>1. /\ memory.value \in [Elements -> Nat] /\ memory.indicator \in [Elements -> Nat]
      /\ memory.status \in [Elements -> {"nothing", "SQL_NO_DATA", "SQL_ROW_SUCCESS"}]
      /\ memory.fetched \in Nat /\ memory.stray \in BOOLEAN /\ memory.out \in Nat
  BY DEF TypeOK, Memory
<1>2. binding.rowArraySize \in ArraySizes
  BY DEF TypeOK
<1>3. resultSet.at \in Nat /\ binding.rowArraySize \in Nat
  <2>1. resultSet.at \in Nat
    BY CursorType
  <2>2. binding.rowArraySize \in 1 .. MaxArray /\ MaxArray \in Nat
    BY <1>2, ArraySizesAssumption
  <2> QED
    BY <2>1, <2>2
<1> HIDE DEF f, x, s
<1>4. v \in [Elements -> Nat]
  <2>1. ASSUME NEW i \in Elements
        PROVE  memory.value[i] \in Nat /\ resultSet.at + i + 1 \in Nat
    BY <1>1, <1>3, ElementsNat
  <2> QED
    BY <2>1
<1>5. d \in [Elements -> Nat]
  <2>1. ASSUME NEW i \in Elements
        PROVE  memory.indicator[i] \in Nat /\ resultSet.at + i + 1 \in Nat
    BY <1>1, <1>3, ElementsNat
  <2> QED
    BY <2>1
<1> USE DEF f, x, s
<1>6. s \in [Elements -> {"nothing", "SQL_NO_DATA", "SQL_ROW_SUCCESS"}]
  BY <1>1, <1>3 DEF Elements
<1>7. f \in Nat /\ x \in BOOLEAN
  BY <1>1
<1> DEFINE t == setValues(n, memory)
<1>8. /\ t \in Memory
      /\ t.value = v /\ t.indicator = d /\ t.stray = x
      /\ t.status = memory.status /\ t.fetched = memory.fetched
  <2>1. t = [memory EXCEPT !.value = v, !.indicator = d, !.stray = x]
    BY DEF setValues
  <2>2. memory \in Memory
    BY DEF TypeOK
  <2> HIDE DEF v, d, x, t
  <2> QED
    BY <1>4, <1>5, <1>7, <2>1, <2>2 DEF Memory
<1> HIDE DEF t
<1>9. /\ m \in Memory
      /\ m.status = s /\ m.fetched = f
      /\ m.value = t.value /\ m.indicator = t.indicator /\ m.stray = t.stray
  <2>1. m = [t EXCEPT !.status = s, !.fetched = f]
    BY <1>8 DEF rowset, t
  <2> HIDE DEF s, f
  <2> QED
    BY <1>6, <1>7, <1>8, <2>1 DEF Memory
<1> HIDE DEF v, d, s, f, x
<1> QED
  BY <1>8, <1>9 DEF v, d, s, f, x

\* Each action keeps the types.
LEMMA PrepareType == TypeOK /\ SQLPrepare => TypeOK'
<1> SUFFICES ASSUME TypeOK, SQLPrepare PROVE TypeOK'
  OBVIOUS
<1>1. statement' \in [text : Texts \cup {NoText}, open : BOOLEAN]
  <2>1. CASE \E text \in Texts : statement' = [text |-> text, open |-> TRUE]
    BY <2>1
  <2>2. CASE statement' = NoStatement
    BY <2>2 DEF NoStatement
  <2> QED
    BY <2>1, <2>2 DEF SQLPrepare
<1>2. resultSet' = NoCursor /\ resultSet'.at <= resultSet'.rows
  BY DEF SQLPrepare, NoCursor
<1>3. dm' \in {"allocated", "prepared", "executed", "cursor"} /\ unread' \in BOOLEAN
  BY DEF SQLPrepare
<1> QED
  BY <1>1, <1>2, <1>3 DEF SQLPrepare, TypeOK

LEMMA TablesType == TypeOK /\ SQLTables => TypeOK'
<1> SUFFICES ASSUME TypeOK, SQLTables PROVE TypeOK'
  OBVIOUS
<1>1. statement' \in [text : Texts \cup {NoText}, open : BOOLEAN]
  BY DEF SQLTables, NoStatement
<1>2. /\ resultSet' \in [of : Nat, rows : Nat, at : Nat] \cup {NoCursor}
      /\ resultSet'.at <= resultSet'.rows
  <2>1. CASE \E n \in Sizes : resultSet' = [of |-> 0, rows |-> n, at |-> 0]
    BY <2>1, NewCursorType
  <2>2. CASE resultSet' = NoCursor
    BY <2>2 DEF NoCursor
  <2> QED
    BY <2>1, <2>2 DEF SQLTables
<1>3. /\ dm' \in {"allocated", "prepared", "executed", "cursor"} /\ unread' \in BOOLEAN
      /\ eof' \in BOOLEAN
  BY DEF SQLTables, TypeOK
<1> QED
  BY <1>1, <1>2, <1>3 DEF SQLTables, TypeOK

LEMMA ExecuteType == TypeOK /\ SQLExecute => TypeOK'
<1> SUFFICES ASSUME TypeOK, SQLExecute PROVE TypeOK'
  OBVIOUS
<1>1. executed' \in 0 .. MaxExecuted /\ executed + 1 \in Nat /\ rowCount' \in Nat
  BY ApplicationAssumption DEF SQLExecute, TypeOK
<1>2. memory' \in Memory
  BY OutputsSetType DEF SQLExecute
<1>3. statement.text.sets \in Nat
  BY TextType DEF TypeOK
<1>4. /\ resultSet' \in [of : Nat, rows : Nat, at : Nat] \cup {NoCursor}
      /\ resultSet'.at <= resultSet'.rows
      /\ eof' \in BOOLEAN /\ sets' \in Nat
  <2>1. CASE getResultSet(executed + 1, statement.text.sets)
    BY <1>1, <1>3, <2>1, GetResultSetType
  <2>2. CASE sets' = 0 /\ UNCHANGED <<resultSet, eof>>
    BY <2>2 DEF TypeOK
  <2> QED
    BY <2>1, <2>2 DEF SQLExecute
<1>5. dm' \in {"allocated", "prepared", "executed", "cursor"} /\ unread' \in BOOLEAN
  BY DEF SQLExecute, TypeOK
<1> QED
  BY <1>1, <1>2, <1>4, <1>5 DEF SQLExecute, TypeOK

LEMMA ExecuteFailsType == TypeOK /\ SQLExecuteFails => TypeOK'
<1> SUFFICES ASSUME TypeOK, SQLExecuteFails PROVE TypeOK'
  OBVIOUS
<1>1. /\ executed' \in 0 .. MaxExecuted /\ sets' \in Nat /\ eof' \in BOOLEAN
      /\ rowCount' \in Nat \cup {None} /\ memory' \in Memory
  <2>1. CASE UNCHANGED <<executed, sets, eof, rowCount, memory>>
    BY <2>1 DEF TypeOK
  <2>2. CASE /\ executed < MaxExecuted /\ executed' = executed + 1
             /\ \E code \in {"SQL_SUCCESS", "SQL_SUCCESS_WITH_INFO"} : outputsSet(code)
             /\ rowCount' = executed + 1
             /\ eof' = FALSE /\ sets' = 0
    <3>1. memory' \in Memory
      BY <2>2, OutputsSetType
    <3>2. executed \in 0 .. MaxExecuted /\ MaxExecuted \in Nat
      BY ApplicationAssumption DEF TypeOK
    <3>3. executed + 1 \in 0 .. MaxExecuted /\ executed + 1 \in Nat
      BY <2>2, <3>2
    <3> QED
      BY <2>2, <3>1, <3>3
  <2> QED
    BY <2>1, <2>2 DEF SQLExecuteFails
<1>2. dm' \in {"allocated", "prepared", "executed", "cursor"}
  BY DEF SQLExecuteFails
<1> QED
  BY <1>1, <1>2 DEF SQLExecuteFails, TypeOK

LEMMA MoreResultsType == TypeOK /\ SQLMoreResults => TypeOK'
<1> SUFFICES ASSUME TypeOK, SQLMoreResults PROVE TypeOK'
  OBVIOUS
<1>1. executed \in Nat /\ sets \in Nat
  BY ApplicationAssumption DEF TypeOK
<1>2. /\ resultSet' \in [of : Nat, rows : Nat, at : Nat] \cup {NoCursor}
      /\ resultSet'.at <= resultSet'.rows
      /\ eof' \in BOOLEAN /\ sets' \in Nat
  <2>1. CASE getResultSet(executed, sets)
    BY <1>1, <2>1, GetResultSetType
  <2>2. CASE UNCHANGED <<eof, resultSet, sets>>
    BY <2>2 DEF TypeOK
  <2> QED
    BY <2>1, <2>2 DEF SQLMoreResults
<1>3. dm' \in {"allocated", "prepared", "executed", "cursor"}
  BY DEF SQLMoreResults, TypeOK
<1> QED
  BY <1>2, <1>3 DEF SQLMoreResults, TypeOK

LEMMA RowCountType == TypeOK /\ SQLRowCount => TypeOK'
<1> SUFFICES ASSUME TypeOK, SQLRowCount PROVE TypeOK'
  OBVIOUS
<1>1. rowCount' \in Nat \cup {None}
  BY DEF SQLRowCount, TypeOK
<1> QED
  BY <1>1 DEF SQLRowCount, TypeOK

LEMMA CloseType == TypeOK /\ SQLFreeStmtClose => TypeOK'
<1> SUFFICES ASSUME TypeOK, SQLFreeStmtClose PROVE TypeOK'
  OBVIOUS
<1>1. resultSet' = NoCursor /\ resultSet'.at <= resultSet'.rows
  BY DEF SQLFreeStmtClose, NoCursor
<1>2. memory' \in Memory
  BY ClearedType DEF SQLFreeStmtClose
<1>3. dm' \in {"allocated", "prepared", "executed", "cursor"} /\ unread' \in BOOLEAN
  BY DEF SQLFreeStmtClose
<1> QED
  BY <1>1, <1>2, <1>3 DEF SQLFreeStmtClose, TypeOK

LEMMA BindType ==
  ASSUME TypeOK,
         NEW b \in [rowSize : {"column", "row"}, rowArraySize : ArraySizes,
                    indicator : BOOLEAN],
         Bind(b)
  PROVE  TypeOK'
BY DEF Bind, driver, TypeOK

\* A fetch of n rows that reads them, or one more.
LEMMA FetchType ==
  ASSUME TypeOK, NEW n \in Nat, NEW read \in Nat, NEW code, Fetched(n, code, read),
         HasCursor, read <= Left, eof' \in BOOLEAN
  PROVE  TypeOK'
<1>1. resultSet \in [of : Nat, rows : Nat, at : Nat]
  BY DEF HasCursor, TypeOK
<1>2. /\ resultSet' \in [of : Nat, rows : Nat, at : Nat]
      /\ resultSet'.at <= resultSet'.rows
  BY <1>1 DEF Fetched, Left
<1>3. memory' \in Memory
  <2>1. memory' = rowset(n, setValues(n, memory))
    BY DEF Fetched
  <2> QED
    BY <2>1, FetchedMemory
<1> QED
  BY <1>2, <1>3 DEF Fetched, TypeOK

\* The four ways a fetch goes.
LEMMA FetchCases ==
  ASSUME TypeOK, SQLFetch
  PROVE  \E n \in Nat, read \in Nat, code \in {"SQL_SUCCESS", "SQL_NO_DATA", "SQL_ERROR"} :
           /\ n <= binding.rowArraySize
           /\ n <= read /\ read <= Left
           /\ Fetched(n, code, read)
           /\ code = "SQL_SUCCESS" => n > 0
           /\ code = "SQL_NO_DATA" => n = 0
           /\ eof' \in BOOLEAN
<1>1. PICK n \in 0 .. binding.rowArraySize :
       \/ /\ n < binding.rowArraySize
          /\ n = IF eof THEN 0 ELSE Left
          /\ eof' = TRUE
          /\ Fetched(n, IF n > 0 THEN "SQL_SUCCESS" ELSE "SQL_NO_DATA", n)
       \/ /\ ~eof /\ n = binding.rowArraySize /\ n <= Left
          /\ eof' = eof
          /\ Fetched(n, "SQL_SUCCESS", n)
       \/ /\ ~eof /\ n < binding.rowArraySize /\ n <= Left
          /\ eof' = eof
          /\ Fetched(n, "SQL_ERROR", n)
       \/ /\ ~eof /\ n < binding.rowArraySize /\ n < Left
          /\ eof' = eof
          /\ Fetched(n, "SQL_ERROR", n + 1)
  BY DEF SQLFetch
<1>2. resultSet.at \in Nat /\ resultSet.rows \in Nat /\ resultSet.at <= resultSet.rows
  BY CursorType DEF TypeOK
<1>3. Left \in Nat
  BY <1>2 DEF Left
<1>4. binding.rowArraySize \in Nat /\ binding.rowArraySize > 0
  <2>1. binding.rowArraySize \in ArraySizes
    BY DEF TypeOK
  <2>2. binding.rowArraySize \in 1 .. MaxArray /\ MaxArray \in Nat
    BY <2>1, ArraySizesAssumption
  <2> QED
    BY <2>2
<1>5. n \in Nat /\ n <= binding.rowArraySize /\ eof \in BOOLEAN
  BY <1>4 DEF TypeOK
<1>6. CASE /\ n = IF eof THEN 0 ELSE Left
           /\ eof' = TRUE
           /\ Fetched(n, IF n > 0 THEN "SQL_SUCCESS" ELSE "SQL_NO_DATA", n)
  <2>1. n <= Left
    BY <1>3, <1>6
  <2>2. CASE n > 0
    BY <1>5, <1>6, <2>1, <2>2
  <2>3. CASE ~(n > 0)
    <3>1. n = 0
      BY <1>5, <2>3
    <3> QED
      BY <1>5, <1>6, <2>1, <2>3, <3>1
  <2> QED
    BY <2>2, <2>3
<1>7. CASE /\ n = binding.rowArraySize /\ n <= Left /\ eof' = eof
           /\ Fetched(n, "SQL_SUCCESS", n)
  BY <1>4, <1>5, <1>7
<1>8. CASE n <= Left /\ eof' = eof /\ Fetched(n, "SQL_ERROR", n)
  BY <1>5, <1>8
<1>9. CASE n < Left /\ eof' = eof /\ Fetched(n, "SQL_ERROR", n + 1)
  <2>1. n + 1 \in Nat /\ n + 1 <= Left /\ n <= n + 1
    BY <1>3, <1>5, <1>9
  <2> QED
    BY <1>5, <1>9, <2>1
<1> QED
  BY <1>1, <1>6, <1>7, <1>8, <1>9

LEMMA TypeNext == TypeOK /\ [Next]_vars => TypeOK'
<1> SUFFICES ASSUME TypeOK, [Next]_vars PROVE TypeOK'
  OBVIOUS
<1>1. CASE SQLPrepare
  BY <1>1, PrepareType
<1>2. CASE SQLTables
  BY <1>2, TablesType
<1>3. CASE SQLExecute
  BY <1>3, ExecuteType
<1>4. CASE SQLExecuteFails
  BY <1>4, ExecuteFailsType
<1>5. CASE SQLMoreResults
  BY <1>5, MoreResultsType
<1>6. CASE SQLRowCount
  BY <1>6, RowCountType
<1>7. CASE SQLFreeStmtClose
  BY <1>7, CloseType
<1>8. ASSUME NEW layout \in {"column", "row"}, NEW size \in ArraySizes, NEW i \in BOOLEAN,
             Bind([rowSize |-> layout, rowArraySize |-> size, indicator |-> i])
      PROVE  TypeOK'
  BY <1>8, BindType
<1>9. CASE SQLFetch
  <2>1. HasCursor
    BY <1>9 DEF SQLFetch
  <2> QED
    BY <1>9, <2>1, FetchCases, FetchType
<1>10. CASE UNCHANGED vars
  BY <1>10 DEF vars, TypeOK
<1> QED
  BY <1>1, <1>2, <1>3, <1>4, <1>5, <1>6, <1>7, <1>8, <1>9, <1>10 DEF Next

\* Every variable always has its type.
THEOREM TypeCorrect == Spec => []TypeOK
BY TypeInit, TypeNext, PTL DEF Spec

-----------------------------------------------------------------------------
(***************************************************************************)
(* What is handed out.                                                     *)
(***************************************************************************)
\* A cursor is one the application has not closed, as one the driver manager believes
\* open is, and it is of the latest execution or of a catalog function; so is the count.
Standing ==
  /\ HasCursor \/ dm = "cursor" => unread
  /\ HasCursor => resultSet.of \in {executed, 0}
  /\ rowCount \in {executed, None}

HandedOutInv == TypeOK /\ Standing /\ HandedOutIsOfThis

LEMMA HandedOutInit == Init => HandedOutInv
<1> SUFFICES ASSUME Init PROVE HandedOutInv
  OBVIOUS
<1>1. Standing
  BY DEF Init, Standing, HasCursor
<1>2. answer.call = "none"
  BY SaidType DEF Init
<1> QED
  BY <1>1, <1>2, TypeInit DEF HandedOutInv, HandedOutIsOfThis

\* An answer of another call hands out nothing.
LEMMA OtherAnswer ==
  ASSUME NEW call, NEW code, answer' = Said(call, code),
         call \notin {"SQLExecute", "SQLRowCount", "SQLFetch"}
  PROVE  HandedOutIsOfThis'
<1>1. answer'.call = call
  BY SaidType
<1> QED
  BY <1>1 DEF HandedOutIsOfThis

\* Who executes has closed the cursor.
LEMMA NothingOpen ==
  ASSUME Tidy = TRUE, Standing, MayExecute
  PROVE  ~HasCursor /\ ~unread
BY DEF Standing, MayExecute

LEMMA GetResultSetStanding ==
  ASSUME TypeOK, NEW n \in Nat, NEW left \in Nat, getResultSet(n, left),
         HasCursor => resultSet.of \in {n, 0}
  PROVE  HasCursor' => resultSet'.of \in {n, 0}
<1>1. CASE resultSet' = resultSet
  BY <1>1 DEF HasCursor
<1>2. CASE resultSet' # NoCursor /\ resultSet'.of = n
  BY <1>2
<1> QED
  BY <1>1, <1>2, GetResultSetType

LEMMA HandedOutExecute ==
  ASSUME Tidy = TRUE, TypeOK, Standing, SQLExecute
  PROVE  Standing' /\ HandedOutIsOfThis'
<1>1. ~HasCursor /\ executed' = executed + 1 /\ rowCount' = executed + 1
  BY NothingOpen DEF SQLExecute
<1>2. executed + 1 \in Nat /\ statement.text.sets \in Nat
  BY TextType, ApplicationAssumption DEF TypeOK
<1>3. Standing'
  <2>1. CASE /\ getResultSet(executed + 1, statement.text.sets)
             /\ dm' = "cursor" /\ unread' = TRUE
    <3>1. HasCursor' => resultSet'.of \in {executed + 1, 0}
      BY <1>1, <1>2, <2>1, GetResultSetStanding
    <3> QED
      BY <1>1, <2>1, <3>1 DEF Standing
  <2>2. CASE dm' = "executed" /\ UNCHANGED <<resultSet, unread>>
    BY <1>1, <2>2 DEF Standing, HasCursor
  <2> QED
    BY <2>1, <2>2 DEF SQLExecute
<1>4. HandedOutIsOfThis'
  <2>1. PICK code \in {"SQL_SUCCESS", "SQL_SUCCESS_WITH_INFO"} :
          outputsSet(code) /\ answer' = Said("SQLExecute", code)
    BY DEF SQLExecute
  <2>2. answer'.call = "SQLExecute" /\ answer'.code = code
    BY <2>1, SaidType
  <2>3. code = "SQL_SUCCESS" /\ statement.text.callable => memory'.out = executed'
    <3>1. SUFFICES ASSUME code = "SQL_SUCCESS", statement.text.callable
                   PROVE  memory'.out = executed'
      OBVIOUS
    <3>2. memory' = [memory EXCEPT !.out = executed + 1]
      BY <1>1, <2>1, <3>1 DEF outputsSet, outputs
    <3> QED
      BY <1>1, <3>2 DEF TypeOK, Memory
  <2>4. statement' = statement
    BY DEF SQLExecute
  <2> QED
    BY <2>2, <2>3, <2>4 DEF HandedOutIsOfThis
<1> QED
  BY <1>3, <1>4

LEMMA HandedOutExecuteFails ==
  ASSUME Tidy = TRUE, TypeOK, Standing, SQLExecuteFails
  PROVE  Standing' /\ HandedOutIsOfThis'
<1>1. ~HasCursor /\ ~unread
  BY NothingOpen DEF SQLExecuteFails
<1>2. ~HasCursor' /\ dm' = "prepared"
  BY <1>1 DEF SQLExecuteFails, HasCursor
<1>3. rowCount' \in {executed', None}
  BY DEF SQLExecuteFails, Standing
<1>4. answer'.call = "SQLExecute" /\ answer'.code = "SQL_ERROR"
  BY SaidType DEF SQLExecuteFails
<1> QED
  BY <1>2, <1>3, <1>4 DEF Standing, HandedOutIsOfThis

LEMMA HandedOutMoreResults ==
  ASSUME TypeOK, Standing, SQLMoreResults
  PROVE  Standing' /\ HandedOutIsOfThis'
<1>1. executed \in Nat /\ sets \in Nat
  BY ApplicationAssumption DEF TypeOK
<1>2. HasCursor' => resultSet'.of \in {executed, 0}
  <2>1. CASE getResultSet(executed, sets)
    BY <1>1, <2>1, GetResultSetStanding DEF Standing
  <2>2. CASE UNCHANGED <<eof, resultSet, sets>>
    BY <2>2 DEF Standing, HasCursor
  <2> QED
    BY <2>1, <2>2 DEF SQLMoreResults
<1>3. Standing'
  BY <1>2 DEF SQLMoreResults, Standing
<1>4. HandedOutIsOfThis'
  <2>1. \/ answer' = Said("SQLMoreResults", "SQL_SUCCESS")
        \/ answer' = Said("SQLMoreResults", "SQL_NO_DATA")
    BY DEF SQLMoreResults
  <2> QED
    BY <2>1, OtherAnswer
<1> QED
  BY <1>3, <1>4

LEMMA HandedOutFetch ==
  ASSUME TypeOK, Standing, SQLFetch
  PROVE  Standing' /\ HandedOutIsOfThis'
<1>1. PICK n \in Nat, read \in Nat, code \in {"SQL_SUCCESS", "SQL_NO_DATA", "SQL_ERROR"} :
        Fetched(n, code, read)
  BY FetchCases
<1>2. HasCursor /\ resultSet \in [of : Nat, rows : Nat, at : Nat]
  BY DEF SQLFetch, HasCursor, TypeOK
<1>3. resultSet'.of = resultSet.of
  BY <1>1, <1>2 DEF Fetched
<1>4. resultSet'.of \in {executed, 0} /\ unread
  BY <1>2, <1>3 DEF Standing
<1>5. Standing'
  BY <1>1, <1>4 DEF Fetched, Standing
<1>6. HandedOutIsOfThis'
  <2>1. answer' = [Said("SQLFetch", code) EXCEPT !.before = resultSet.at]
        /\ executed' = executed
    BY <1>1 DEF Fetched
  <2>2. answer'.call = "SQLFetch"
    BY <2>1 DEF Said
  <2> QED
    BY <1>4, <2>1, <2>2 DEF HandedOutIsOfThis
<1> QED
  BY <1>5, <1>6

LEMMA HandedOutNext == ASSUME Tidy = TRUE PROVE HandedOutInv /\ [Next]_vars => HandedOutInv'
<1> SUFFICES ASSUME TypeOK, Standing, HandedOutIsOfThis, [Next]_vars
             PROVE  Standing' /\ HandedOutIsOfThis'
  BY TypeNext DEF HandedOutInv
<1>1. CASE SQLPrepare
  <2>1. \/ answer' = Said("SQLPrepare", "SQL_SUCCESS")
        \/ answer' = Said("SQLPrepare", "SQL_ERROR")
    BY <1>1 DEF SQLPrepare
  <2>2. Standing'
    BY <1>1 DEF SQLPrepare, Standing, HasCursor
  <2> QED
    BY <2>1, <2>2, OtherAnswer
<1>2. CASE SQLTables
  <2>1. \/ answer' = Said("SQLTables", "SQL_SUCCESS")
        \/ answer' = Said("SQLTables", "SQL_ERROR")
    BY <1>2 DEF SQLTables
  <2>2. CASE /\ \E n \in Sizes : resultSet' = [of |-> 0, rows |-> n, at |-> 0]
             /\ unread' = TRUE
    <3>1. resultSet'.of = 0
      BY <2>2
    <3> QED
      BY <1>2, <2>1, <2>2, <3>1, OtherAnswer DEF SQLTables, Standing
  <2>3. CASE resultSet' = NoCursor /\ dm' = "allocated"
    BY <1>2, <2>1, <2>3, OtherAnswer DEF SQLTables, Standing, HasCursor
  <2> QED
    BY <1>2, <2>2, <2>3 DEF SQLTables
<1>3. CASE SQLExecute
  BY <1>3, HandedOutExecute
<1>4. CASE SQLExecuteFails
  BY <1>4, HandedOutExecuteFails
<1>5. CASE SQLMoreResults
  BY <1>5, HandedOutMoreResults
<1>6. CASE SQLRowCount
  <2>1. Standing'
    BY <1>6 DEF SQLRowCount, Standing, HasCursor
  <2>2. /\ answer' = [Said("SQLRowCount", "SQL_SUCCESS")
                        EXCEPT !.told = IF statement.open THEN rowCount ELSE 0]
        /\ executed' = executed
    BY <1>6 DEF SQLRowCount
  <2> DEFINE told == IF statement.open THEN rowCount ELSE 0
  <2>3. answer'.call = "SQLRowCount" /\ answer'.told = told
    <3> HIDE DEF told
    <3>1. answer' = [Said("SQLRowCount", "SQL_SUCCESS") EXCEPT !.told = told]
      BY <2>2 DEF told
    <3> QED
      BY <3>1 DEF Said
  <2>4. told \in {executed, None, 0}
    BY DEF Standing
  <2> QED
    BY <2>1, <2>2, <2>3, <2>4 DEF HandedOutIsOfThis
<1>7. CASE SQLFreeStmtClose
  BY <1>7, OtherAnswer DEF SQLFreeStmtClose, Standing, HasCursor
<1>8. ASSUME NEW b, Bind(b)
      PROVE  Standing' /\ HandedOutIsOfThis'
  BY <1>8, OtherAnswer DEF Bind, driver, Standing, HasCursor
<1>9. CASE SQLFetch
  BY <1>9, HandedOutFetch
<1>10. CASE UNCHANGED vars
  BY <1>10 DEF vars, Standing, HasCursor, HandedOutIsOfThis
<1> QED
  BY <1>1, <1>2, <1>3, <1>4, <1>5, <1>6, <1>7, <1>8, <1>9, <1>10 DEF Next

\* For an application that closes what it read before it executes again, output
\* parameters, row counts and rows are always of the execution they are asked for.
THEOREM HandedOutCorrect == ASSUME Tidy = TRUE PROVE Spec => []HandedOutIsOfThis
<1>1. HandedOutInv => HandedOutIsOfThis
  BY DEF HandedOutInv
<1> QED
  BY <1>1, HandedOutInit, HandedOutNext, PTL DEF Spec

-----------------------------------------------------------------------------
(***************************************************************************)
(* The states of a rowset.                                                 *)
(***************************************************************************)
\* Several rows by column have indicators, and nothing was written elsewhere.
WellBound ==
  /\ binding.indicator \/ binding.rowArraySize = 1 \/ binding.rowSize = "row"
  /\ ~memory.stray

StatesInv == TypeOK /\ WellBound /\ StatesTellRows

LEMMA StatesInit == Init => StatesInv
<1> SUFFICES ASSUME Init PROVE StatesInv
  OBVIOUS
<1>1. WellBound
  BY DEF Init, WellBound
<1>2. answer.call = "none"
  BY SaidType DEF Init
<1> QED
  BY <1>1, <1>2, TypeInit DEF StatesInv, StatesTellRows

\* The elements whose state says that they hold a row are the first n.
LEMMA StatesOfFetch ==
  ASSUME NEW n \in Nat, NEW size \in Nat, n <= size, size <= MaxArray,
         NEW old, NEW status,
         status = [i \in Elements |->
                     CASE i < n -> "SQL_ROW_SUCCESS"
                       [] i >= n /\ i < size -> "SQL_NO_DATA"
                       [] OTHER -> old[i]]
  PROVE  {i \in 0 .. size - 1 : status[i] = "SQL_ROW_SUCCESS"} = 0 .. n - 1
<1>1. MaxArray \in Nat
  BY ArraySizesAssumption
<1>2. ASSUME NEW i \in 0 .. size - 1
      PROVE  status[i] = "SQL_ROW_SUCCESS" <=> i < n
  <2>1. i \in Elements /\ i \in Nat /\ i < size
    BY <1>1 DEF Elements
  <2>2. CASE i < n
    BY <2>1, <2>2
  <2>3. CASE i >= n
    BY <2>1, <2>3
  <2> QED
    BY <2>1, <2>2, <2>3
<1> QED
  BY <1>2

LEMMA Counting == ASSUME NEW n \in Nat PROVE Cardinality(0 .. n - 1) = n
<1>1. 0 \in Int /\ n - 1 \in Int
  OBVIOUS
<1>2. Cardinality(0 .. n - 1) = IF 0 > n - 1 THEN 0 ELSE (n - 1) - 0 + 1
  BY <1>1, FS_Interval
<1> QED
  BY <1>2

LEMMA StatesFetch ==
  ASSUME TypeOK, WellBound, SQLFetch
  PROVE  WellBound' /\ StatesTellRows'
<1>1. PICK n \in Nat, read \in Nat, code \in {"SQL_SUCCESS", "SQL_NO_DATA", "SQL_ERROR"} :
        /\ n <= binding.rowArraySize
        /\ n <= read
        /\ Fetched(n, code, read)
        /\ code = "SQL_SUCCESS" => n > 0
        /\ code = "SQL_NO_DATA" => n = 0
  BY FetchCases
<1> DEFINE size == binding.rowArraySize
           before == resultSet.at
<1>2. size \in Nat /\ size <= MaxArray /\ MaxArray \in Nat
  <2>1. size \in ArraySizes
    BY DEF TypeOK
  <2>2. size \in 1 .. MaxArray /\ MaxArray \in Nat
    BY <2>1, ArraySizesAssumption
  <2> QED
    BY <2>2
<1>3. before \in Nat
  BY CursorType
<1>4. resultSet \in [of : Nat, rows : Nat, at : Nat]
  BY DEF SQLFetch, HasCursor, TypeOK
<1>5. resultSet'.at = before + read /\ binding' = binding
  BY <1>1, <1>4 DEF Fetched
<1>6. answer'.call = "SQLFetch" /\ answer'.code = code /\ answer'.before = before
  <2>1. answer' = [Said("SQLFetch", code) EXCEPT !.before = before]
    BY <1>1 DEF Fetched
  <2> QED
    BY <2>1 DEF Said
<1>7. memory' = rowset(n, setValues(n, memory))
  BY <1>1 DEF Fetched
<1>8. /\ memory'.value = [i \in Elements |-> IF i < n THEN before + i + 1
                                             ELSE memory.value[i]]
      /\ memory'.indicator = [i \in Elements |-> IF i < n /\ binding.indicator
                                                 THEN before + i + 1
                                                 ELSE memory.indicator[i]]
      /\ memory'.status = [i \in Elements |->
                             CASE i < n -> "SQL_ROW_SUCCESS"
                               [] i >= n /\ i < size -> "SQL_NO_DATA"
                               [] OTHER -> memory.status[i]]
      /\ memory'.fetched = IF n > 0 THEN n ELSE memory.fetched
      /\ memory'.stray = (memory.stray \/ ( binding.rowSize = "column"
                                            /\ ~binding.indicator /\ n > 1))
  BY <1>7, FetchedMemory
<1>9. ~memory'.stray
  <2>1. CASE binding.indicator \/ binding.rowSize = "row"
    BY <1>8, <2>1 DEF WellBound
  <2>2. CASE size = 1
    <3>1. ~(n > 1)
      BY <1>1, <2>2
    <3> QED
      BY <1>8, <3>1 DEF WellBound
  <2> QED
    BY <2>1, <2>2 DEF WellBound
<1>10. WellBound'
  BY <1>5, <1>9 DEF WellBound
<1> DEFINE got == {i \in 0 .. size - 1 : memory'.status[i] = "SQL_ROW_SUCCESS"}
<1>11. got = 0 .. n - 1
  <2> HIDE DEF size
  <2> QED
    BY <1>1, <1>2, <1>8, StatesOfFetch DEF size
<1>12. Cardinality(got) = n
  BY <1>11, Counting
<1>13. got = 0 .. Cardinality(got) - 1
  BY <1>11, <1>12
<1>14. before + Cardinality(got) <= resultSet'.at
  BY <1>1, <1>3, <1>5, <1>12
<1>15. ASSUME NEW i \in got
       PROVE  /\ memory'.value[i] = before + i + 1
              /\ binding.indicator => memory'.indicator[i] = before + i + 1
  <2>1. i \in 0 .. n - 1
    BY <1>11
  <2>2. i \in Elements /\ i < n
    BY <1>1, <1>2, <2>1 DEF Elements
  <2> QED
    BY <1>8, <2>2
<1>16. code = "SQL_SUCCESS" => memory'.fetched = Cardinality(got) /\ got # {}
  <2>1. SUFFICES ASSUME n > 0
                 PROVE  memory'.fetched = Cardinality(got) /\ got # {}
    BY <1>1
  <2>2. 0 \in 0 .. n - 1
    BY <2>1
  <2> QED
    BY <1>8, <1>11, <1>12, <2>1, <2>2
<1>17. code = "SQL_NO_DATA" => got = {}
  BY <1>1, <1>11
<1>18. StatesTellRows'
  <2> HIDE DEF got, before
  <2>1. /\ got = 0 .. Cardinality(got) - 1
        /\ answer'.before + Cardinality(got) <= resultSet'.at
        /\ \A i \in got :
             /\ memory'.value[i] = answer'.before + i + 1
             /\ binding.indicator => memory'.indicator[i] = answer'.before + i + 1
        /\ answer'.code = "SQL_SUCCESS" => memory'.fetched = Cardinality(got) /\ got # {}
        /\ answer'.code = "SQL_NO_DATA" => got = {}
        /\ ~memory'.stray
    BY <1>6, <1>9, <1>13, <1>14, <1>15, <1>16, <1>17, Zenon
  <2> QED
    BY <1>5, <2>1, Zenon DEF StatesTellRows, got
<1> QED
  BY <1>10, <1>18

\* An answer of another call tells no rows.
LEMMA OtherStates ==
  ASSUME NEW call, NEW code, answer' = Said(call, code), call # "SQLFetch"
  PROVE  StatesTellRows'
<1>1. answer'.call = call
  BY SaidType
<1> QED
  BY <1>1 DEF StatesTellRows

LEMMA OutputsSetWellBound ==
  ASSUME TypeOK, WellBound, NEW code, outputsSet(code)
  PROVE  ~memory'.stray
<1>1. memory' = memory \/ memory' = [memory EXCEPT !.out = outputs(executed + 1)]
  BY DEF outputsSet
<1> QED
  BY <1>1 DEF WellBound, TypeOK, Memory

LEMMA StatesNext ==
  ASSUME NullIndicators = FALSE PROVE StatesInv /\ [Next]_vars => StatesInv'
<1> SUFFICES ASSUME TypeOK, WellBound, StatesTellRows, [Next]_vars
             PROVE  WellBound' /\ StatesTellRows'
  BY TypeNext DEF StatesInv
<1>1. CASE SQLPrepare
  BY <1>1, OtherStates DEF SQLPrepare, WellBound
<1>2. CASE SQLTables
  BY <1>2, OtherStates DEF SQLTables, WellBound
<1>3. CASE SQLExecute
  BY <1>3, OtherStates, OutputsSetWellBound DEF SQLExecute, WellBound
<1>4. CASE SQLExecuteFails
  <2>1. ~memory'.stray /\ binding' = binding
    BY <1>4, OutputsSetWellBound DEF SQLExecuteFails, WellBound
  <2> QED
    BY <1>4, <2>1, OtherStates DEF SQLExecuteFails, WellBound
<1>5. CASE SQLMoreResults
  <2>1. \/ answer' = Said("SQLMoreResults", "SQL_SUCCESS")
        \/ answer' = Said("SQLMoreResults", "SQL_NO_DATA")
    BY <1>5 DEF SQLMoreResults
  <2> QED
    BY <1>5, <2>1, OtherStates DEF SQLMoreResults, WellBound
<1>6. CASE SQLRowCount
  <2>1. WellBound'
    BY <1>6 DEF SQLRowCount, WellBound
  <2> DEFINE told == IF statement.open THEN rowCount ELSE 0
  <2>2. answer'.call = "SQLRowCount"
    <3>1. answer' = [Said("SQLRowCount", "SQL_SUCCESS") EXCEPT !.told = told]
      BY <1>6 DEF SQLRowCount
    <3> HIDE DEF told
    <3> QED
      BY <3>1 DEF Said
  <2> QED
    BY <2>1, <2>2 DEF StatesTellRows
<1>7. CASE SQLFreeStmtClose
  <2>1. memory'.stray = memory.stray /\ binding' = binding
    BY <1>7 DEF SQLFreeStmtClose, TypeOK, Memory
  <2> QED
    BY <1>7, <2>1, OtherStates DEF SQLFreeStmtClose, WellBound
<1>8. ASSUME NEW b, Bind(b)
      PROVE  WellBound' /\ StatesTellRows'
  BY <1>8, OtherStates DEF Bind, WellBound
<1>9. CASE SQLFetch
  BY <1>9, StatesFetch
<1>10. CASE UNCHANGED vars
  BY <1>10 DEF vars, WellBound, StatesTellRows
<1> QED
  BY <1>1, <1>2, <1>3, <1>4, <1>5, <1>6, <1>7, <1>8, <1>9, <1>10 DEF Next

\* For an application that binds indicators when it fetches several rows by column, the
\* states always tell which elements hold rows, and nothing else is written to.
THEOREM StatesTellRowsCorrect ==
  ASSUME NullIndicators = FALSE PROVE Spec => []StatesTellRows
<1>1. StatesInv => StatesTellRows
  BY DEF StatesInv
<1> QED
  BY <1>1, StatesInit, StatesNext, PTL DEF Spec
=============================================================================
