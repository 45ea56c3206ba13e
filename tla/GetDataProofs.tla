---------------------------- MODULE GetDataProofs ----------------------------
(***************************************************************************)
(* Theorems about GetData: its types, the bound columns of sqlFetch, the   *)
(* code of SQLGetData, and that SQLGetData implements ColumnStream.        *)
(***************************************************************************)
EXTENDS GetData, TLAPS

V == [null : BOOLEAN, length : Nat]

-----------------------------------------------------------------------------
(***************************************************************************)
(* What setValue computes.                                                 *)
(***************************************************************************)
LEMMA RowType ==
  ASSUME NEW r \in RowValues, NEW c \in Columns
  PROVE  r[c] \in V /\ (r[c].null => r[c].length = 0)
BY LengthsAssumption DEF RowValues, ValuesOf, V

LEMMA RoomType ==
  ASSUME NEW c \in Columns, NEW buffer \in Int
  PROVE  room(c, buffer) \in Int
<1>1. Terminator[CType[c]] \in Int
  BY CTypeAssumption DEF Terminator
<1> QED
  BY <1>1 DEF room

\* setValue copies no more than there is, all of it if there is room.
LEMMA MaxlenBounds ==
  ASSUME NEW c \in Columns, NEW b \in Binding, NEW v \in V, NEW buffer \in Int
  PROVE  /\ left(b, v) \in Int
         /\ maxlen(c, b, v, buffer) \in Nat
         /\ left(b, v) <= 0 => maxlen(c, b, v, buffer) = 0
         /\ left(b, v) > 0 => maxlen(c, b, v, buffer) <= left(b, v)
         /\ left(b, v) > 0 /\ room(c, buffer) > 0 => maxlen(c, b, v, buffer) > 0
<1>1. room(c, buffer) \in Int
  BY RoomType
<1>2. left(b, v) \in Int
  BY DEF left, V, Binding
<1> QED
  BY <1>1, <1>2 DEF maxlen, Lesser

LEMMA FreshType == Fresh \in Binding
BY DEF Fresh, Binding

LEMMA SetValueType ==
  ASSUME NEW c \in Columns, NEW b \in Binding, NEW v \in V, NEW buffer \in Int
  PROVE  setValue(c, b, v, buffer) \in Binding
<1>1. maxlen(c, b, v, buffer) \in Nat
  BY MaxlenBounds
<1> QED
  BY <1>1, FreshType DEF setValue, Binding

LEMMA CodeType ==
  ASSUME NEW c \in Columns, NEW b, NEW v, NEW buffer
  PROVE  code(c, b, v, buffer) \in {"SQL_SUCCESS", "SQL_SUCCESS_WITH_INFO", "SQL_NO_DATA"}
BY DEF code

LEMMA AllocType ==
  ASSUME NEW bindings \in Seq(Binding), NEW n \in Nat
  PROVE  /\ alloc(bindings, n) \in Seq(Binding)
         /\ Len(alloc(bindings, n)) = n
         /\ \A c \in 1 .. n : /\ c <= Len(bindings) => alloc(bindings, n)[c] = bindings[c]
                              /\ c > Len(bindings) => alloc(bindings, n)[c] = Fresh
<1>1. \A c \in 1 .. n : alloc(bindings, n)[c] \in Binding
  BY FreshType DEF alloc
<1>2. alloc(bindings, n) \in [1 .. n -> Binding]
  BY <1>1 DEF alloc
<1> QED
  BY <1>2 DEF alloc

LEMMA ResetSequence ==
  ASSUME NEW bindings \in Seq(Binding)
  PROVE  /\ reset(bindings) \in Seq(Binding)
         /\ Len(reset(bindings)) = Len(bindings)
         /\ \A c \in 1 .. Len(bindings) : reset(bindings)[c] = Fresh
<1>1. reset(bindings) \in [1 .. Len(bindings) -> Binding]
  BY FreshType DEF reset
<1> QED
  BY <1>1 DEF reset

-----------------------------------------------------------------------------
(***************************************************************************)
(* Types.                                                                  *)
(***************************************************************************)
LEMMA BoundTypes ==
  ASSUME NEW r \in RowValues, NEW bindings \in [Columns -> Binding]
  PROVE  /\ bound(r, bindings) \in [Columns -> [from : Nat, bytes : Nat]]
         /\ boundBindings(r, bindings) \in [Columns -> Binding]
<1>1. \A c \in Columns : /\ r[c] \in V
                         /\ Bound[c] \in Int
                         /\ maxlen(c, bindings[c], r[c], Bound[c]) \in Nat
                         /\ setValue(c, bindings[c], r[c], Bound[c]) \in Binding
  BY RowType, LengthsAssumption, MaxlenBounds, SetValueType
<1>2. bound(r, bindings) \in [Columns -> [from : Nat, bytes : Nat]]
  BY <1>1 DEF bound, NoPiece, Binding
<1>3. boundBindings(r, bindings) \in [Columns -> Binding]
  BY <1>1 DEF boundBindings
<1> QED
  BY <1>2, <1>3

LEMMA ResetColumns ==
  ASSUME NEW bindings \in [Columns -> Binding]
  PROVE  reset(bindings) = [c \in Columns |-> Fresh]
BY DEF reset

LEMMA TypeStep ==
  ASSUME TypeOK, [Next]_vars
  PROVE  TypeOK'
<1> USE DEF TypeOK
<1>1. 1 \in Columns /\ 0 \in Nat
  BY NumColumnsAssumption DEF Columns
<1>2. [c \in Columns |-> Fresh] \in [Columns -> Binding]
  BY FreshType
<1>3. NewRow(app).got \in [Columns -> Nat] /\ NewRow(app).column \in Columns
  BY <1>1 DEF NewRow
<1>4. NewRow(app) \in [column : Columns, got : [Columns -> Nat],
                       bound : [Columns -> [from : Nat, bytes : Nat]]]
  BY <1>1 DEF NewRow
<1>5. ASSUME NEW r \in RowValues, SQLFetch(r)
      PROVE  TypeOK'
  <2>1. reset(fetchBindings) \in [Columns -> Binding]
    BY <1>2, ResetColumns
  <2>2. /\ bound(r, reset(fetchBindings)) \in [Columns -> [from : Nat, bytes : Nat]]
        /\ boundBindings(r, reset(fetchBindings)) \in [Columns -> Binding]
    BY <2>1, BoundTypes
  <2>3. app' \in [column : Columns, got : [Columns -> Nat],
                  bound : [Columns -> [from : Nat, bytes : Nat]]]
    BY <1>4, <1>5, <2>2 DEF SQLFetch
  <2>4. getDataBindings' \in Seq(Binding) /\ Len(getDataBindings') <= NumColumns
    BY <1>5, ResetSequence DEF SQLFetch
  <2> QED
    BY <1>1, <1>5, <2>2, <2>3, <2>4 DEF SQLFetch, Answer
<1>6. ASSUME NEW result \in {"SQL_NO_DATA", "SQL_ERROR"}, SQLFetchFails(result)
      PROVE  TypeOK'
  BY <1>1, <1>2, <1>4, <1>6, ResetColumns DEF SQLFetchFails, Answer
<1>7. CASE CloseCursor
  <2>1. getDataBindings' \in Seq(Binding) /\ Len(getDataBindings') <= NumColumns
    BY <1>7, NumColumnsAssumption DEF CloseCursor
  <2>2. app' \in [column : Columns, got : [Columns -> Nat],
                  bound : [Columns -> [from : Nat, bytes : Nat]]]
    BY <1>4, <1>7 DEF CloseCursor
  <2> QED
    BY <1>1, <1>7, <2>1, <2>2 DEF CloseCursor, Answer
<1>8. ASSUME NEW c \in Columns, NEW buffer \in Buffers[c], SQLGetData(c, buffer)
      PROVE  TypeOK'
  <2> DEFINE bindings == alloc(getDataBindings, c)
             result == code(c, bindings[c], row[c], buffer)
             bytes == IF Long(c) THEN maxlen(c, bindings[c], row[c], buffer) ELSE 0
  <2>1. c \in Nat /\ c <= NumColumns /\ c \in 1 .. c /\ buffer \in Int
    BY NumColumnsAssumption, LengthsAssumption DEF Columns
  <2>2. row \in RowValues
    BY <1>8 DEF SQLGetData, MayGetData
  <2>3. bindings \in Seq(Binding) /\ Len(bindings) = c /\ bindings[c] \in Binding
    BY <2>1, AllocType
  <2>4. bytes \in Nat /\ setValue(c, bindings[c], row[c], buffer) \in Binding
    BY <2>1, <2>2, <2>3, RowType, MaxlenBounds, SetValueType
  <2>5. getDataBindings' \in Seq(Binding) /\ Len(getDataBindings') <= NumColumns
    BY <1>8, <2>1, <2>3, <2>4 DEF SQLGetData
  <2>6. result \in {"SQL_SUCCESS", "SQL_SUCCESS_WITH_INFO", "SQL_NO_DATA"}
    BY CodeType
  <2>7. received(app.got, c, result, bytes) \in [Columns -> Nat]
    BY <2>4 DEF received
  <2>8. /\ app' = [app EXCEPT !.column = c, !.got = received(app.got, c, result, bytes)]
        /\ ret' = [call |-> "SQLGetData", column |-> c, code |-> result,
                   from |-> bindings[c].offset, bytes |-> bytes]
        /\ UNCHANGED <<row, fetchBindings>>
    BY <1>8 DEF SQLGetData, Answer
  <2>9. app' \in [column : Columns, got : [Columns -> Nat],
                  bound : [Columns -> [from : Nat, bytes : Nat]]]
    BY <2>7, <2>8
  <2>10. ret' \in [call : {"SQLFetch", "SQLFreeStmt", "SQLGetData"}, column : Columns,
                   code : {"SQL_SUCCESS", "SQL_SUCCESS_WITH_INFO", "SQL_NO_DATA", "SQL_ERROR"},
                   from : Nat, bytes : Nat]
    BY <2>3, <2>4, <2>6, <2>8 DEF Binding
  <2> QED
    BY <2>5, <2>8, <2>9, <2>10
<1>9. CASE UNCHANGED vars
  BY <1>9 DEF vars
<1> QED
  BY <1>5, <1>6, <1>7, <1>8, <1>9 DEF Next

LEMMA TypeInit == Init => TypeOK
BY FreshType, NumColumnsAssumption DEF Init, TypeOK, Columns, NoPiece

\* Positions, columns and replies keep their types, whatever values, types and
\* buffers there are.
THEOREM TypeCorrect == Spec => []TypeOK
BY TypeInit, TypeStep, PTL DEF Spec

-----------------------------------------------------------------------------
(***************************************************************************)
(* The bound columns.                                                      *)
(***************************************************************************)
LEMMA BoundStep ==
  ASSUME TypeOK, BoundColumnsFromStart, [Next]_vars
  PROVE  BoundColumnsFromStart'
<1> USE DEF BoundColumnsFromStart
<1>1. ASSUME NEW r \in RowValues, SQLFetch(r)
      PROVE  BoundColumnsFromStart'
  <2>1. reset(fetchBindings) = [c \in Columns |-> Fresh]
    BY ResetColumns DEF TypeOK
  <2>2. row' = r /\ app'.bound = bound(r, [c \in Columns |-> Fresh])
    BY <1>1, <2>1 DEF SQLFetch, NewRow, TypeOK
  <2>3. ASSUME NEW c \in BoundColumns
        PROVE  app'.bound[c] = [from |-> 0,
                                bytes |-> IF room(c, Bound[c]) < 0 THEN 0
                                          ELSE Lesser(room(c, Bound[c]), r[c].length)]
    <3>1. c \in Columns /\ Bound[c] \in Int /\ r[c].length \in Nat
      BY RowType, LengthsAssumption DEF BoundColumns, V
    <3>2. room(c, Bound[c]) \in Int
      BY <3>1, RoomType
    <3>3. app'.bound[c] = [from |-> 0, bytes |-> maxlen(c, Fresh, r[c], Bound[c])]
      BY <2>2, <3>1 DEF bound, Fresh
    <3>4. left(Fresh, r[c]) = r[c].length
      BY <3>1 DEF left, Fresh
    <3> QED
      BY <3>1, <3>2, <3>3, <3>4 DEF maxlen, Lesser
  <2> QED
    BY <2>2, <2>3
<1>2. ASSUME NEW result \in {"SQL_NO_DATA", "SQL_ERROR"}, SQLFetchFails(result)
      PROVE  BoundColumnsFromStart'
  BY <1>2 DEF SQLFetchFails, Answer
<1>3. CASE CloseCursor
  BY <1>3 DEF CloseCursor, Answer
<1>4. ASSUME NEW c \in Columns, NEW buffer \in Buffers[c], SQLGetData(c, buffer)
      PROVE  BoundColumnsFromStart'
  BY <1>4 DEF SQLGetData, Answer
<1>5. CASE UNCHANGED vars
  BY <1>5 DEF vars
<1> QED
  BY <1>1, <1>2, <1>3, <1>4, <1>5 DEF Next

\* A fetch that succeeds puts the start of each bound value into its buffer, as
\* much as the buffer takes: sqlFetch resets the positions between two rows.
THEOREM BoundColumnsCorrect == Spec => []BoundColumnsFromStart
<1>1. Init => BoundColumnsFromStart
  BY DEF Init, BoundColumnsFromStart
<1> QED
  BY <1>1, TypeCorrect, BoundStep, PTL DEF Spec

-----------------------------------------------------------------------------
(***************************************************************************)
(* Reading in pieces.                                                      *)
(***************************************************************************)
\* A position is inside its value, and only a binding that was read from has one.
Inside ==
  row # NoRow =>
    \A c \in Columns : c \in DOMAIN getDataBindings /\ Long(c) =>
      /\ getDataBindings[c].offset <= row[c].length
      /\ getDataBindings[c].count = 0 => getDataBindings[c].offset = 0

\* The columns to the right of the application are still to be read: what the
\* vector loses when it shrinks is nothing.
Ahead ==
  row # NoRow =>
    \A c \in DOMAIN getDataBindings : c > app.column => getDataBindings[c] = Fresh

\* The driver and the application count alike.
Counted ==
  row # NoRow =>
    \A c \in Columns : Long(c) /\ ~row[c].null => app.got[c] = position(c)

StreamInv == Inside /\ Ahead /\ Counted

\* The arithmetic of setValue for one piece of a value.
LEMMA PieceOfValue ==
  ASSUME NEW c \in Columns, NEW b \in Binding, NEW v \in V, NEW buffer \in Int,
         Long(c), b.offset <= v.length, b.count = 0 => b.offset = 0,
         room(c, buffer) >= 0, room(c, buffer) = 0 => b.count = 0, ~v.null
  PROVE  LET n == maxlen(c, b, v, buffer)
             s == setValue(c, b, v, buffer)
             r == code(c, b, v, buffer)
         IN  \/ /\ exhausted(c, b, v, buffer)
                /\ b.offset = v.length /\ n = 0 /\ s = Fresh /\ r = "SQL_NO_DATA"
             \/ /\ ~exhausted(c, b, v, buffer)
                /\ n \in Nat /\ n <= v.length - b.offset
                /\ n > 0 \/ b.offset = 0
                /\ s.offset = b.offset + n /\ s.count = 1
                /\ r = IF b.offset + n < v.length THEN "SQL_SUCCESS_WITH_INFO"
                       ELSE "SQL_SUCCESS"
<1> DEFINE n == maxlen(c, b, v, buffer)
<1>1. /\ room(c, buffer) \in Int
      /\ b.offset \in Nat /\ b.count \in 0 .. 1 /\ v.length \in Nat
      /\ left(b, v) = v.length - b.offset
  BY RoomType DEF Binding, V, left
<1>2. /\ n \in Nat
      /\ left(b, v) <= 0 => n = 0
      /\ left(b, v) > 0 => n = Lesser(room(c, buffer), left(b, v))
  BY <1>1, MaxlenBounds DEF maxlen
<1>3. n <= left(b, v)
  BY <1>1, <1>2 DEF Lesser
<1>4. truncated(c, b, v, buffer) <=> n < left(b, v)
  BY <1>1, <1>2, <1>3 DEF truncated
<1>5. CASE exhausted(c, b, v, buffer)
  <2>1. n = 0 /\ b.count > 0
    BY <1>5 DEF exhausted
  <2>2. left(b, v) <= 0
    BY <1>1, <1>2, <2>1 DEF Lesser
  <2>3. b.offset = v.length
    BY <1>1, <2>2
  <2> QED
    BY <1>1, <1>4, <1>5, <2>1, <2>3 DEF setValue, code
<1>6. CASE ~exhausted(c, b, v, buffer)
  <2>1. n > 0 \/ b.offset = 0
    BY <1>1, <1>2, <1>6 DEF exhausted
  <2>2. setValue(c, b, v, buffer) = [offset |-> b.offset + n, count |-> 1]
    BY <1>6 DEF setValue
  <2>3. code(c, b, v, buffer) = IF n < left(b, v) THEN "SQL_SUCCESS_WITH_INFO"
                                ELSE "SQL_SUCCESS"
    BY <1>4, <1>6 DEF code
  <2> QED
    BY <1>1, <1>2, <1>3, <1>6, <2>1, <2>2, <2>3
<1> QED
  BY <1>5, <1>6

\* Where SQLGetData stands when it is called.
LEMMA GetDataStarts ==
  ASSUME TypeOK, StreamInv, Probes = "first",
         NEW c \in Columns, NEW buffer \in Buffers[c], MayGetData(c, buffer)
  PROVE  LET b == alloc(getDataBindings, c)[c]
         IN  /\ row \in RowValues /\ row # NoRow /\ row[c] \in V
             /\ b \in Binding /\ buffer \in Int
             /\ Long(c) => /\ position(c) = b.offset
                           /\ b.offset <= row[c].length
                           /\ b.count = 0 => b.offset = 0
                           /\ room(c, buffer) >= 0
                           /\ room(c, buffer) = 0 => b.count = 0
<1> DEFINE b == alloc(getDataBindings, c)[c]
<1>1. row \in RowValues /\ row # NoRow /\ row[c] \in V
  BY RowType DEF MayGetData, TypeOK
<1>2. c \in Nat /\ c \in 1 .. c /\ buffer \in Int
  BY NumColumnsAssumption, LengthsAssumption DEF Columns
<1>3. /\ getDataBindings \in Seq(Binding)
      /\ c <= Len(getDataBindings) => c \in DOMAIN getDataBindings /\ b = getDataBindings[c]
      /\ c > Len(getDataBindings) => c \notin DOMAIN getDataBindings /\ b = Fresh
  <2>1. getDataBindings \in Seq(Binding)
    BY DEF TypeOK
  <2>2. /\ c <= Len(getDataBindings) => b = getDataBindings[c]
        /\ c > Len(getDataBindings) => b = Fresh
    BY <1>2, <2>1, AllocType
  <2>3. DOMAIN getDataBindings = 1 .. Len(getDataBindings)
    BY <2>1
  <2>4. c \in Nat \ {0} /\ Len(getDataBindings) \in Nat
    BY <1>2, <2>1
  <2> QED
    BY <2>1, <2>2, <2>3, <2>4
<1>4. b \in Binding
  BY <1>2, AllocType, <1>3
<1>5. ASSUME Long(c)
      PROVE  /\ position(c) = b.offset
             /\ b.offset <= row[c].length
             /\ b.count = 0 => b.offset = 0
  <2>1. CASE c <= Len(getDataBindings)
    BY <1>1, <1>2, <1>3, <1>5, <2>1 DEF position, StreamInv, Inside
  <2>2. CASE c > Len(getDataBindings)
    BY <1>1, <1>2, <1>3, <1>5, <2>2 DEF position, Fresh, V
  <2> QED
    BY <1>2, <1>3, <2>1, <2>2
<1>6. ASSUME Long(c)
      PROVE  room(c, buffer) >= 0 /\ (room(c, buffer) = 0 => b.count = 0)
  <2>1. room(c, buffer) >= 0 /\ (room(c, buffer) = 0 => ~asked(c))
    BY <1>6 DEF MayGetData
  <2>2. ~asked(c) => b.count = 0
    <3>1. CASE c <= Len(getDataBindings)
      BY <1>2, <1>3, <1>4, <3>1 DEF asked, Binding
    <3>2. CASE c > Len(getDataBindings)
      BY <1>2, <1>3, <3>2 DEF Fresh
    <3> QED
      BY <1>2, <1>3, <3>1, <3>2
  <2> QED
    BY <2>1, <2>2
<1> QED
  BY <1>1, <1>2, <1>4, <1>5, <1>6

\* What SQLGetData leaves of the bindings.
LEMMA GetDataBindings ==
  ASSUME TypeOK, StreamInv, Probes = "first",
         NEW c \in Columns, NEW buffer \in Buffers[c], SQLGetData(c, buffer)
  PROVE  LET b == alloc(getDataBindings, c)[c]
         IN  /\ DOMAIN getDataBindings' = 1 .. c /\ Len(getDataBindings') = c
             /\ getDataBindings'[c] = setValue(c, b, row[c], buffer)
             /\ \A d \in 1 .. c - 1 : \/ d \in DOMAIN getDataBindings
                                         /\ getDataBindings'[d] = getDataBindings[d]
                                      \/ d \notin DOMAIN getDataBindings
                                         /\ getDataBindings'[d] = Fresh
             /\ \A d \in Columns \ {c} : position(d)' = position(d)
<1> DEFINE bindings == alloc(getDataBindings, c)
<1>1. c \in Nat /\ c \in 1 .. c /\ buffer \in Int /\ Columns \subseteq Nat \ {0}
  BY NumColumnsAssumption, LengthsAssumption DEF Columns
<1>2. /\ getDataBindings \in Seq(Binding)
      /\ bindings \in Seq(Binding) /\ Len(bindings) = c
      /\ \A d \in 1 .. c : /\ d <= Len(getDataBindings) => bindings[d] = getDataBindings[d]
                           /\ d > Len(getDataBindings) => bindings[d] = Fresh
  BY <1>1, AllocType DEF TypeOK
<1>3. /\ getDataBindings' = [bindings EXCEPT ![c] = setValue(c, bindings[c], row[c], buffer)]
      /\ row' = row /\ row # NoRow /\ c >= app.column
  BY <1>1 DEF SQLGetData, MayGetData
<1>4. DOMAIN getDataBindings' = 1 .. c /\ Len(getDataBindings') = c
  BY <1>1, <1>2, <1>3, AllocType, GetDataStarts, SetValueType DEF SQLGetData
<1>5. getDataBindings'[c] = setValue(c, bindings[c], row[c], buffer)
  BY <1>1, <1>2, <1>3
<1>6. \A d \in 1 .. c - 1 : \/ d \in DOMAIN getDataBindings
                               /\ getDataBindings'[d] = getDataBindings[d]
                            \/ d \notin DOMAIN getDataBindings
                               /\ getDataBindings'[d] = Fresh
  BY <1>1, <1>2, <1>3
<1>7. \A d \in Columns \ {c} : position(d)' = position(d)
  <2> SUFFICES ASSUME NEW d \in Columns, d # c
               PROVE  position(d)' = position(d)
    OBVIOUS
  <2> USE DEF position
  <2>1. d \in Nat \ {0} /\ DOMAIN getDataBindings = 1 .. Len(getDataBindings)
        /\ Len(getDataBindings) \in Nat
    BY <1>1, <1>2
  <2>2. CASE d < c
    <3>1. d \in 1 .. c - 1 /\ ~(d > c)
      BY <1>1, <2>1, <2>2
    <3>2. CASE d <= Len(getDataBindings)
      <4>1. getDataBindings'[d] = getDataBindings[d]
        BY <1>6, <2>1, <3>1, <3>2
      <4> QED
        BY <1>1, <1>3, <1>4, <2>1, <3>1, <3>2, <4>1
    <3>3. CASE d > Len(getDataBindings)
      <4>1. getDataBindings'[d] = Fresh
        BY <1>6, <2>1, <3>1, <3>3
      <4> QED
        BY <1>1, <1>3, <1>4, <2>1, <3>1, <3>3, <4>1 DEF Fresh
    <3> QED
      BY <2>1, <3>2, <3>3
  <2>3. CASE d > c
    <3>1. app.column \in Int
      BY NumColumnsAssumption DEF TypeOK, Columns
    <3>2. d > app.column
      <4>1. c \in Int /\ d \in Int /\ c >= app.column
        BY <1>1, <1>3, <2>1
      <4> QED
        BY <2>3, <3>1, <4>1
    <3>3. d \in DOMAIN getDataBindings => getDataBindings[d] = Fresh
      BY <1>3, <3>2 DEF StreamInv, Ahead
    <3> QED
      BY <1>1, <1>3, <1>4, <2>1, <2>3, <3>3 DEF Fresh
  <2> QED
    BY <1>1, <2>1, <2>2, <2>3
<1> QED
  BY <1>4, <1>5, <1>6, <1>7

\* A column that is not a long value, or is null, keeps its position.
LEMMA WholeValue ==
  ASSUME NEW c \in Columns, NEW b \in Binding, NEW v \in V, NEW buffer \in Int,
         v.null => v.length = 0, Long(c), v.null, b.offset <= v.length
  PROVE  /\ maxlen(c, b, v, buffer) = 0
         /\ setValue(c, b, v, buffer) = b
         /\ code(c, b, v, buffer) = "SQL_SUCCESS"
<1>1. b.offset = 0 /\ left(b, v) = 0 /\ b = [offset |-> b.offset, count |-> b.count]
  BY DEF Binding, V, left
<1>2. maxlen(c, b, v, buffer) = 0
  BY <1>1 DEF maxlen
<1> QED
  BY <1>1, <1>2 DEF setValue, code, truncated, exhausted

\* What a call of SQLGetData does to the position of its own column, and tells.
LEMMA GetDataMoves ==
  ASSUME TypeOK, StreamInv, Probes = "first",
         NEW c \in Columns, NEW buffer \in Buffers[c], SQLGetData(c, buffer), Long(c)
  PROVE  /\ position(c)' \in Nat /\ position(c)' <= row[c].length
         /\ getDataBindings'[c].offset = position(c)'
         /\ getDataBindings'[c].count = 0 => position(c)' = 0
         /\ row[c].null => /\ position(c)' = 0 /\ ret'.bytes = 0
                           /\ ret'.code # "SQL_NO_DATA"
         /\ ~row[c].null =>
              \/ /\ ret'.code = "SQL_NO_DATA" /\ ret'.from = row[c].length /\ ret'.bytes = 0
                 /\ position(c) = row[c].length /\ position(c)' = 0
              \/ /\ ret'.from = position(c) /\ ret'.bytes \in Nat
                 /\ ret'.bytes <= row[c].length - position(c)
                 /\ ret'.bytes > 0 \/ position(c) = 0
                 /\ position(c)' = position(c) + ret'.bytes
                 /\ ret'.code = IF position(c)' < row[c].length
                                THEN "SQL_SUCCESS_WITH_INFO" ELSE "SQL_SUCCESS"
<1> DEFINE b == alloc(getDataBindings, c)[c]
           v == row[c]
           n == maxlen(c, b, v, buffer)
<1>1. MayGetData(c, buffer)
  BY DEF SQLGetData
<1>2. /\ row \in RowValues /\ row # NoRow /\ v \in V
      /\ b \in Binding /\ buffer \in Int
      /\ position(c) = b.offset /\ b.offset <= v.length
      /\ b.count = 0 => b.offset = 0
      /\ room(c, buffer) >= 0 /\ (room(c, buffer) = 0 => b.count = 0)
  BY <1>1, GetDataStarts
<1>3. DOMAIN getDataBindings' = 1 .. c /\ Len(getDataBindings') = c
      /\ getDataBindings'[c] = setValue(c, b, v, buffer)
  BY GetDataBindings
<1>4. /\ row' = row
      /\ ret' = [call |-> "SQLGetData", column |-> c, code |-> code(c, b, v, buffer),
                 from |-> b.offset, bytes |-> n]
  BY DEF SQLGetData, Answer
<1>5. position(c)' = getDataBindings'[c].offset
  <2>1. c \in Nat
    BY NumColumnsAssumption DEF Columns
  <2> QED
    BY <1>2, <1>3, <1>4, <2>1 DEF position
<1>6. v.length \in Nat /\ b.offset \in Nat
  BY <1>2 DEF V, Binding
<1>7. CASE v.null
  <2>1. v.length = 0
    BY <1>2, <1>7, RowType
  <2>2. setValue(c, b, v, buffer) = b /\ n = 0 /\ code(c, b, v, buffer) = "SQL_SUCCESS"
    BY <1>2, <1>7, <2>1, WholeValue
  <2> QED
    BY <1>2, <1>3, <1>4, <1>5, <1>6, <1>7, <2>1, <2>2
<1>8. CASE ~v.null
  <2> DEFINE s == setValue(c, b, v, buffer)
             r == code(c, b, v, buffer)
  <2>1. \/ b.offset = v.length /\ n = 0 /\ s = Fresh /\ r = "SQL_NO_DATA"
        \/ /\ n \in Nat /\ n <= v.length - b.offset
           /\ n > 0 \/ b.offset = 0
           /\ s.offset = b.offset + n /\ s.count = 1
           /\ r = IF b.offset + n < v.length THEN "SQL_SUCCESS_WITH_INFO" ELSE "SQL_SUCCESS"
    BY <1>2, <1>8, PieceOfValue
  <2>2. CASE b.offset = v.length /\ n = 0 /\ s = Fresh /\ r = "SQL_NO_DATA"
    BY <1>2, <1>3, <1>4, <1>5, <1>6, <1>8, <2>2 DEF Fresh
  <2>3. CASE /\ n \in Nat /\ n <= v.length - b.offset
             /\ n > 0 \/ b.offset = 0
             /\ s.offset = b.offset + n /\ s.count = 1
             /\ r = IF b.offset + n < v.length THEN "SQL_SUCCESS_WITH_INFO"
                    ELSE "SQL_SUCCESS"
    <3>1. position(c)' = position(c) + n /\ position(c)' \in Nat
          /\ position(c)' <= v.length
      BY <1>2, <1>3, <1>5, <1>6, <2>3
    <3>2. ret'.code = IF position(c)' < v.length THEN "SQL_SUCCESS_WITH_INFO"
                      ELSE "SQL_SUCCESS"
      BY <1>2, <1>4, <2>3, <3>1
    <3> QED
      BY <1>2, <1>3, <1>4, <1>5, <1>8, <2>3, <3>1, <3>2
  <2> QED
    BY <2>1, <2>2, <2>3
<1> QED
  BY <1>7, <1>8

\* A call of SQLGetData keeps the invariant, and its reply says how much of the
\* value the application has.
LEMMA GetDataKeeps ==
  ASSUME TypeOK, StreamInv, Probes = "first",
         NEW c \in Columns, NEW buffer \in Buffers[c], SQLGetData(c, buffer)
  PROVE  StreamInv' /\ MoreIsTold'
<1>1. /\ row \in RowValues /\ row' = row /\ row # NoRow
      /\ ret'.call = "SQLGetData" /\ ret'.column = c
      /\ app'.column = c
      /\ app'.got = received(app.got, c, ret'.code, ret'.bytes)
  BY DEF SQLGetData, MayGetData, Answer, TypeOK
<1>2. /\ DOMAIN getDataBindings' = 1 .. c
      /\ \A d \in 1 .. c - 1 : \/ d \in DOMAIN getDataBindings
                                  /\ getDataBindings'[d] = getDataBindings[d]
                               \/ d \notin DOMAIN getDataBindings
                                  /\ getDataBindings'[d] = Fresh
      /\ \A d \in Columns \ {c} : position(d)' = position(d)
  BY GetDataBindings
<1>3. c \in Nat \ {0} /\ \A d \in Columns : row[d].length \in Nat
  BY <1>1, RowType, NumColumnsAssumption DEF Columns, V
<1>4. Inside'
  <2> SUFFICES ASSUME NEW d \in Columns, d \in 1 .. c, Long(d)
               PROVE  /\ getDataBindings'[d].offset <= row[d].length
                      /\ getDataBindings'[d].count = 0 => getDataBindings'[d].offset = 0
    BY <1>1, <1>2 DEF Inside
  <2>1. CASE d = c
    BY <2>1, GetDataMoves
  <2>2. CASE d # c
    <3>1. d \in 1 .. c - 1
      BY <1>3, <2>2
    <3>2. CASE d \in DOMAIN getDataBindings /\ getDataBindings'[d] = getDataBindings[d]
      BY <1>1, <3>2 DEF StreamInv, Inside
    <3>3. CASE getDataBindings'[d] = Fresh
      BY <1>3, <3>3 DEF Fresh
    <3> QED
      BY <1>2, <3>1, <3>2, <3>3
  <2> QED
    BY <2>1, <2>2
<1>5. Ahead'
  BY <1>1, <1>2, <1>3 DEF Ahead
<1>6. ASSUME NEW d \in Columns, Long(d), ~row[d].null
      PROVE  app'.got[d] = position(d)'
  <2>1. app.got \in [Columns -> Nat] /\ app.got[d] = position(d)
    BY <1>1, <1>6 DEF StreamInv, Counted, TypeOK
  <2>2. CASE d = c
    <3>1. CASE ret'.code = "SQL_NO_DATA"
      <4>1. position(c)' = 0
        BY <1>3, <1>6, <2>2, <3>1, GetDataMoves
      <4> QED
        BY <1>1, <2>1, <2>2, <3>1, <4>1 DEF received
    <3>2. CASE ret'.code # "SQL_NO_DATA"
      <4>1. position(c)' = position(c) + ret'.bytes
        BY <1>6, <2>2, <3>2, GetDataMoves
      <4> QED
        BY <1>1, <2>1, <2>2, <3>2, <4>1 DEF received
    <3> QED
      BY <3>1, <3>2
  <2>3. CASE d # c
    <3>1. app'.got[d] = app.got[d]
      BY <1>1, <2>1, <2>3 DEF received
    <3> QED
      BY <1>2, <2>1, <2>3, <3>1
  <2> QED
    BY <2>2, <2>3
<1>7. Counted'
  BY <1>1, <1>6 DEF Counted
<1>8. MoreIsTold'
  <2> SUFFICES ASSUME Long(c), ~row[c].null
               PROVE  /\ ret'.code = "SQL_SUCCESS_WITH_INFO"
                           <=> ret'.from + ret'.bytes < row[c].length
                      /\ ret'.code = "SQL_SUCCESS" => app'.got[c] = row[c].length
    BY <1>1 DEF MoreIsTold, GotData
  <2>1. app'.got[c] = position(c)' /\ row[c].length \in Nat
    BY <1>3, <1>6
  <2>2. CASE /\ ret'.code = "SQL_NO_DATA" /\ ret'.from = row[c].length /\ ret'.bytes = 0
    BY <2>1, <2>2
  <2>3. CASE /\ ret'.from = position(c)
             /\ position(c)' = position(c) + ret'.bytes
             /\ position(c)' \in Nat /\ position(c)' <= row[c].length
             /\ ret'.code = IF position(c)' < row[c].length
                            THEN "SQL_SUCCESS_WITH_INFO" ELSE "SQL_SUCCESS"
    BY <2>1, <2>3
  <2> QED
    BY <2>2, <2>3, GetDataMoves
<1> QED
  BY <1>4, <1>5, <1>7, <1>8 DEF StreamInv

LEMMA StreamInvStep ==
  ASSUME TypeOK, StreamInv, MoreIsTold, Probes = "first", [Next]_vars
  PROVE  StreamInv' /\ MoreIsTold'
<1>1. ASSUME NEW r \in RowValues, SQLFetch(r)
      PROVE  StreamInv' /\ MoreIsTold'
  <2>1. /\ row' = r /\ app'.column = 1 /\ app'.got = [c \in Columns |-> 0]
        /\ getDataBindings' = reset(getDataBindings)
        /\ ret'.call = "SQLFetch"
    BY <1>1 DEF SQLFetch, NewRow, Answer, TypeOK
  <2>2. \A c \in DOMAIN getDataBindings' : getDataBindings'[c] = Fresh
    BY <2>1 DEF reset
  <2>3. \A c \in Columns : r[c].length \in Nat
    BY RowType DEF V
  <2>4. DOMAIN getDataBindings' = 1 .. Len(getDataBindings') /\ Len(getDataBindings') \in Nat
    BY <2>1, ResetSequence DEF TypeOK
  <2>5. \A c \in Columns : position(c)' = 0
    BY <2>2, <2>4, NumColumnsAssumption DEF position, Fresh, Columns
  <2> QED
    BY <2>1, <2>2, <2>3, <2>5
    DEF StreamInv, Inside, Ahead, Counted, MoreIsTold, GotData, Fresh
<1>2. ASSUME NEW result \in {"SQL_NO_DATA", "SQL_ERROR"}, SQLFetchFails(result)
      PROVE  StreamInv' /\ MoreIsTold'
  BY <1>2 DEF SQLFetchFails, Answer, StreamInv, Inside, Ahead, Counted, MoreIsTold, GotData
<1>3. CASE CloseCursor
  BY <1>3 DEF CloseCursor, Answer, StreamInv, Inside, Ahead, Counted, MoreIsTold, GotData
<1>4. ASSUME NEW c \in Columns, NEW buffer \in Buffers[c], SQLGetData(c, buffer)
      PROVE  StreamInv' /\ MoreIsTold'
  BY <1>4, GetDataKeeps
<1>5. CASE UNCHANGED vars
  BY <1>5 DEF vars, StreamInv, Inside, Ahead, Counted, MoreIsTold, GotData, position
<1> QED
  BY <1>1, <1>2, <1>3, <1>4, <1>5 DEF Next

LEMMA StreamInvInit == Init => StreamInv /\ MoreIsTold
BY DEF Init, StreamInv, Inside, Ahead, Counted, MoreIsTold, GotData

\* With buffers for nothing offered only at the start of a value, the code of
\* SQLGetData tells whether bytes of the value are still to come, and the
\* application that is told it has the last has them all.
THEOREM MoreIsToldCorrect ==
  ASSUME Probes = "first"
  PROVE  Spec => []MoreIsTold
BY TypeCorrect, StreamInvInit, StreamInvStep, PTL DEF Spec

-----------------------------------------------------------------------------
(***************************************************************************)
(* The refinement.                                                         *)
(***************************************************************************)
LEMMA StreamInit == Init => Stream!Init
BY DEF Init, Stream!Init, Stream!Start, Stream!Silence, Stream!NoRow, NoRow,
       streamAt, streamPos, position, streamReply

\* Another row, or none: the stream moves.
LEMMA StreamMoves ==
  ASSUME row' \in RowValues \cup {NoRow}, ret'.call # "SQLGetData",
         \A c \in Columns : position(c)' = 0
  PROVE  Stream!Move
<1>1. streamAt' \in streamRows \cup {NoRow}
  BY DEF streamAt, streamRows
<1>2. streamPos' = [c \in Columns |-> 0]
  BY DEF streamPos
<1>3. streamReply' = [kind |-> "none"]
  BY DEF streamReply
<1> QED
  BY <1>1, <1>2, <1>3 DEF Stream!Move, Stream!Start, Stream!Silence, Stream!NoRow, NoRow

LEMMA StreamReads ==
  ASSUME TypeOK, StreamInv, Probes = "first",
         NEW c \in Columns, NEW buffer \in Buffers[c], SQLGetData(c, buffer)
  PROVE  Stream!Next
<1>1. /\ row \in RowValues /\ row' = row /\ row # NoRow
      /\ ret'.call = "SQLGetData" /\ ret'.column = c
  BY DEF SQLGetData, MayGetData, Answer, TypeOK
<1>2. streamAt' = streamAt /\ streamAt = streamRow(row)
  BY <1>1 DEF streamAt
<1>3. streamAt # Stream!NoRow /\ streamAt[c] = streamValue(row[c], c)
  <2>1. DOMAIN streamAt = Columns
    BY <1>2 DEF streamRow
  <2>2. DOMAIN Stream!NoRow = {}
    BY DEF Stream!NoRow
  <2> QED
    BY <1>2, <2>1, <2>2 DEF streamRow
<1>4. \A d \in Columns : streamPos[d] = position(d) /\ streamPos'[d] = position(d)'
  BY DEF streamPos
<1>5. \A d \in Columns \ {c} : streamPos'[d] = streamPos[d]
  BY <1>4, GetDataBindings
<1>6. streamPos' = [streamPos EXCEPT ![c] = position(c)']
  BY <1>4, <1>5 DEF streamPos
<1>7. row[c].length \in Nat
  BY <1>1, RowType DEF V
<1>8. CASE Long(c) /\ ~row[c].null
  <2>1. streamAt[c] = row[c].length /\ Stream!Read(c)
    BY <1>3, <1>7, <1>8 DEF streamValue, Stream!Read, Stream!Whole
  <2>2. streamReply' = IF ret'.code = "SQL_NO_DATA" THEN [kind |-> "end", column |-> c]
                       ELSE [kind |-> IF ret'.code = "SQL_SUCCESS" THEN "last" ELSE "more",
                             column |-> c, from |-> ret'.from, bytes |-> ret'.bytes]
    BY <1>1, <1>8 DEF streamReply, GotData, Long
  <2>3. CASE /\ ret'.code = "SQL_NO_DATA"
             /\ position(c) = row[c].length /\ position(c)' = 0
    <3>1. Stream!End(c)
      BY <1>2, <1>4, <1>6, <2>1, <2>2, <2>3 DEF Stream!End
    <3> QED
      BY <3>1 DEF Stream!Next
  <2>4. CASE /\ ret'.from = position(c) /\ ret'.bytes \in Nat
             /\ ret'.bytes <= row[c].length - position(c)
             /\ ret'.bytes > 0 \/ position(c) = 0
             /\ position(c)' = position(c) + ret'.bytes
             /\ ret'.code = IF position(c)' < row[c].length
                            THEN "SQL_SUCCESS_WITH_INFO" ELSE "SQL_SUCCESS"
    <3>1. position(c) \in Nat
      BY <1>8, GetDataStarts DEF SQLGetData, Binding
    <3>2. ret'.bytes \in 0 .. streamAt[c]
      BY <1>7, <2>1, <2>4, <3>1
    <3>3. streamReply' = [kind |-> IF streamPos[c] + ret'.bytes < streamAt[c]
                                   THEN "more" ELSE "last",
                          column |-> c, from |-> streamPos[c], bytes |-> ret'.bytes]
      BY <1>4, <2>1, <2>2, <2>4
    <3>4. Stream!Piece(c, ret'.bytes)
      BY <1>2, <1>4, <1>6, <2>1, <2>4, <3>3 DEF Stream!Piece
    <3> QED
      BY <2>1, <3>2, <3>4 DEF Stream!Next
  <2> QED
    BY <1>8, <2>3, <2>4, GetDataMoves
<1>9. CASE ~Long(c) \/ row[c].null
  <2>1. streamAt[c] = -1
    BY <1>3, <1>9 DEF streamValue
  <2>2. streamReply' = [kind |-> "whole", column |-> c]
    BY <1>1, <1>9 DEF streamReply, GotData, Long
  <2>3. position(c)' = position(c)
    <3>1. CASE ~Long(c)
      BY <3>1 DEF position, Long
    <3>2. CASE Long(c)
      <4>1. row[c].null /\ row[c].length = 0 /\ position(c)' = 0
        BY <1>1, <1>9, <3>2, RowType, GetDataMoves
      <4>2. position(c) \in Nat /\ position(c) <= row[c].length
        BY <3>2, GetDataStarts DEF SQLGetData, Binding
      <4> QED
        BY <4>1, <4>2
    <3> QED
      BY <3>1, <3>2
  <2>4. streamPos' = streamPos
    BY <1>4, <1>6, <2>3 DEF streamPos
  <2>5. Stream!ReadWhole(c)
    BY <1>2, <1>3, <2>1, <2>2, <2>4 DEF Stream!ReadWhole, Stream!Whole
  <2> QED
    BY <2>5 DEF Stream!Next
<1> QED
  BY <1>8, <1>9

LEMMA StreamStep ==
  ASSUME TypeOK, StreamInv, Probes = "first", [Next]_vars
  PROVE  [Stream!Next]_Stream!vars
<1>1. ASSUME NEW r \in RowValues, SQLFetch(r)
      PROVE  Stream!Next
  <2>1. row' = r /\ ret'.call = "SQLFetch" /\ getDataBindings' = reset(getDataBindings)
    BY <1>1 DEF SQLFetch, Answer
  <2>2. \A c \in DOMAIN getDataBindings' : getDataBindings'[c] = Fresh
    BY <2>1 DEF reset
  <2>3. DOMAIN getDataBindings' = 1 .. Len(getDataBindings') /\ Len(getDataBindings') \in Nat
    BY <2>1, ResetSequence DEF TypeOK
  <2>4. \A c \in Columns : position(c)' = 0
    BY <2>2, <2>3, NumColumnsAssumption DEF position, Fresh, Columns
  <2> QED
    BY <2>1, <2>4, StreamMoves DEF Stream!Next
<1>2. ASSUME NEW result \in {"SQL_NO_DATA", "SQL_ERROR"}, SQLFetchFails(result)
      PROVE  Stream!Next
  <2>1. row' = NoRow /\ ret'.call = "SQLFetch" /\ \A c \in Columns : position(c)' = 0
    BY <1>2 DEF SQLFetchFails, Answer, position
  <2> QED
    BY <2>1, StreamMoves DEF Stream!Next
<1>3. CASE CloseCursor
  <2>1. row' = NoRow /\ ret'.call = "SQLFreeStmt" /\ \A c \in Columns : position(c)' = 0
    BY <1>3 DEF CloseCursor, Answer, position
  <2> QED
    BY <2>1, StreamMoves DEF Stream!Next
<1>4. ASSUME NEW c \in Columns, NEW buffer \in Buffers[c], SQLGetData(c, buffer)
      PROVE  Stream!Next
  BY <1>4, StreamReads
<1>5. CASE UNCHANGED vars
  BY <1>5 DEF vars, Stream!vars, streamAt, streamPos, position, streamReply, GotData
<1> QED
  BY <1>1, <1>2, <1>3, <1>4, <1>5 DEF Next

\* SQLGetData implements the stream: over any columns, values and buffers no byte
\* is delivered twice or left out, and SQL_NO_DATA comes after the last.
THEOREM StreamCorrect ==
  ASSUME Probes = "first"
  PROVE  Spec => StreamSpec
BY TypeCorrect, StreamInvInit, StreamInvStep, StreamInit, StreamStep, PTL
DEF Spec, StreamSpec, Stream!Spec
-----------------------------------------------------------------------------
(***************************************************************************)
(* The end of a value.                                                     *)
(***************************************************************************)
bindingOf(c) == IF c \in DOMAIN getDataBindings THEN getDataBindings[c] ELSE Fresh

\* The bytes of the value in column c still to be delivered, and one call more
\* while the first has not told its length.
ToRead(c) == row[c].length - bindingOf(c).offset + (1 - bindingOf(c).count)

ToReadCounted == row # NoRow => \A c \in Columns : Long(c) => ToRead(c) \in Nat

\* A call of SQLGetData for a value reports the end if and only if nothing is
\* left to read of it, and otherwise leaves less to read.
ReadsOn(c, buffer) ==
  SQLGetData(c, buffer) /\ Long(c) /\ ~row[c].null =>
    \/ ret'.code = "SQL_NO_DATA" /\ ToRead(c) = 0
    \/ ret'.code # "SQL_NO_DATA" /\ ToRead(c)' < ToRead(c)
ReadForward == [][\A c \in Columns : \A buffer \in Buffers[c] : ReadsOn(c, buffer)]_vars

LEMMA ToReadBounded ==
  ASSUME TypeOK, StreamInv
  PROVE  ToReadCounted
<1> SUFFICES ASSUME row # NoRow, NEW c \in Columns, Long(c)
             PROVE  ToRead(c) \in Nat
  BY DEF ToReadCounted
<1>1. row[c].length \in Nat
  BY RowType DEF TypeOK, V
<1>2. CASE c \in DOMAIN getDataBindings
  <2>1. getDataBindings[c] \in Binding /\ getDataBindings[c].offset <= row[c].length
    BY <1>2 DEF TypeOK, StreamInv, Inside
  <2> QED
    BY <1>1, <1>2, <2>1 DEF ToRead, bindingOf, Binding
<1>3. CASE c \notin DOMAIN getDataBindings
  BY <1>1, <1>3 DEF ToRead, bindingOf, Fresh
<1> QED
  BY <1>2, <1>3

LEMMA GetDataReadsOn ==
  ASSUME TypeOK, StreamInv, Probes = "first",
         NEW c \in Columns, NEW buffer \in Buffers[c], SQLGetData(c, buffer),
         Long(c), ~row[c].null
  PROVE  \/ ret'.code = "SQL_NO_DATA" /\ ToRead(c) = 0
         \/ ret'.code # "SQL_NO_DATA" /\ ToRead(c)' < ToRead(c)
<1> DEFINE b == alloc(getDataBindings, c)[c]
           n == maxlen(c, b, row[c], buffer)
           s == setValue(c, b, row[c], buffer)
<1>1. /\ row[c] \in V /\ b \in Binding /\ buffer \in Int
      /\ b.offset <= row[c].length /\ (b.count = 0 => b.offset = 0)
      /\ room(c, buffer) >= 0 /\ (room(c, buffer) = 0 => b.count = 0)
  BY GetDataStarts DEF SQLGetData
<1>2. bindingOf(c) = b
  <2>1. c \in Nat /\ c \in 1 .. c
    BY NumColumnsAssumption DEF Columns
  <2>2. getDataBindings \in Seq(Binding)
    BY DEF TypeOK
  <2>3. /\ c <= Len(getDataBindings) => b = getDataBindings[c]
        /\ c > Len(getDataBindings) => b = Fresh
    BY <2>1, <2>2, AllocType
  <2> QED
    BY <2>1, <2>2, <2>3 DEF bindingOf
<1>3. row' = row /\ bindingOf(c)' = s
  <2>1. DOMAIN getDataBindings' = 1 .. c /\ getDataBindings'[c] = s
    BY GetDataBindings
  <2>2. c \in 1 .. c
    BY NumColumnsAssumption DEF Columns
  <2> QED
    BY <2>1, <2>2 DEF bindingOf, SQLGetData
<1>4. ret'.code = code(c, b, row[c], buffer)
  BY DEF SQLGetData, Answer
<1>5. \/ /\ exhausted(c, b, row[c], buffer)
         /\ b.offset = row[c].length /\ ret'.code = "SQL_NO_DATA"
      \/ /\ ~exhausted(c, b, row[c], buffer)
         /\ n \in Nat /\ n = maxlen(c, b, row[c], buffer)
         /\ s.offset = b.offset + n /\ s.count = 1
         /\ ret'.code # "SQL_NO_DATA"
  BY <1>1, <1>4, PieceOfValue
<1>6. /\ row[c].length \in Nat /\ b.offset \in Nat /\ b.count \in 0 .. 1
      /\ ToRead(c) = row[c].length - b.offset + (1 - b.count)
      /\ ToRead(c)' = row[c].length - s.offset + (1 - s.count)
  BY <1>1, <1>2, <1>3 DEF ToRead, V, Binding
<1> HIDE DEF b, n, s
<1>7. CASE exhausted(c, b, row[c], buffer)
  <2>1. b.count > 0 /\ ret'.code = "SQL_NO_DATA" /\ b.offset = row[c].length
    BY <1>5, <1>7 DEF exhausted
  <2> QED
    BY <1>6, <2>1
<1>8. CASE ~exhausted(c, b, row[c], buffer)
  <2>1. n > 0 \/ b.count = 0
    BY <1>5, <1>6, <1>8 DEF exhausted
  <2> QED
    BY <1>5, <1>6, <1>8, <2>1
<1> QED
  BY <1>7, <1>8

\* An application that goes on reading a column reaches its end: what is left to
\* read is a number that every call lowers, and SQL_NO_DATA comes if and only if
\* it is nought, over every mix of buffer sizes.
THEOREM ReadForwardCorrect ==
  ASSUME Probes = "first"
  PROVE  Spec => ReadForward /\ []ToReadCounted
<1>1. Init => TypeOK /\ StreamInv /\ MoreIsTold
  BY TypeInit, StreamInvInit
<1>2. TypeOK /\ StreamInv /\ MoreIsTold /\ [Next]_vars
        => (TypeOK /\ StreamInv /\ MoreIsTold)'
  BY TypeStep, StreamInvStep
<1>3. TypeOK /\ StreamInv => \A c \in Columns : \A buffer \in Buffers[c] : ReadsOn(c, buffer)
  BY GetDataReadsOn DEF ReadsOn
<1>4. TypeOK /\ StreamInv => ToReadCounted
  BY ToReadBounded
<1> QED
  BY <1>1, <1>2, <1>3, <1>4, PTL DEF Spec, ReadForward

=============================================================================
