--------------------------- MODULE TypeInfoProofs ---------------------------
(***************************************************************************)
(* Theorems about TypeInfo: its types, what SQLGetData says of a type, and *)
(* that the mapped cursors implement FilteredCursor; what holds of them    *)
(* where a handle is reused under a limit; and that a fetch comes nearer   *)
(* to its end with every step.                                             *)
(***************************************************************************)
EXTENDS TypeInfo, FiniteSetTheorems, TLAPS

-----------------------------------------------------------------------------
(***************************************************************************)
(* Types.                                                                  *)
(***************************************************************************)
LEMMA MapTypeType ==
  ASSUME NEW t \in SqlTypes
  PROVE  mapType(t) \in SqlTypes /\ mapType(t) \in OdbcTypes
<1>1. CASE t = "BLOB"
  BY <1>1 DEF mapType, SqlTypes, OdbcTypes
<1>2. CASE t = "CLOB"
  BY <1>2 DEF mapType, SqlTypes, OdbcTypes
<1>3. CASE t \notin {"BLOB", "CLOB"}
  BY <1>3 DEF mapType, SqlTypes, OdbcTypes
<1> QED
  BY <1>1, <1>2, <1>3

\* The types an application may ask for are those the mapper leaves alone.
LEMMA MapTypeFixed ==
  ASSUME NEW t \in OdbcTypes
  PROVE  t \in SqlTypes /\ mapType(t) = t
<1>1. PICK u \in SqlTypes : t = mapType(u)
  BY DEF OdbcTypes
<1>2. t \in SqlTypes
  BY <1>1, MapTypeType
<1>3. t # "BLOB" /\ t # "CLOB"
  BY <1>1 DEF mapType, SqlTypes
<1> QED
  BY <1>2, <1>3 DEF mapType

LEMMA NoTypeIsNone == "none" \notin Asked \cup {AnyType}
<1>1. "none" \notin SqlTypes
  BY DEF SqlTypes
<1> QED
  BY <1>1, MapTypeFixed, AskedAssumption DEF AnyType

LEMMA CursorType ==
  ASSUME NEW rows \in Results, NEW filter \in Asked \cup {AnyType}
  PROVE  /\ ResultSetMapper(rows, filter) \in ResultSets
         /\ Plain(rows) \in ResultSets
         /\ ResultSetMapper(rows, filter) # NoResultSet
         /\ Plain(rows) # NoResultSet
         /\ ResultSetMapper(rows, filter).rows = rows
         /\ Plain(rows).rows = rows
BY NoTypeIsNone DEF ResultSetMapper, Plain, ResultSets, NoResultSet

\* A cursor there is has its rows from the database.
LEMMA RowsType ==
  ASSUME NEW rs \in ResultSets \cup {NoResultSet}
  PROVE  /\ rs.rows \in Seq(SqlTypes) /\ Len(rs.rows) \in Nat
         /\ rs # NoResultSet => rs.rows \in Results
         /\ \A p \in Row(rs) : rs.rows[p] \in SqlTypes
<1>1. CASE rs \in ResultSets
  <2>1. rs.rows \in Results
    BY <1>1 DEF ResultSets
  <2>2. rs.rows \in Seq(SqlTypes)
    BY <2>1, ResultsAssumption
  <2> QED
    BY <2>1, <2>2 DEF Row
<1>2. CASE rs = NoResultSet
  BY <1>2 DEF NoResultSet, Row
<1> QED
  BY <1>1, <1>2

\* The cursor stands on a row when one was delivered or is being looked at, and
\* sqlFetch waits for the database only where there is a cursor.
Standing ==
  /\ pc = "accept" \/ answer = "row" => at # 0
  /\ pc # "idle" => resultSet # NoResultSet

LEMMA TypeInit == Init => TypeOK /\ Standing
<1> SUFFICES ASSUME Init PROVE TypeOK /\ Standing
  OBVIOUS
<1>1. at = 0 /\ 0 \in 0 .. Len(resultSet.rows) /\ pc = "idle" /\ answer = "nothing"
  BY DEF Init, NoResultSet
<1>2. read \in [as : Getters \cup {"nothing"}, type : SqlTypes \cup {"none"}]
  BY DEF Init, NoRead
<1>3. TypeOK
  BY <1>1, <1>2, LimitsAssumption DEF Init, TypeOK
<1> QED
  BY <1>1, <1>3 DEF Standing

\* Opening or closing.
LEMMA TypeOfCursor ==
  ASSUME TypeOK, NEW rs \in ResultSets \cup {NoResultSet},
         NEW said \in {"nothing", "error"}, NewCursor(rs, said), pc' \in {"idle"},
         eof' \in BOOLEAN, cancel' \in BOOLEAN, maxRowsPerSelect' \in Limits,
         rowCountPerSelect' \in Nat
  PROVE  TypeOK'
<1>1. Len(rs.rows) \in Nat
  BY RowsType
<1>2. at' \in 0 .. Len(resultSet'.rows)
  BY <1>1 DEF NewCursor
<1>3. shown' \subseteq Row(resultSet)' /\ missed' \subseteq Row(resultSet)'
  BY DEF NewCursor
<1>4. read' \in [as : Getters \cup {"nothing"}, type : SqlTypes \cup {"none"}]
  BY DEF NewCursor, NoRead
<1> QED
  BY <1>2, <1>3, <1>4 DEF NewCursor, TypeOK

LEMMA TypeStep ==
  ASSUME TypeOK, Standing, [Next]_vars
  PROVE  TypeOK'
<1>0. /\ at \in Int /\ Len(resultSet.rows) \in Nat
      /\ \A p \in Row(resultSet) : resultSet.rows[p] \in SqlTypes
      /\ pc = "accept" \/ answer = "row" => at \in Row(resultSet)
  <2>1. resultSet \in ResultSets \cup {NoResultSet}
    BY DEF TypeOK
  <2>2. Len(resultSet.rows) \in Nat
    BY <2>1, RowsType
  <2> QED
    BY <2>1, <2>2, RowsType DEF TypeOK, Standing, Row
<1>1. ASSUME NEW said \in {"nothing", "error"}, releaseResultSet(said), pc = "idle"
      PROVE  TypeOK'
  <2>1. NewCursor(NoResultSet, said)
    BY <1>1 DEF releaseResultSet
  <2>2. /\ pc' \in {"idle"} /\ eof' \in BOOLEAN /\ cancel' \in BOOLEAN
        /\ maxRowsPerSelect' \in Limits /\ rowCountPerSelect' \in Nat
    BY <1>1 DEF releaseResultSet, TypeOK
  <2> QED
    BY <2>1, <2>2, TypeOfCursor
<1>2. ASSUME NEW filter \in Asked \cup {AnyType}, NEW rows \in Results, pc = "idle",
             setResultSet(ResultSetMapper(rows, filter))
      PROVE  TypeOK'
  <2>1. NewCursor(ResultSetMapper(rows, filter), "nothing")
    BY <1>2 DEF setResultSet
  <2>2. /\ pc' \in {"idle"} /\ eof' \in BOOLEAN /\ cancel' \in BOOLEAN
        /\ maxRowsPerSelect' \in Limits /\ rowCountPerSelect' \in Nat
    BY <1>2 DEF setResultSet, TypeOK
  <2> QED
    BY <2>1, <2>2, TypeOfCursor, CursorType
<1>3. ASSUME NEW t \in Asked \cup {AnyType}, SQLGetTypeInfo(t)
      PROVE  TypeOK'
  BY <1>1, <1>2, <1>3 DEF SQLGetTypeInfo, MayOpenCatalog, CatalogFails
<1>4. CASE SQLColumns
  <2>1. AnyType \in Asked \cup {AnyType}
    OBVIOUS
  <2> QED
    BY <1>1, <1>2, <1>4, <2>1 DEF SQLColumns, MayOpenCatalog, CatalogFails
<1>5. CASE SQLExecDirect
  <2>1. PICK rows \in Results : NewCursor(Plain(rows), "nothing")
    BY <1>5 DEF SQLExecDirect
  <2>2. /\ pc' \in {"idle"} /\ eof' \in BOOLEAN /\ cancel' \in BOOLEAN
        /\ maxRowsPerSelect' \in Limits /\ rowCountPerSelect' \in Nat
    BY <1>5 DEF SQLExecDirect, TypeOK
  <2>3. Plain(rows) \in ResultSets
    BY CursorType
  <2> QED
    BY <2>1, <2>2, <2>3, TypeOfCursor
<1>6. CASE SQLCloseCursor
  BY <1>1, <1>6 DEF SQLCloseCursor
<1>7. ASSUME NEW n \in Limits, SQLSetStmtAttr(n)
      PROVE  TypeOK'
  BY <1>7 DEF SQLSetStmtAttr, TypeOK
<1>8. CASE SQLCancel
  BY <1>8 DEF SQLCancel, TypeOK
<1>9. CASE SQLFetch
  <2>1. CASE cancel /\ releaseResultSet("error")
    BY <1>1, <1>9, <2>1 DEF SQLFetch
  <2>2. ASSUME ~cancel, read' = NoRead, at' = at, NoMoreData
        PROVE  TypeOK'
    BY <2>2 DEF NoMoreData, Answer, NoRead, TypeOK
  <2>3. ASSUME read' = NoRead, at' = at, pc' = "next",
               UNCHANGED <<handle, shown, missed, answer>>
        PROVE  TypeOK'
    BY <2>3 DEF handle, NoRead, TypeOK
  <2> QED
    BY <1>9, <2>1, <2>2, <2>3 DEF SQLFetch
<1>10. CASE NextOfBase
  <2>1. CASE at < Len(resultSet.rows) /\ at' = at + 1
    <3>1. at' \in 0 .. Len(resultSet.rows)
      BY <1>0, <2>1 DEF TypeOK
    <3> QED
      BY <1>0, <1>10, <2>1, <3>1 DEF NextOfBase, handle, TypeOK
  <2>2. CASE at' = at /\ NoMoreData
    BY <1>10, <2>2 DEF NextOfBase, NoMoreData, Answer, TypeOK
  <2> QED
    BY <1>10, <2>1, <2>2 DEF NextOfBase
<1>11. CASE Accept
  <2> DEFINE rs == [resultSet EXCEPT !.colIndex = IF resultSet.filter = AnyType
                                                  THEN @ ELSE DataTypeColumn]
  <2>1. resultSet' = rs
    BY <1>11 DEF Accept
  <2>2. rs \in ResultSets \cup {NoResultSet} /\ rs.rows = resultSet.rows
    <3>1. resultSet \in ResultSets
      BY <1>11 DEF Accept, Standing, TypeOK
    <3> QED
      BY <3>1 DEF ResultSets
  <2>3. Row(resultSet)' = Row(resultSet)
    BY <2>1, <2>2 DEF Row
  <2> HIDE DEF rs
  <2>4. CASE Deliver(at)
    BY <1>0, <1>11, <2>1, <2>2, <2>3, <2>4 DEF Accept, Deliver, Answer, TypeOK
  <2>5. CASE ~accepts(resultSet, at) /\ pc' = "next"
    BY <1>11, <2>1, <2>2, <2>3, <2>5 DEF Accept, TypeOK
  <2> QED
    BY <1>11, <2>4, <2>5 DEF Accept
<1>12. CASE Throws
  <2>1. missed' \subseteq Row(resultSet)
    BY <1>0, <1>12 DEF Throws, TypeOK
  <2> QED
    BY <1>12, <2>1 DEF Throws, Answer, handle, TypeOK, Row
<1>13. CASE SQLGetData
  <2>1. at \in Row(resultSet)
    BY <1>0, <1>13 DEF SQLGetData
  <2>2. \A getter \in Getters : get(resultSet, at, getter) \in SqlTypes
    BY <1>0, <2>1, MapTypeType DEF get
  <2>3. read' \in [as : Getters \cup {"nothing"}, type : SqlTypes \cup {"none"}]
    BY <1>13, <2>2 DEF SQLGetData
  <2> QED
    BY <1>13, <2>3 DEF SQLGetData, handle, TypeOK, Row
<1>14. CASE UNCHANGED vars
  BY <1>14 DEF vars, TypeOK, Row
<1> QED
  BY <1>3, <1>4, <1>5, <1>6, <1>7, <1>8, <1>9, <1>10, <1>11, <1>12, <1>13, <1>14 DEF Next

LEMMA StandingStep ==
  ASSUME TypeOK, Standing, [Next]_vars
  PROVE  Standing'
<1>0. at \in Nat
  <2>1. Len(resultSet.rows) \in Nat
    BY RowsType DEF TypeOK
  <2> QED
    BY <2>1 DEF TypeOK
<1> USE DEF Standing
<1>1. ASSUME NEW rs, NEW said \in {"nothing", "error"}, NewCursor(rs, said),
             pc = "idle", pc' = pc
      PROVE  Standing'
  BY <1>1 DEF NewCursor
<1>2. ASSUME NEW t \in Asked \cup {AnyType}, SQLGetTypeInfo(t)
      PROVE  Standing'
  BY <1>1, <1>2 DEF SQLGetTypeInfo, MayOpenCatalog, CatalogFails, setResultSet,
                    releaseResultSet
<1>3. CASE SQLColumns
  BY <1>1, <1>3 DEF SQLColumns, MayOpenCatalog, CatalogFails, setResultSet,
                    releaseResultSet
<1>4. CASE SQLExecDirect
  BY <1>1, <1>4 DEF SQLExecDirect
<1>5. CASE SQLCloseCursor
  BY <1>1, <1>5 DEF SQLCloseCursor, releaseResultSet
<1>6. ASSUME NEW n \in Limits, SQLSetStmtAttr(n)
      PROVE  Standing'
  BY <1>6 DEF SQLSetStmtAttr
<1>7. CASE SQLCancel
  BY <1>7 DEF SQLCancel
<1>8. CASE SQLFetch
  <2>1. CASE cancel /\ releaseResultSet("error")
    BY <1>1, <1>8, <2>1 DEF SQLFetch, releaseResultSet
  <2>2. CASE ~cancel
    BY <1>8, <2>2 DEF SQLFetch, NoMoreData, Answer, handle
  <2> QED
    BY <1>8, <2>1, <2>2 DEF SQLFetch
<1>9. CASE NextOfBase
  BY <1>0, <1>9 DEF NextOfBase, NoMoreData, Answer, handle
<1>10. CASE Accept
  <2>1. resultSet \in ResultSets
    BY <1>10 DEF Accept, TypeOK
  <2>2. resultSet'.filter = resultSet.filter
    BY <1>10, <2>1 DEF Accept, ResultSets
  <2>3. resultSet' # NoResultSet
    BY <2>1, <2>2, NoTypeIsNone DEF ResultSets, NoResultSet, AnyType
  <2> QED
    BY <1>10, <2>3 DEF Accept, Deliver, Answer
<1>11. CASE Throws
  BY <1>11 DEF Throws, Answer, handle
<1>12. CASE SQLGetData
  BY <1>12 DEF SQLGetData, handle
<1>13. CASE UNCHANGED vars
  BY <1>13 DEF vars
<1> QED
  BY <1>2, <1>3, <1>4, <1>5, <1>6, <1>7, <1>8, <1>9, <1>10, <1>11, <1>12, <1>13 DEF Next

LEMMA TypeAndStanding == Spec => [](TypeOK /\ Standing)
BY TypeInit, TypeStep, StandingStep, PTL DEF Spec

\* Spec => []TypeOK: the places seen and missed are places of the cursor's rows, and
\* what SQLGetData gave is a type of the database or none, over cursors of any length.
THEOREM TypeCorrect == Spec => []TypeOK
BY TypeAndStanding, PTL

-----------------------------------------------------------------------------
(***************************************************************************)
(* What an application reads of a type.                                    *)
(***************************************************************************)
\* What was read is of the row the cursor stands on, which the filter accepted.
ReadIsOfRow ==
  /\ answer = "row" /\ pc = "idle" => accepts(resultSet, at)
  /\ read # NoRead =>
       /\ pc = "idle" /\ answer = "row"
       /\ read.as \in Getters
       /\ read.type = get(resultSet, at, read.as)

LEMMA NoCursorNoRow ==
  ASSUME TypeOK, Standing, resultSet = NoResultSet
  PROVE  answer # "row" /\ (ReadIsOfRow => read = NoRead)
<1>1. at = 0
  BY DEF TypeOK, NoResultSet
<1> QED
  BY <1>1 DEF Standing, ReadIsOfRow

LEMMA ReadStep ==
  ASSUME TypeOK, Standing, ReadIsOfRow, [Next]_vars
  PROVE  ReadIsOfRow'
<1> USE DEF ReadIsOfRow
<1>1. ASSUME NEW rs, NEW said \in {"nothing", "error"}, NewCursor(rs, said)
      PROVE  ReadIsOfRow'
  BY <1>1 DEF NewCursor
<1>2. ASSUME NEW t \in Asked \cup {AnyType}, SQLGetTypeInfo(t)
      PROVE  ReadIsOfRow'
  BY <1>1, <1>2 DEF SQLGetTypeInfo, CatalogFails, setResultSet, releaseResultSet
<1>3. CASE SQLColumns
  BY <1>1, <1>3 DEF SQLColumns, CatalogFails, setResultSet, releaseResultSet
<1>4. CASE SQLExecDirect
  BY <1>1, <1>4 DEF SQLExecDirect
<1>5. CASE SQLCloseCursor
  BY <1>1, <1>5 DEF SQLCloseCursor, releaseResultSet
<1>6. ASSUME NEW n \in Limits, SQLSetStmtAttr(n)
      PROVE  ReadIsOfRow'
  <2>1. read = NoRead
    BY <1>6, NoCursorNoRow DEF SQLSetStmtAttr
  <2> QED
    BY <1>6, <2>1 DEF SQLSetStmtAttr
<1>7. CASE SQLCancel
  BY <1>7 DEF SQLCancel, accepts, get
<1>8. CASE SQLFetch
  <2>1. CASE cancel /\ releaseResultSet("error")
    BY <1>1, <1>8, <2>1 DEF SQLFetch, releaseResultSet
  <2>2. CASE ~cancel
    BY <1>8, <2>2 DEF SQLFetch, NoMoreData, Answer
  <2> QED
    BY <1>8, <2>1, <2>2 DEF SQLFetch
<1>9. CASE NextOfBase
  BY <1>9 DEF NextOfBase, NoMoreData, Answer, handle
<1>10. CASE Accept
  <2>1. resultSet \in ResultSets
    BY <1>10 DEF Accept, Standing, TypeOK
  <2>2. resultSet'.filter = resultSet.filter /\ resultSet'.rows = resultSet.rows
    BY <1>10, <2>1 DEF Accept, ResultSets
  <2> QED
    BY <1>10, <2>2 DEF Accept, Deliver, Answer, accepts
<1>11. CASE Throws
  BY <1>11 DEF Throws, Answer, handle
<1>12. CASE SQLGetData
  BY <1>12 DEF SQLGetData, handle, accepts, get
<1>13. CASE UNCHANGED vars
  BY <1>13 DEF vars, accepts, get
<1> QED
  BY <1>2, <1>3, <1>4, <1>5, <1>6, <1>7, <1>8, <1>9, <1>10, <1>11, <1>12, <1>13 DEF Next

LEMMA ReadIsSeen == TypeOK /\ Standing /\ ReadIsOfRow => AskedIsSeen
<1> SUFFICES ASSUME TypeOK, Standing, ReadIsOfRow, read # NoRead
             PROVE  AskedIsSeen
  BY DEF AskedIsSeen, NoRead, MappedGetters
<1>1. resultSet \in ResultSets \cup {NoResultSet} /\ at \in Row(resultSet)
  <2>1. Len(resultSet.rows) \in Nat
    BY RowsType DEF TypeOK
  <2> QED
    BY <2>1 DEF TypeOK, Standing, ReadIsOfRow, Row
<1>2. resultSet.rows[at] \in SqlTypes
  BY <1>1, RowsType
<1>3. resultSet # NoResultSet
  BY <1>1 DEF NoResultSet, Row
<1>4. ASSUME resultSet.mapped, read.as \in MappedGetters
      PROVE  read.type \in OdbcTypes
  BY <1>2, <1>4, MapTypeType DEF ReadIsOfRow, get
<1>5. ASSUME resultSet.filter # AnyType
      PROVE  read.type = resultSet.filter
  <2>1. resultSet.filter \in Asked
    BY <1>1, <1>3, <1>5 DEF ResultSets
  <2>2. resultSet.rows[at] = resultSet.filter
    BY <1>5 DEF ReadIsOfRow, accepts
  <2>3. mapType(resultSet.rows[at]) = resultSet.rows[at]
    BY <2>1, <2>2, MapTypeFixed, AskedAssumption
  <2> QED
    BY <2>2, <2>3 DEF ReadIsOfRow, get
<1> QED
  BY <1>4, <1>5 DEF AskedIsSeen

\* Spec => []AskedIsSeen: the rows of SQLGetTypeInfo for one type read as that type
\* by every getter, mapped or not, and a mapped cursor read by the getters of
\* OdbcTypeMapper names types of ODBC only, for every result of the database and
\* every type an application may ask for.
THEOREM AskedIsSeenCorrect == Spec => []AskedIsSeen
<1>1. Init => ReadIsOfRow
  BY DEF Init, ReadIsOfRow
<1> QED
  BY <1>1, TypeAndStanding, ReadStep, ReadIsSeen, PTL DEF Spec

-----------------------------------------------------------------------------
(***************************************************************************)
(* The refinement.                                                         *)
(***************************************************************************)
\* The rows of the asked type behind the cursor were seen or missed, and those
\* ahead were not; the flag and the count say no more than that.
Behind ==
  /\ shown \cap missed = {}
  /\ shown \cup missed = {p \in Wanted : p < at \/ (p = at /\ pc # "accept")}

Counted ==
  /\ pc # "idle" => ~eof /\ ~LimitReached
  /\ eof /\ resultSet # NoResultSet => Cursor!Left = {} \/ LimitReached
  /\ resultSet # NoResultSet /\ maxRowsPerSelect > 0 =>
       rowCountPerSelect = Cardinality(shown)

LEMMA AcceptsWanted ==
  ASSUME at \in Row(resultSet)
  PROVE  accepts(resultSet, at) <=> at \in Wanted
BY DEF accepts, Wanted

PlacesRight ==
  /\ Len(resultSet.rows) \in Nat /\ at \in Int
  /\ \A p \in Wanted : p \in 1 .. Len(resultSet.rows) /\ p \in PlacesOf

LEMMA WantedPlaces == TypeOK => PlacesRight
<1> SUFFICES ASSUME TypeOK PROVE PlacesRight
  OBVIOUS
<1>1. resultSet \in ResultSets \cup {NoResultSet}
  BY DEF TypeOK
<1>2. Len(resultSet.rows) \in Nat
  BY <1>1, RowsType
<1>3. ASSUME NEW p \in Wanted
      PROVE  p \in 1 .. Len(resultSet.rows) /\ p \in PlacesOf
  <2>1. p \in 1 .. Len(resultSet.rows)
    BY <1>3 DEF Wanted, Row
  <2>2. resultSet # NoResultSet
    BY <1>2, <2>1 DEF NoResultSet
  <2>3. resultSet.rows \in Results
    BY <1>1, <2>2, RowsType
  <2> QED
    BY <2>1, <2>3 DEF PlacesOf
<1> QED
  BY <1>2, <1>3 DEF TypeOK, PlacesRight

LEMMA ShownFinite ==
  ASSUME TypeOK
  PROVE  IsFiniteSet(shown) /\ Cardinality(shown) \in Nat
<1>1. IsFiniteSet(1 .. Len(resultSet.rows))
  BY WantedPlaces, FS_Interval DEF PlacesRight
<1>2. IsFiniteSet(shown)
  BY <1>1, FS_Subset DEF TypeOK, Row
<1> QED
  BY <1>2, FS_CardinalityType

\* The count of the handle is the count of the cursor.
LEMMA LimitSame ==
  ASSUME Counted, resultSet # NoResultSet
  PROVE  LimitReached <=> Cursor!LimitReached
<1>1. maxRowsPerSelect > 0 => rowCountPerSelect = Cardinality(shown)
  BY DEF Counted
<1>2. Cursor!Cardinality(shown) = Cardinality(shown)
  BY DEF Cardinality, Cursor!Cardinality
<1> QED
  BY <1>1, <1>2 DEF LimitReached, Cursor!LimitReached

\* The row that is being looked at is the next of the cursor.
LEMMA AtIsNext ==
  ASSUME TypeOK, Standing, Behind, pc = "accept", accepts(resultSet, at)
  PROVE  at \in Wanted /\ at \notin shown /\ at \notin missed /\ Cursor!NextLeft(at)
<1>1. at \in Row(resultSet)
  BY WantedPlaces DEF TypeOK, Standing, Row, PlacesRight
<1>2. at \in Wanted
  BY <1>1, AcceptsWanted
<1>3. at \notin shown \cup missed
  BY WantedPlaces DEF PlacesRight, Behind
<1>4. \A q \in Cursor!Left : at <= q
  BY WantedPlaces DEF PlacesRight, Behind, Cursor!Left
<1> QED
  BY <1>2, <1>3, <1>4 DEF Cursor!NextLeft, Cursor!Left

\* A new cursor has shown nothing and begins its count at zero.
LEMMA OpenMaps ==
  ASSUME TypeOK', NEW rs, NEW said \in {"nothing", "error"}, NewCursor(rs, said),
         pc' = "idle",
         rs # NoResultSet => eof' = FALSE,
         rs # NoResultSet /\ maxRowsPerSelect' > 0 => rowCountPerSelect' = 0
  PROVE  Behind' /\ Counted' /\ Cursor!Open
<1>0. PlacesRight'
  BY WantedPlaces, PTL
<1>1. \A p \in Wanted' : p \in Nat \ {0} /\ p \in PlacesOf
  BY <1>0 DEF PlacesRight
<1>2. Behind'
  BY <1>1 DEF Behind, NewCursor
<1>3. Cardinality({}) = 0
  BY FS_EmptySet
<1>4. Counted'
  BY <1>3 DEF Counted, NewCursor
<1>5. maxRowsPerSelect' \in Limits
  BY DEF TypeOK
<1>6. Wanted' \in SUBSET PlacesOf
  BY <1>1
<1> QED
  BY <1>2, <1>4, <1>5, <1>6 DEF Cursor!Open, NewCursor

CursorInv == TypeOK /\ Standing /\ Behind /\ Counted
CursorStep == Behind' /\ Counted' /\ [Cursor!Next]_Cursor!vars

\* sqlFetch answers that there is no more.
LEMMA EndMaps ==
  ASSUME CursorInv, NoMoreData, resultSet # NoResultSet, at' = at, pc # "accept",
         Cursor!Left = {} \/ LimitReached
  PROVE  CursorStep
<1>1. Wanted' = Wanted /\ Cursor!Left' = Cursor!Left
  BY DEF NoMoreData, Wanted, Row, Cursor!Left
<1>2. Behind'
  BY <1>1 DEF NoMoreData, Answer, Behind, CursorInv
<1>3. Counted'
  BY <1>1 DEF NoMoreData, Answer, Counted, LimitReached, CursorInv
<1>4. Cursor!End
  BY <1>1, LimitSame DEF NoMoreData, Answer, Cursor!End, CursorInv
<1> QED
  BY <1>2, <1>3, <1>4 DEF CursorStep, Cursor!Next

\* A step that only moves the cursor, or stays where it is.
LEMMA QuietMaps ==
  ASSUME CursorInv, Wanted' = Wanted, resultSet' # NoResultSet <=> resultSet # NoResultSet,
         UNCHANGED <<maxRowsPerSelect, rowCountPerSelect, shown, missed, answer, eof>>,
         Behind', pc' # "idle" => ~eof /\ ~LimitReached
  PROVE  CursorStep
<1>1. Cursor!Left' = Cursor!Left
  BY DEF Cursor!Left
<1>2. Counted'
  BY <1>1 DEF Counted, LimitReached, CursorInv
<1>3. UNCHANGED Cursor!vars
  BY DEF Cursor!vars
<1> QED
  BY <1>2, <1>3 DEF CursorStep

LEMMA FetchMaps ==
  ASSUME CursorInv, TypeOK', SQLFetch
  PROVE  CursorStep
<1>1. CASE cancel /\ releaseResultSet("error")
  <2>1. Behind' /\ Counted' /\ Cursor!Open
    BY <1>1, OpenMaps DEF SQLFetch, releaseResultSet
  <2> QED
    BY <2>1 DEF CursorStep, Cursor!Next
<1>2. CASE (eof \/ LimitReached) /\ NoMoreData
  <2>1. Cursor!Left = {} \/ LimitReached
    BY <1>2 DEF SQLFetch, CursorInv, Counted
  <2>2. at' = at
    BY <1>2 DEF SQLFetch, NoMoreData, Answer, releaseResultSet, NewCursor
  <2> QED
    BY <1>2, <2>1, <2>2, EndMaps DEF SQLFetch
<1>3. CASE ~eof /\ ~LimitReached /\ at' = at /\ pc' = "next"
           /\ UNCHANGED <<handle, shown, missed, answer>>
  <2>1. Wanted' = Wanted
    BY <1>3 DEF handle, Wanted, Row
  <2>2. Behind'
    BY <1>3, <2>1 DEF SQLFetch, Behind, CursorInv
  <2> QED
    BY <1>3, <2>1, <2>2, QuietMaps DEF handle
<1> QED
  BY <1>1, <1>2, <1>3 DEF SQLFetch

LEMMA NextOfBaseMaps ==
  ASSUME CursorInv, NextOfBase
  PROVE  CursorStep
<1>1. CASE at < Len(resultSet.rows) /\ at' = at + 1 /\ pc' = "accept"
           /\ UNCHANGED <<handle, shown, missed, answer>>
  <2>1. Wanted' = Wanted
    BY <1>1 DEF handle, Wanted, Row
  <2>2. \A p \in Wanted : (p < at \/ p = at) <=> p < at + 1
    BY WantedPlaces DEF PlacesRight, CursorInv
  <2>3. Behind'
    BY <1>1, <2>1, <2>2 DEF NextOfBase, Behind, CursorInv
  <2>4. ~eof /\ ~LimitReached
    BY DEF NextOfBase, CursorInv, Counted
  <2> QED
    BY <1>1, <2>1, <2>3, <2>4, QuietMaps DEF handle
<1>2. CASE at = Len(resultSet.rows) /\ at' = at /\ NoMoreData
  <2>1. Cursor!Left = {}
    BY <1>2, WantedPlaces DEF PlacesRight, NextOfBase, Behind, CursorInv, Cursor!Left
  <2> QED
    BY <1>2, <2>1, EndMaps DEF NextOfBase, Standing, CursorInv
<1> QED
  BY <1>1, <1>2 DEF NextOfBase

LEMMA AcceptMaps ==
  ASSUME CursorInv, Accept
  PROVE  CursorStep
<1>1. resultSet \in ResultSets /\ resultSet # NoResultSet
  BY DEF Accept, Standing, TypeOK, CursorInv
<1>2. resultSet'.filter = resultSet.filter /\ resultSet'.rows = resultSet.rows
  BY <1>1 DEF Accept, ResultSets
<1>3. Wanted' = Wanted
  BY <1>2 DEF Wanted, Row
<1>4. resultSet' # NoResultSet
  BY <1>1, <1>2, NoTypeIsNone DEF ResultSets, NoResultSet
<1>5. at \in Row(resultSet) /\ at \in Int
  BY WantedPlaces DEF PlacesRight, TypeOK, Standing, Row, Accept, CursorInv
<1>6. CASE accepts(resultSet, at) /\ Deliver(at)
  <2>1. at \in Wanted /\ at \notin shown /\ at \notin missed /\ Cursor!NextLeft(at)
    BY <1>6, AtIsNext DEF Accept, CursorInv
  <2>2. Behind'
    BY <1>3, <1>5, <1>6, <2>1 DEF Accept, Deliver, Answer, Behind, CursorInv
  <2>3. Cardinality(shown \cup {at}) = Cardinality(shown) + 1
    BY <2>1, ShownFinite, FS_AddElement DEF CursorInv
  <2>4. Counted'
    BY <1>1, <1>6, <2>3 DEF Accept, Deliver, Answer, Counted, CursorInv
  <2>5. ~Cursor!LimitReached
    BY <1>1, LimitSame DEF Accept, Counted, CursorInv
  <2>6. Cursor!Show
    BY <1>3, <1>6, <2>1, <2>5, WantedPlaces
    DEF Accept, Deliver, Answer, Cursor!Show, PlacesRight, CursorInv
  <2> QED
    BY <2>2, <2>4, <2>6 DEF CursorStep, Cursor!Next
<1>7. CASE ~accepts(resultSet, at) /\ pc' = "next"
           /\ UNCHANGED <<eof, cancel, maxRowsPerSelect, rowCountPerSelect,
                          shown, missed, answer>>
  <2>1. at \notin Wanted
    BY <1>5, <1>7, AcceptsWanted
  <2>2. Behind'
    BY <1>3, <1>7, <2>1 DEF Accept, Behind, CursorInv
  <2>3. ~eof /\ ~LimitReached
    BY DEF Accept, CursorInv, Counted
  <2> QED
    BY <1>1, <1>3, <1>4, <1>7, <2>2, <2>3, QuietMaps
<1> QED
  BY <1>6, <1>7 DEF Accept

LEMMA ThrowsMaps ==
  ASSUME CursorInv, Throws
  PROVE  CursorStep
<1>1. Wanted' = Wanted
  BY DEF Throws, handle, Wanted, Row
<1>2. resultSet # NoResultSet /\ ~Cursor!LimitReached /\ ~eof
  BY LimitSame DEF Throws, Counted, Standing, CursorInv
<1>3. Counted'
  BY <1>2 DEF Throws, Answer, handle, Counted, CursorInv
<1>4. CASE missed' = missed /\ (pc = "accept" => ~accepts(resultSet, at))
  <2>1. pc = "accept" => at \notin Wanted
    BY <1>4, AcceptsWanted, WantedPlaces
    DEF PlacesRight, TypeOK, Standing, Row, CursorInv
  <2>2. Behind'
    BY <1>1, <1>4, <2>1 DEF Throws, Answer, handle, Behind, CursorInv
  <2>3. Cursor!Fail
    BY <1>1, <1>2, <1>4 DEF Throws, Answer, handle, Cursor!Fail
  <2> QED
    BY <1>3, <2>2, <2>3 DEF CursorStep, Cursor!Next
<1>5. CASE pc = "accept" /\ accepts(resultSet, at) /\ missed' = missed \cup {at}
  <2>1. at \in Wanted /\ at \notin shown /\ at \notin missed /\ Cursor!NextLeft(at)
    BY <1>5, AtIsNext DEF CursorInv
  <2>2. Behind'
    BY <1>1, <1>5, <2>1, WantedPlaces
    DEF Throws, Answer, handle, Behind, CursorInv, PlacesRight
  <2>3. Cursor!Fail
    BY <1>1, <1>2, <1>5, <2>1, WantedPlaces
    DEF Throws, Answer, handle, Cursor!Fail, PlacesRight, CursorInv
  <2> QED
    BY <1>3, <2>2, <2>3 DEF CursorStep, Cursor!Next
<1> QED
  BY <1>4, <1>5 DEF Throws

LEMMA StepMaps ==
  ASSUME ReuseWithLimit = FALSE, CursorInv, TypeOK', [Next]_vars
  PROVE  CursorStep
<1>1. ASSUME NEW filter \in Asked \cup {AnyType}, NEW rows \in Results,
             MayOpenCatalog, setResultSet(ResultSetMapper(rows, filter))
      PROVE  Behind' /\ Counted' /\ Cursor!Open
  <2>1. NewCursor(ResultSetMapper(rows, filter), "nothing") /\ pc' = "idle" /\ eof' = FALSE
    BY <1>1 DEF MayOpenCatalog, setResultSet
  <2>2. maxRowsPerSelect' > 0 => rowCountPerSelect' = 0
    BY <1>1, LimitsAssumption DEF MayOpenCatalog, setResultSet, CursorInv, TypeOK
  <2> QED
    BY <2>1, <2>2, OpenMaps
<1>2. ASSUME NEW said \in {"nothing", "error"}, releaseResultSet(said), pc = "idle"
      PROVE  Behind' /\ Counted' /\ Cursor!Open
  BY <1>2, OpenMaps DEF releaseResultSet
<1> USE DEF CursorStep, Cursor!Next
<1>3. ASSUME NEW t \in Asked \cup {AnyType}, SQLGetTypeInfo(t)
      PROVE  CursorStep
  BY <1>1, <1>2, <1>3 DEF SQLGetTypeInfo, MayOpenCatalog, CatalogFails
<1>4. CASE SQLColumns
  BY <1>1, <1>2, <1>4 DEF SQLColumns, MayOpenCatalog, CatalogFails
<1>5. CASE SQLExecDirect
  <2>1. PICK rows \in Results : NewCursor(Plain(rows), "nothing")
    BY <1>5 DEF SQLExecDirect
  <2>2. Behind' /\ Counted' /\ Cursor!Open
    BY <1>5, <2>1, OpenMaps DEF SQLExecDirect
  <2> QED
    BY <2>2
<1>6. CASE SQLCloseCursor
  BY <1>2, <1>6 DEF SQLCloseCursor
<1>7. ASSUME NEW n \in Limits, SQLSetStmtAttr(n)
      PROVE  CursorStep
  <2>1. Wanted = {} /\ Wanted' = {}
    BY <1>7 DEF SQLSetStmtAttr, Wanted, Row, NoResultSet
  <2>2. shown = {} /\ missed = {}
    BY <2>1 DEF CursorInv, Behind
  <2>3. Behind' /\ Counted'
    BY <1>7, <2>1, <2>2 DEF SQLSetStmtAttr, Behind, Counted
  <2>4. Cursor!Open
    BY <1>7, <2>1, <2>2 DEF SQLSetStmtAttr, Cursor!Open
  <2> QED
    BY <2>3, <2>4
<1>8. CASE SQLCancel
  <2>1. Wanted' = Wanted
    BY <1>8 DEF SQLCancel, Wanted, Row
  <2>2. Behind' /\ (pc' # "idle" => ~eof /\ ~LimitReached)
    BY <1>8, <2>1 DEF SQLCancel, Behind, Counted, CursorInv
  <2> QED
    BY <1>8, <2>1, <2>2, QuietMaps DEF SQLCancel
<1>9. CASE SQLGetData \/ UNCHANGED vars
  <2>1. UNCHANGED <<handle, at, pc, shown, missed, answer>>
    BY <1>9 DEF SQLGetData, vars, handle
  <2>2. Wanted' = Wanted
    BY <2>1 DEF handle, Wanted, Row
  <2>3. Behind' /\ (pc' # "idle" => ~eof /\ ~LimitReached)
    BY <2>1, <2>2 DEF Behind, Counted, CursorInv
  <2> QED
    BY <2>1, <2>2, <2>3, QuietMaps DEF handle
<1> QED
  BY <1>3, <1>4, <1>5, <1>6, <1>7, <1>8, <1>9, FetchMaps, NextOfBaseMaps, AcceptMaps,
     ThrowsMaps DEF Next

LEMMA InitMaps == Init => Behind /\ Counted /\ Cursor!Init
<1> SUFFICES ASSUME Init PROVE Behind /\ Counted /\ Cursor!Init
  OBVIOUS
<1>1. Wanted = {}
  BY DEF Init, Wanted, Row, NoResultSet
<1> QED
  BY <1>1, LimitsAssumption DEF Init, Behind, Counted, Cursor!Init

\* Spec => FilteredSpec: the cursors implement FilteredCursor for every result of the
\* database, every filter and every limit, if an application puts no limit to a catalog
\* function on a handle whose count has begun; without that they do not.
THEOREM FilteredCorrect ==
  ASSUME ReuseWithLimit = FALSE
  PROVE  Spec => FilteredSpec
<1>1. Init => Behind /\ Counted /\ Cursor!Init
  BY InitMaps
<1>2. TypeOK /\ Standing /\ Behind /\ Counted /\ TypeOK' /\ [Next]_vars
        => Behind' /\ Counted' /\ [Cursor!Next]_Cursor!vars
  BY StepMaps DEF CursorInv, CursorStep
<1> QED
  BY <1>1, <1>2, TypeAndStanding, PTL DEF Spec, FilteredSpec, Cursor!Spec

-----------------------------------------------------------------------------
(***************************************************************************)
(* What is left of that when a handle is reused under a limit: the end may *)
(* come early, but the rows come in their order, each once, and never more *)
(* than the limit.                                                         *)
(***************************************************************************)
LimitKept == maxRowsPerSelect > 0 => Cardinality(shown) <= maxRowsPerSelect

\* The handle counts at least the rows this cursor has shown, and sqlFetch looks at the
\* limit before it asks for a row.
CountsShown ==
  /\ Cardinality(shown) <= rowCountPerSelect
  /\ pc # "idle" => ~LimitReached

OrderInv == Behind /\ LimitKept /\ CountsShown

\* A cursor that was just opened, or none.
LEMMA OrderNew ==
  ASSUME TypeOK', NEW rs, NEW said, NewCursor(rs, said), pc' = "idle"
  PROVE  OrderInv'
<1>1. at' = 0 /\ shown' = {} /\ missed' = {}
  BY DEF NewCursor
<1>2. \A p \in Wanted' : p \in 1 .. Len(resultSet'.rows)
  BY DEF Wanted, Row
<1>3. Len(resultSet'.rows) \in Nat
  BY WantedPlaces DEF PlacesRight, TypeOK, ResultSets, NoResultSet
<1>4. Cardinality(shown') = 0
  BY <1>1, FS_EmptySet
<1>5. rowCountPerSelect' \in Nat /\ maxRowsPerSelect' \in Nat
  BY LimitsAssumption DEF TypeOK
<1> QED
  BY <1>1, <1>2, <1>3, <1>4, <1>5 DEF OrderInv, Behind, LimitKept, CountsShown

\* A step that shows nothing, and has not begun to look at a row.
LEMMA OrderSame ==
  ASSUME OrderInv, Wanted' = Wanted,
         UNCHANGED <<at, maxRowsPerSelect, rowCountPerSelect, shown, missed>>,
         pc' = "accept" <=> pc = "accept", pc' # "idle" => ~LimitReached
  PROVE  OrderInv'
BY DEF OrderInv, Behind, LimitKept, CountsShown, LimitReached

LEMMA OrderStep ==
  ASSUME TypeOK, TypeOK', Standing, OrderInv, [Next]_vars
  PROVE  OrderInv'
<1>1. ASSUME NEW said, releaseResultSet(said), pc = "idle"
      PROVE  OrderInv'
  BY <1>1, OrderNew DEF releaseResultSet
<1>2. ASSUME NEW rs, setResultSet(rs), pc = "idle"
      PROVE  OrderInv'
  BY <1>2, OrderNew DEF setResultSet
<1>3. ASSUME NEW t \in Asked \cup {AnyType}, SQLGetTypeInfo(t)
      PROVE  OrderInv'
  BY <1>1, <1>2, <1>3 DEF SQLGetTypeInfo, MayOpenCatalog, CatalogFails
<1>4. CASE SQLColumns
  BY <1>1, <1>2, <1>4 DEF SQLColumns, MayOpenCatalog, CatalogFails
<1>5. CASE SQLExecDirect
  BY <1>5, OrderNew DEF SQLExecDirect
<1>6. CASE SQLCloseCursor
  BY <1>1, <1>6 DEF SQLCloseCursor
<1>7. ASSUME NEW n \in Limits, SQLSetStmtAttr(n)
      PROVE  OrderInv'
  <2>1. /\ pc = "idle" /\ pc' = "idle" /\ maxRowsPerSelect' = n
        /\ UNCHANGED <<resultSet, at, rowCountPerSelect, shown, missed>>
    BY <1>7 DEF SQLSetStmtAttr
  <2>2. Wanted = {} /\ Wanted' = {}
    BY <1>7 DEF SQLSetStmtAttr, Wanted, Row, NoResultSet
  <2>3. shown = {}
    BY <2>2 DEF OrderInv, Behind
  <2>4. Cardinality(shown') = 0 /\ n \in Nat
    BY <2>1, <2>3, FS_EmptySet, LimitsAssumption
  <2> QED
    BY <2>1, <2>2, <2>4 DEF OrderInv, Behind, LimitKept, CountsShown
<1>8. CASE SQLCancel \/ SQLGetData \/ UNCHANGED vars
  <2>1. UNCHANGED <<resultSet, at, maxRowsPerSelect, rowCountPerSelect, pc, shown, missed>>
    BY <1>8 DEF SQLCancel, SQLGetData, handle, vars
  <2>2. Wanted' = Wanted
    BY <2>1 DEF Wanted, Row
  <2>3. pc' # "idle" => ~LimitReached
    BY <2>1 DEF OrderInv, CountsShown
  <2> QED
    BY <2>1, <2>2, <2>3, OrderSame
<1>9. CASE SQLFetch
  <2>1. CASE cancel /\ releaseResultSet("error")
    BY <1>1, <1>9, <2>1 DEF SQLFetch
  <2>2. CASE ~cancel
    <3>1. /\ pc = "idle" /\ pc' # "accept" /\ (pc' # "idle" => ~LimitReached)
          /\ UNCHANGED <<resultSet, at, maxRowsPerSelect, rowCountPerSelect, shown, missed>>
      BY <1>9, <2>2 DEF SQLFetch, NoMoreData, Answer, handle
    <3>2. Wanted' = Wanted
      BY <3>1 DEF Wanted, Row
    <3> QED
      BY <3>1, <3>2, OrderSame
  <2> QED
    BY <1>9, <2>1, <2>2 DEF SQLFetch
<1>10. PlacesRight
  BY WantedPlaces
<1>11. CASE NextOfBase
  <2>1. /\ pc = "next" /\ ~LimitReached
        /\ UNCHANGED <<resultSet, maxRowsPerSelect, rowCountPerSelect, shown, missed>>
        /\ \/ at' = at + 1 /\ pc' = "accept"
           \/ at' = at /\ pc' = "idle"
    BY <1>11 DEF NextOfBase, NoMoreData, Answer, handle, OrderInv, CountsShown
  <2>2. Wanted' = Wanted
    BY <2>1 DEF Wanted, Row
  <2>3. Behind'
    BY <1>10, <2>1, <2>2 DEF Behind, OrderInv, PlacesRight
  <2> QED
    BY <2>1, <2>3 DEF OrderInv, LimitKept, CountsShown, LimitReached
<1>12. CASE Accept
  <2>1. resultSet \in ResultSets
    BY <1>12 DEF Accept, Standing, TypeOK
  <2>2. /\ pc = "accept" /\ at' = at /\ ~LimitReached
        /\ resultSet'.filter = resultSet.filter /\ resultSet'.rows = resultSet.rows
    BY <1>12, <2>1 DEF Accept, ResultSets, OrderInv, CountsShown
  <2>3. Wanted' = Wanted
    BY <2>2 DEF Wanted, Row
  <2>4. at \in Row(resultSet)
    BY <1>10, <2>2 DEF TypeOK, Standing, Row, PlacesRight
  <2>5. CASE accepts(resultSet, at) /\ Deliver(at)
    <3>1. at \in Wanted /\ at \notin shown /\ at \notin missed
      BY <1>10, <2>2, <2>4, <2>5, AcceptsWanted DEF OrderInv, Behind, PlacesRight
    <3>2. /\ pc' = "idle" /\ shown' = shown \cup {at} /\ missed' = missed
          /\ rowCountPerSelect' = rowCountPerSelect + 1
          /\ maxRowsPerSelect' = maxRowsPerSelect
      BY <2>5 DEF Deliver, Answer
    <3>3. Behind'
      BY <1>10, <2>2, <2>3, <3>1, <3>2 DEF OrderInv, Behind, PlacesRight
    <3>4. /\ Cardinality(shown') = Cardinality(shown) + 1 /\ Cardinality(shown) \in Nat
      BY <3>1, <3>2, ShownFinite, FS_AddElement
    <3>5. rowCountPerSelect \in Nat /\ maxRowsPerSelect \in Nat
      BY LimitsAssumption DEF TypeOK
    <3>6. /\ Cardinality(shown) <= rowCountPerSelect
          /\ maxRowsPerSelect > 0 => rowCountPerSelect < maxRowsPerSelect
      BY <2>2, <3>5 DEF OrderInv, CountsShown, LimitReached
    <3> QED
      BY <3>2, <3>3, <3>4, <3>5, <3>6 DEF OrderInv, LimitKept, CountsShown
  <2>6. CASE ~accepts(resultSet, at) /\ pc' = "next"
    <3>1. UNCHANGED <<maxRowsPerSelect, rowCountPerSelect, shown, missed>>
      BY <1>12, <2>6 DEF Accept, Deliver, Answer
    <3>2. at \notin Wanted
      BY <2>4, <2>6, AcceptsWanted
    <3>3. Behind'
      BY <1>10, <2>2, <2>3, <2>6, <3>1, <3>2 DEF OrderInv, Behind, PlacesRight
    <3> QED
      BY <2>2, <3>1, <3>3 DEF OrderInv, LimitKept, CountsShown, LimitReached
  <2> QED
    BY <1>12, <2>5, <2>6 DEF Accept
<1>13. CASE Throws
  <2>1. /\ pc \in {"next", "accept"} /\ pc' = "idle"
        /\ UNCHANGED <<resultSet, at, maxRowsPerSelect, rowCountPerSelect, shown>>
        /\ missed' = IF pc = "accept" /\ accepts(resultSet, at) THEN missed \cup {at}
                                                                ELSE missed
    BY <1>13 DEF Throws, Answer, handle
  <2>2. Wanted' = Wanted
    BY <2>1 DEF Wanted, Row
  <2>3. pc = "accept" => at \in Row(resultSet)
    BY <1>10 DEF TypeOK, Standing, Row, PlacesRight
  <2>4. pc = "accept" => (at \in Wanted <=> accepts(resultSet, at))
    BY <2>3, AcceptsWanted
  <2>5. Behind'
    BY <1>10, <2>1, <2>2, <2>4 DEF OrderInv, Behind, PlacesRight
  <2> QED
    BY <2>1, <2>5 DEF OrderInv, LimitKept, CountsShown
<1> QED
  BY <1>3, <1>4, <1>5, <1>6, <1>7, <1>8, <1>9, <1>11, <1>12, <1>13 DEF Next

\* Spec => [](Behind /\ LimitKept), whether or not a handle is reused under a limit: the
\* wanted rows the cursor has passed are those that were shown or stand for an error, no
\* row is both, and no more rows are shown than the application wants.
THEOREM RowsInOrderCorrect == Spec => [](Behind /\ LimitKept)
<1>1. Init => OrderInv
  <2> SUFFICES ASSUME Init PROVE OrderInv
    OBVIOUS
  <2>1. Wanted = {} /\ shown = {} /\ missed = {} /\ pc = "idle"
    BY DEF Init, Wanted, Row, NoResultSet
  <2>2. Cardinality(shown) = 0
    BY <2>1, FS_EmptySet
  <2> QED
    BY <2>1, <2>2 DEF Init, OrderInv, Behind, LimitKept, CountsShown
<1>2. OrderInv => Behind /\ LimitKept
  BY DEF OrderInv
<1> QED
  BY <1>1, <1>2, OrderStep, TypeAndStanding, PTL DEF Spec

-----------------------------------------------------------------------------
(***************************************************************************)
(* The loop of ResultSetMapper::next.                                      *)
(***************************************************************************)
\* Calls of the database's next() and of accept() the fetch needs at most.
ToGo ==
  LET ahead == 2 * (Len(resultSet.rows) - at)
  IN  CASE pc = "idle" -> 0
        [] pc = "next" -> ahead + 1
        [] pc = "accept" -> ahead + 2

ToGoExact == ToGo \in Nat /\ (ToGo = 0 <=> pc = "idle")

\* Every step of a fetch, one that throws as well, brings it nearer to its return; a
\* cancel that comes between does not touch it.
LoopForward ==
  [][pc # "idle" => ToGo' < ToGo \/ (ToGo' = ToGo /\ cancel' # cancel)]_vars

LEMMA ToGoStep ==
  ASSUME TypeOK, TypeOK', Standing, [Next]_vars
  PROVE  [pc # "idle" => ToGo' < ToGo \/ (ToGo' = ToGo /\ cancel' # cancel)]_vars
<1> SUFFICES ASSUME pc # "idle", Next
             PROVE  ToGo' < ToGo \/ (ToGo' = ToGo /\ cancel' # cancel)
  OBVIOUS
<1>1. /\ Len(resultSet.rows) \in Nat /\ at \in Int /\ at <= Len(resultSet.rows)
      /\ pc \in {"idle", "next", "accept"}
  BY WantedPlaces DEF PlacesRight, TypeOK
<1>2. CASE SQLCancel
  BY <1>2 DEF SQLCancel, ToGo
<1>3. CASE NextOfBase
  <2>1. /\ pc = "next" /\ resultSet' = resultSet
        /\ \/ at' = at + 1 /\ pc' = "accept"
           \/ pc' = "idle"
    BY <1>3 DEF NextOfBase, NoMoreData, Answer, handle
  <2> QED
    BY <1>1, <2>1 DEF ToGo
<1>4. CASE Accept
  <2>1. resultSet \in ResultSets
    BY <1>4 DEF Accept, Standing, TypeOK
  <2>2. pc = "accept" /\ at' = at /\ resultSet'.rows = resultSet.rows /\ pc' \in {"idle", "next"}
    BY <1>4, <2>1 DEF Accept, ResultSets, Deliver, Answer
  <2> QED
    BY <1>1, <2>2 DEF ToGo
<1>5. CASE Throws
  <2>1. pc' = "idle"
    BY <1>5 DEF Throws, Answer
  <2> QED
    BY <1>1, <2>1 DEF ToGo
<1> QED
  BY <1>2, <1>3, <1>4, <1>5
  DEF Next, SQLGetTypeInfo, SQLColumns, MayOpenCatalog, SQLExecDirect, SQLCloseCursor,
      SQLSetStmtAttr, SQLFetch, SQLGetData

\* SQLFetch uses up rows of the database whatever the filter hides and next() or accept()
\* throw, so the loop ends after twice as many steps as rows are left, and one.
THEOREM LoopForwardCorrect == Spec => LoopForward /\ []ToGoExact
<1>1. TypeOK => ToGoExact
  <2> SUFFICES ASSUME TypeOK PROVE ToGoExact
    OBVIOUS
  <2>1. /\ Len(resultSet.rows) \in Nat /\ at \in Int /\ at <= Len(resultSet.rows)
        /\ pc \in {"idle", "next", "accept"}
    BY WantedPlaces DEF PlacesRight, TypeOK
  <2> DEFINE ahead == 2 * (Len(resultSet.rows) - at)
  <2>2. ahead \in Nat
    BY <2>1
  <2>3. /\ pc = "idle" => ToGo = 0
        /\ pc = "next" => ToGo = ahead + 1
        /\ pc = "accept" => ToGo = ahead + 2
    BY DEF ToGo
  <2> HIDE DEF ahead
  <2> QED
    BY <2>1, <2>2, <2>3 DEF ToGoExact
<1> QED
  BY <1>1, ToGoStep, TypeAndStanding, PTL DEF Spec, LoopForward
=============================================================================
