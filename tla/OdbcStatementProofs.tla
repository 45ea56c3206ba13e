------------------------ MODULE OdbcStatementProofs ------------------------
(***************************************************************************)
(* Proofs about a statement handle, for any sizes of results, rowsets and  *)
(* limits.                                                                 *)
(***************************************************************************)
EXTENDS OdbcStatement, TLAPS

-----------------------------------------------------------------------------
(***************************************************************************)
(* The functions of the handle keep its type.                              *)
(***************************************************************************)
LEMMA ClearErrorsType ==
  ASSUME NEW s \in Handles
  PROVE  clearErrors(s) \in Handles
<1>1. << >> \in Seq(Diagnostics)
  OBVIOUS
<1> QED
  BY <1>1 DEF clearErrors, Handles

LEMMA PostErrorType ==
  ASSUME NEW s \in Handles, NEW d \in Diagnostics
  PROVE  postError(s, d) \in Handles
<1>1. Append(s.errors, d) \in Seq(Diagnostics)
  BY DEF Handles
<1> QED
  BY <1>1 DEF postError, Handles

LEMMA ReleaseResultSetType ==
  ASSUME NEW s \in Handles
  PROVE  releaseResultSet(s) \in Handles
  BY DEF releaseResultSet, Handles

LEMMA ReleaseStatementType ==
  ASSUME NEW s \in Handles
  PROVE  releaseStatement(s) \in Handles
<1> DEFINE r == [releaseResultSet(s) EXCEPT !.metaData = "none"]
<1>1. r \in Handles /\ r.resultSet = NoResultSet
  BY ReleaseResultSetType DEF releaseResultSet, Handles
<1>2. closeStatement(r) = [r EXCEPT !.statement = "none"]
  BY <1>1 DEF closeStatement, NoResultSet
<1>3. closeStatement(r) \in Handles
  BY <1>1, <1>2 DEF Handles
<1> QED
  BY <1>1, <1>3 DEF releaseStatement

LEMMA SetResultSetType ==
  ASSUME NEW s \in Handles, NEW rs \in ResultSets
  PROVE  setResultSet(s, rs) \in Handles
  BY ReleaseResultSetType DEF setResultSet, Handles

LEMMA StartResultType ==
  ASSUME NEW s \in Handles
  PROVE  startResult(s) \in Handles
  BY DEF startResult, Handles

LEMMA NewResultSetType ==
  ASSUME NEW owner \in {"statement", "keys", "catalog"}, NEW n \in Nat
  PROVE  NewResultSet(owner, n) \in ResultSets
  BY DEF NewResultSet, ResultSets

LEMMA GetResultSetType ==
  ASSUME NEW s \in Handles, NEW d \in Executions
  PROVE  /\ getResultSet(s, d) \in Handles
         /\ afterGetResultSet(s, d) \in Executions
<1>1. d.keys \in Nat /\ d.results \in Seq(Nat)
  BY DEF Executions
<1>2. CASE GivesKeys(s, d)
  BY <1>1, <1>2, StartResultType, SetResultSetType, NewResultSetType
  DEF getResultSet, afterGetResultSet, Executions
<1>3. CASE ~GivesKeys(s, d) /\ d.results # << >>
  <2>1. Head(d.results) \in Nat /\ Tail(d.results) \in Seq(Nat)
    BY <1>1, <1>3
  <2> QED
    BY <1>3, <2>1, StartResultType, SetResultSetType, NewResultSetType
    DEF getResultSet, afterGetResultSet, Executions
<1>4. CASE ~GivesKeys(s, d) /\ d.results = << >>
  BY <1>4, StartResultType DEF getResultSet, afterGetResultSet
<1> QED
  BY <1>2, <1>3, <1>4

LEMMA PrepareStatementType ==
  ASSUME NEW s \in Handles, NEW kind \in Kinds
  PROVE  prepareStatement(s, kind) \in Handles
<1>1. releaseStatement(clearErrors(s)) \in Handles
  BY ClearErrorsType, ReleaseStatementType
<1> QED
  BY <1>1 DEF prepareStatement, Handles

LEMMA ConsumeType ==
  ASSUME NEW s \in Handles, s.resultSet.left # 0
  PROVE  consume(s) \in Handles
<1>1. s.resultSet \in ResultSets
  BY DEF Handles, NoResultSet
<1>2. [s.resultSet EXCEPT !.left = s.resultSet.left - 1] \in ResultSets
  BY <1>1 DEF ResultSets
<1>3. consume(s) = [s EXCEPT !.resultSet = [s.resultSet EXCEPT !.left = s.resultSet.left - 1]]
  BY DEF consume, Handles
<1> QED
  BY <1>2, <1>3 DEF Handles

LEMMA CountRowType ==
  ASSUME NEW s \in Handles
  PROVE  countRow(s) \in Handles
<1>1. s.rowCountPerFetch + 1 \in Nat /\ s.rowCountPerSelect + 1 \in Nat
  BY DEF Handles
<1> QED
  BY <1>1 DEF countRow, Handles

\* A call that returns leaves the handle, the place and the outcome well typed.
LEMMA ReturnType ==
  ASSUME NEW s \in Handles, NEW call \in Calls, NEW code \in Codes,
         NEW delivered \in Nat, Return(call, code, s, delivered)
  PROVE  h' \in Handles /\ pc' = "idle" /\ ret' \in Outcomes
  BY DEF Return, Outcomes, Handles

LEMMA NoOutcomeType == NoOutcome \in Outcomes
<1>1. << >> \in Seq(Diagnostics)
  OBVIOUS
<1> QED
  BY <1>1 DEF NoOutcome, Outcomes, Codes

LEMMA SqlSuccessType == \A s : sqlSuccess(s) \in Codes
  BY DEF sqlSuccess, Codes

\* A call that asks changes nothing of the handle but its records.
LEMMA AskingReturns ==
  ASSUME h \in Handles, Asking
  PROVE  /\ UNCHANGED <<srv, dm, app>>
         /\ \E call \in Calls, code \in Codes :
              \E s \in {clearErrors(h)} \cup {postError(clearErrors(h), d) : d \in Diagnostics}
                    \cup {postError(postError(clearErrors(h), "warning"), "error")} :
                Return(call, code, s, 0)
<1> DEFINE c == clearErrors(h)
           S == {c} \cup {postError(c, d) : d \in Diagnostics}
                  \cup {postError(postError(c, "warning"), "error")}
           Returns == \E call \in Calls, code \in Codes : \E s \in S : Return(call, code, s, 0)
<1>1. /\ copied(c) = {c, postError(c, "warning")}
      /\ {"error", "warning", "noMetaData"} \subseteq Diagnostics
  BY DEF copied, Diagnostics
<1>2. copied(c) \subseteq S
  BY <1>1
<1>3. ASSUME NEW call \in Calls, NEW s \in S, Succeeds(call, s) PROVE Returns
  BY <1>3, SqlSuccessType DEF Succeeds
<1>4. ASSUME NEW call \in Calls, NEW s \in S, NEW d, Fails(call, s, d), postError(s, d) \in S
      PROVE  Returns
  BY <1>4 DEF Fails, Codes
<1>5. /\ c \in S /\ postError(c, "warning") \in S
      /\ postError(c, "error") \in S /\ postError(c, "noMetaData") \in S
      /\ \A s \in copied(c) : postError(s, "error") \in S
  BY <1>1
<1>6. {"SQLDescribeCol", "SQLColAttribute", "SQLColAttributes", "SQLNumResultCols",
       "SQLGetStmtAttr", "SQLSetStmtAttr"} \subseteq Calls
  BY DEF Calls
<1> HIDE DEF S, Returns
<1>7. Returns
  <2> HIDE DEF c
  <2>1. CASE SQLDescribeCol
    BY <1>2, <1>3, <1>4, <1>5, <1>6, <2>1 DEF SQLDescribeCol, c
  <2>2. CASE SQLColAttribute \/ SQLColAttributes
    <3>1. PICK call \in Calls : ColumnField(call)
      BY <1>6, <2>2 DEF SQLColAttribute, SQLColAttributes
    <3> QED
      BY <1>2, <1>3, <1>4, <1>5, <3>1 DEF ColumnField, c
  <2>3. CASE SQLNumResultCols
    BY <1>3, <1>4, <1>5, <1>6, <2>3 DEF SQLNumResultCols, c
  <2>4. CASE SQLGetStmtAttr
    BY <1>3, <1>4, <1>5, <1>6, <2>4 DEF SQLGetStmtAttr, c
  <2>5. CASE SetOtherAttribute
    BY <1>3, <1>4, <1>5, <1>6, <2>5 DEF SetOtherAttribute, c
  <2> QED
    BY <2>1, <2>2, <2>3, <2>4, <2>5 DEF Asking
<1>8. UNCHANGED <<srv, dm, app>>
  BY DEF Asking, SQLDescribeCol, SQLColAttribute, SQLColAttributes, ColumnField,
         SQLNumResultCols, SQLGetStmtAttr, SetOtherAttribute
<1> QED
  BY <1>7, <1>8 DEF Returns, S

\* What the application knows keeps its type.
LEMMA ApplicationType ==
  ASSUME NEW a \in Applications, NEW n \in Nat
  PROVE  /\ NewCursor(a) \in Applications
         /\ take(a) \in Applications
         /\ lose(a, n) \in Applications
<1>1. a.rows + a.rowsFetched \in Nat /\ a.lost + n \in Nat
  BY DEF Applications
<1>2. NewCursor(a) \in Applications
  BY DEF Applications, NewCursor
<1>3. take(a) \in Applications
  BY <1>1 DEF Applications, take
<1>4. lose(a, n) \in Applications
  BY <1>1 DEF Applications, lose
<1> QED
  BY <1>2, <1>3, <1>4

\* What the database answers is a sequence of result sizes, and keys.
LEMMA AnswersType ==
  ASSUME NEW kind, NEW answer \in Answers(kind)
  PROVE  answer.results \in Seq(Nat) /\ answer.keys \in Nat
<1>1. \A n \in SelectSizes : <<n>> \in Seq(Nat)
  BY SizesAssumption
<1>2. << >> \in Seq(Nat)
  OBVIOUS
<1>3. CASE kind = "select"
  <2>1. answer \in [results : {<<n>> : n \in SelectSizes}, keys : {0}]
    BY <1>3 DEF Answers
  <2>2. PICK n \in SelectSizes : answer.results = <<n>>
    BY <2>1
  <2>3. answer.keys = 0
    BY <2>1
  <2> QED
    BY <1>1, <2>2, <2>3
<1>4. CASE kind = "insert"
  <2>1. answer \in [results : {<< >>}, keys : KeySizes]
    BY <1>4 DEF Answers
  <2> QED
    BY <1>2, <2>1, SizesAssumption
<1>5. CASE kind # "select" /\ kind # "insert"
  <2>1. answer \in [results : CallResults, keys : {0}]
    BY <1>5 DEF Answers
  <2> QED
    BY <2>1, SizesAssumption
<1> QED
  BY <1>3, <1>4, <1>5

LEMMA NoExecutionType == NoExecution \in Executions
<1>1. << >> \in Seq(Nat)
  OBVIOUS
<1> QED
  BY <1>1 DEF NoExecution, Executions

-----------------------------------------------------------------------------
(***************************************************************************)
(* Type correctness.                                                       *)
(***************************************************************************)
LEMMA TypeInit == Init => TypeOK
<1> SUFFICES ASSUME Init PROVE TypeOK
  OBVIOUS
<1>1. << >> \in Seq(Diagnostics)
  OBVIOUS
<1>2. h \in Handles
  BY <1>1, AttributesAssumption DEF Init, Handles
<1>3. app \in Applications /\ ret \in Outcomes
  BY NoOutcomeType DEF Init, Applications
<1> QED
  BY <1>2, <1>3, NoExecutionType DEF Init, TypeOK

LEMMA PrepareType ==
  ASSUME TypeOK, Prepare
  PROVE  TypeOK'
<1>1. h \in Handles /\ app \in Applications
  BY DEF TypeOK
<1>2. ASSUME NEW kind \in Kinds, SQLPrepare(kind)
      PROVE  TypeOK'
  <2>1. h' \in Handles /\ pc' = "idle" /\ ret' \in Outcomes
    <3>1. prepareStatement(h, kind) \in Handles
      BY <1>1, PrepareStatementType
    <3> QED
      BY <1>2, <3>1, ReturnType DEF SQLPrepare, Calls, Codes
  <2> QED
    BY <1>1, <1>2, <2>1, NoExecutionType DEF SQLPrepare, TypeOK, Applications
<1>3. ASSUME NEW call \in {"SQLPrepare", "SQLExecDirect", "SQLCatalog"}, PrepareFails(call)
      PROVE  TypeOK'
  <2>1. h' \in Handles /\ pc' = "idle" /\ ret' \in Outcomes
    <3>1. postError(releaseStatement(clearErrors(h)), "error") \in Handles
      BY <1>1, ClearErrorsType, ReleaseStatementType, PostErrorType DEF Diagnostics
    <3> QED
      BY <1>3, <3>1, ReturnType DEF PrepareFails, Calls, ExecuteCalls, Codes
  <2> QED
    BY <1>1, <1>3, <2>1, NoExecutionType DEF PrepareFails, TypeOK, Applications
<1> QED
  BY <1>2, <1>3 DEF Prepare

LEMMA ExecuteType ==
  ASSUME TypeOK, Execute
  PROVE  TypeOK'
<1>1. h \in Handles /\ app \in Applications /\ clearErrors(h) \in Handles
  BY ClearErrorsType DEF TypeOK
<1>2. CASE SQLExecute
  BY <1>1, <1>2, NoOutcomeType DEF Begin, SQLExecute, TypeOK, ExecuteCalls
<1>3. CASE SQLExecuteNeedsData
  <2>1. h' \in Handles /\ pc' = "idle" /\ ret' \in Outcomes
    BY <1>1, <1>3, ReturnType DEF SQLExecuteNeedsData, Calls, ExecuteCalls, Codes
  <2> QED
    BY <1>3, <2>1 DEF SQLExecuteNeedsData, TypeOK
<1>4. CASE SQLExecuteBadParameter
  <2>1. h' \in Handles /\ pc' = "idle" /\ ret' \in Outcomes
    <3>1. postError(clearErrors(h), "error") \in Handles
      BY <1>1, PostErrorType DEF Diagnostics
    <3> QED
      BY <1>4, <3>1, ReturnType DEF SQLExecuteBadParameter, Calls, ExecuteCalls, Codes
  <2> QED
    BY <1>4, <2>1 DEF SQLExecuteBadParameter, TypeOK
<1>5. ASSUME NEW kind \in Kinds, SQLExecDirect(kind)
      PROVE  TypeOK'
  BY <1>1, <1>5, PrepareStatementType, NoExecutionType, NoOutcomeType
  DEF Begin, SQLExecDirect, TypeOK, ExecuteCalls, Applications
<1>6. ASSUME NEW kind \in Kinds, SQLExecDirectDropsResult(kind)
      PROVE  TypeOK'
  <2>1. h' \in Handles /\ pc' = "idle" /\ ret' \in Outcomes
    <3>1. prepareStatement(h, kind) \in Handles
      BY <1>1, PrepareStatementType
    <3>2. postError(prepareStatement(h, kind), "error") \in Handles
      BY <3>1, PostErrorType DEF Diagnostics
    <3>3. PICK s \in {prepareStatement(h, kind),
                      postError(prepareStatement(h, kind), "error")} :
            Return("SQLExecDirect", "SQL_SUCCESS", s, 0)
      BY <1>6 DEF SQLExecDirectDropsResult
    <3>4. s \in Handles
      BY <3>1, <3>2
    <3> QED
      BY <3>3, <3>4, ReturnType DEF Calls, ExecuteCalls, Codes
  <2> QED
    BY <1>1, <1>6, <2>1, NoExecutionType
    DEF SQLExecDirectDropsResult, TypeOK, Applications
<1>7. CASE SQLParamData
  BY <1>1, <1>7, NoOutcomeType DEF Begin, SQLParamData, TypeOK, ExecuteCalls
<1>8. ASSUME NEW n \in CatalogSizes, SQLCatalog(n)
      PROVE  TypeOK'
  <2>1. h' \in Handles /\ pc' = "idle" /\ ret' \in Outcomes
    <3>1. NewResultSet("catalog", n) \in ResultSets
      BY NewResultSetType, SizesAssumption
    <3>2. setResultSet(releaseStatement(clearErrors(h)), NewResultSet("catalog", n))
            \in Handles
      BY <1>1, <3>1, ReleaseStatementType, SetResultSetType
    <3> QED
      BY <1>8, <3>2, ReturnType DEF SQLCatalog, Calls, Codes
  <2>2. app' \in Applications
    BY <1>1, <1>8 DEF SQLCatalog, Applications, NewCursor
  <2> QED
    BY <1>8, <2>1, <2>2, NoExecutionType DEF SQLCatalog, TypeOK
<1> QED
  BY <1>2, <1>3, <1>4, <1>5, <1>6, <1>7, <1>8 DEF Execute

LEMMA ExecuteStepType ==
  ASSUME TypeOK, ExecuteStep
  PROVE  TypeOK'
<1>1. h \in Handles /\ app \in Applications
  BY DEF TypeOK
<1>2. ASSUME NEW answer \in Answers(h.statement), NEW cut \in BOOLEAN,
             ExecuteReturns(answer, cut)
      PROVE  TypeOK'
  <2> DEFINE s == outputParameters(h, cut)
             d == [results |-> answer.results, keys |-> answer.keys,
                   keysGiven |-> FALSE, executed |-> TRUE]
             done == IF answer.results # << >> THEN getResultSet(s, d) ELSE s
  <2>1. s \in Handles
    BY <1>1, PostErrorType DEF outputParameters, Diagnostics
  <2>2. d \in Executions
    BY AnswersType DEF Executions
  <2>3. done \in Handles /\ afterGetResultSet(s, d) \in Executions
    BY <2>1, <2>2, GetResultSetType
  <2>4. (IF pc = "SQLExecDirect" THEN "SQL_SUCCESS" ELSE sqlSuccess(s)) \in Codes
    BY SqlSuccessType DEF Codes
  <2>5. pc \in Calls
    BY <1>2 DEF ExecuteReturns, Calls
  <2>6. Return(pc, IF pc = "SQLExecDirect" THEN "SQL_SUCCESS" ELSE sqlSuccess(s), done, 0)
    BY <1>2 DEF ExecuteReturns
  <2>7. h' \in Handles /\ pc' = "idle" /\ ret' \in Outcomes
    <3> HIDE DEF s, d, done
    <3> QED
      BY <2>3, <2>4, <2>5, <2>6, ReturnType
  <2>8. srv' \in Executions
    BY <1>2, <2>2, <2>3 DEF ExecuteReturns
  <2>9. app' \in Applications
    <3>1. NewCursor(app) \in Applications
      BY <1>1, ApplicationType
    <3> QED
      BY <1>1, <1>2, <3>1 DEF ExecuteReturns, Applications
  <2>10. dm' = "executed"
    BY <1>2 DEF ExecuteReturns
  <2> QED
    BY <2>7, <2>8, <2>9, <2>10 DEF TypeOK
<1>3. CASE ExecuteThrows
  <2>1. h' \in Handles /\ pc' = "idle" /\ ret' \in Outcomes
    <3>1. postError(h, "error") \in Handles
      BY <1>1, PostErrorType DEF Diagnostics
    <3> QED
      BY <1>3, <3>1, ReturnType DEF ExecuteThrows, Calls, Codes
  <2> QED
    BY <1>3, <2>1, NoExecutionType DEF ExecuteThrows, Dormant, TypeOK
<1> QED
  BY <1>2, <1>3 DEF ExecuteStep

LEMMA FetchType ==
  ASSUME TypeOK, Fetch
  PROVE  TypeOK'
<1>1. h \in Handles
  BY DEF TypeOK
<1>2. CASE SQLFetchNoCursor
  <2>1. h' \in Handles /\ pc' = "idle" /\ ret' \in Outcomes
    <3>1. postError(h, "error") \in Handles
      BY <1>1, PostErrorType DEF Diagnostics
    <3> QED
      BY <1>1, <1>2, <3>1, ReturnType DEF SQLFetchNoCursor, Calls, Codes
  <2> QED
    BY <1>2, <2>1 DEF SQLFetchNoCursor, TypeOK
<1>3. CASE SQLFetchCanceled
  <2>1. h' \in Handles /\ pc' = "idle" /\ ret' \in Outcomes
    <3>1. postError(releaseResultSet(h), "canceled") \in Handles
      BY <1>1, ReleaseResultSetType, PostErrorType DEF Diagnostics
    <3> QED
      BY <1>3, <3>1, ReturnType DEF SQLFetchCanceled, Calls, Codes
  <2> QED
    BY <1>3, <2>1 DEF SQLFetchCanceled, TypeOK
<1>4. CASE SQLFetch
  <2>1. [h EXCEPT !.rowCountPerFetch = 0] \in Handles
    BY <1>1 DEF Handles
  <2> QED
    BY <1>4, <2>1, NoOutcomeType DEF Begin, SQLFetch, TypeOK
<1> QED
  BY <1>2, <1>3, <1>4 DEF Fetch

LEMMA FetchStepType ==
  ASSUME TypeOK, FetchStep
  PROVE  TypeOK'
<1>1. h \in Handles /\ app \in Applications
  BY DEF TypeOK
<1>2. h.rowCountPerFetch \in Nat /\ h.rowCountPerFetch + 1 \in Nat
  BY <1>1 DEF Handles
<1>3. ASSUME NEW cut \in BOOLEAN, FetchRow(cut)
      PROVE  TypeOK'
  <2> DEFINE s == IF cut THEN postError(consume(h), "warning") ELSE consume(h)
  <2>1. h' = countRow(s) /\ h.resultSet.left # 0
    BY <1>3 DEF FetchRow, AtEnd
  <2>2. s \in Handles
    BY <1>1, <2>1, ConsumeType, PostErrorType DEF Diagnostics
  <2>3. h' \in Handles
    <3> HIDE DEF s
    <3> QED
      BY <2>1, <2>2, CountRowType
  <2>4. app' \in Applications
    BY <1>1, <1>2, <1>3 DEF FetchRow, Applications
  <2> QED
    BY <1>3, <2>3, <2>4 DEF FetchRow, TypeOK
<1>4. CASE FetchRowFails
  <2>1. h' \in Handles /\ pc' = "idle" /\ ret' \in Outcomes
    <3>1. consume(h) \in Handles
      BY <1>1, <1>4, ConsumeType DEF FetchRowFails, AtEnd
    <3>2. postError(consume(h), "error") \in Handles
      BY <3>1, PostErrorType DEF Diagnostics
    <3> QED
      BY <1>4, <3>2, ReturnType DEF FetchRowFails, Calls, Codes
  <2>2. app' \in Applications
    BY <1>1, <1>2, <1>4, ApplicationType DEF FetchRowFails
  <2> QED
    BY <1>4, <2>1, <2>2 DEF FetchRowFails, TypeOK
<1>5. CASE FetchThrows
  <2>1. h' \in Handles /\ pc' = "idle" /\ ret' \in Outcomes
    <3>1. postError(h, "error") \in Handles
      BY <1>1, PostErrorType DEF Diagnostics
    <3> QED
      BY <1>5, <3>1, ReturnType DEF FetchThrows, Calls, Codes
  <2>2. app' \in Applications
    BY <1>1, <1>2, <1>5, ApplicationType DEF FetchThrows
  <2> QED
    BY <1>5, <2>1, <2>2 DEF FetchThrows, TypeOK
<1>6. CASE FetchEnds
  <2>1. h' \in Handles /\ pc' = "idle" /\ ret' \in Outcomes
    <3>1. [h EXCEPT !.eof = TRUE] \in Handles
      BY <1>1 DEF Handles
    <3>2. (IF h.rowCountPerFetch > 0 THEN sqlSuccess(h) ELSE "SQL_NO_DATA") \in Codes
      BY SqlSuccessType DEF Codes
    <3> QED
      BY <1>2, <1>6, <3>1, <3>2, ReturnType DEF FetchEnds, Calls
  <2>2. app' \in Applications
    BY <1>1, <1>2, <1>6, ApplicationType DEF FetchEnds
  <2> QED
    BY <1>6, <2>1, <2>2 DEF FetchEnds, TypeOK
<1>7. CASE FetchFull
  <2>1. h' \in Handles /\ pc' = "idle" /\ ret' \in Outcomes
    BY <1>1, <1>2, <1>7, SqlSuccessType, ReturnType DEF FetchFull, Calls
  <2>2. app' \in Applications
    BY <1>1, <1>2, <1>7, ApplicationType DEF FetchFull
  <2> QED
    BY <1>7, <2>1, <2>2 DEF FetchFull, TypeOK
<1> QED
  BY <1>3, <1>4, <1>5, <1>6, <1>7 DEF FetchStep

LEMMA OtherType ==
  ASSUME TypeOK, Other
  PROVE  TypeOK'
<1>1. h \in Handles /\ app \in Applications /\ srv \in Executions
  BY DEF TypeOK
<1>2. clearErrors(h) \in Handles
  BY <1>1, ClearErrorsType
<1>3. CASE SQLMoreResults
  <2>1. getResultSet(h, srv) \in Handles /\ afterGetResultSet(h, srv) \in Executions
    BY <1>1, GetResultSetType
  <2>2. h' \in Handles /\ pc' = "idle" /\ ret' \in Outcomes
    <3>1. CASE h.statement = "none"
      BY <1>1, <1>3, <3>1, ReturnType DEF SQLMoreResults, Calls, Codes
    <3>2. CASE h.statement # "none"
      <4>1. PICK code \in Codes : Return("SQLMoreResults", code, getResultSet(h, srv), 0)
        BY <1>3, <3>2, SqlSuccessType DEF SQLMoreResults, Codes
      <4> QED
        BY <2>1, <4>1, ReturnType DEF Calls
    <3> QED
      BY <3>1, <3>2
  <2>3. srv' \in Executions
    BY <1>1, <1>3, <2>1 DEF SQLMoreResults
  <2>4. app' \in Applications
    <3>1. NewCursor(app) \in Applications
      BY <1>1, ApplicationType
    <3> QED
      BY <1>1, <1>3, <3>1 DEF SQLMoreResults, Applications
  <2>5. dm' \in {"allocated", "prepared", "executed"}
    BY <1>3 DEF SQLMoreResults, Dormant
  <2> QED
    BY <2>2, <2>3, <2>4, <2>5 DEF TypeOK
<1>4. CASE SQLCloseCursor
  <2>1. h' \in Handles /\ pc' = "idle" /\ ret' \in Outcomes
    BY <1>2, <1>4, ReleaseResultSetType, ReturnType DEF SQLCloseCursor, Calls, Codes
  <2> QED
    BY <1>4, <2>1 DEF SQLCloseCursor, Dormant, TypeOK
<1>5. CASE SQLFreeStmt
  <2>1. h' \in Handles /\ pc' = "idle" /\ ret' \in Outcomes
    BY <1>2, <1>5, ReleaseResultSetType, ReturnType DEF SQLFreeStmt, Calls, Codes
  <2> QED
    BY <1>5, <2>1 DEF SQLFreeStmt, Dormant, TypeOK
<1>6. ASSUME NEW limit \in Limits, SetMaxRows(limit)
      PROVE  TypeOK'
  <2>1. [clearErrors(h) EXCEPT !.maxRowsPerSelect = limit] \in Handles
    BY <1>2 DEF Handles
  <2>2. h' \in Handles /\ pc' = "idle" /\ ret' \in Outcomes
    BY <1>6, <2>1, ReturnType DEF SetMaxRows, Calls, Codes
  <2> QED
    BY <1>6, <2>2 DEF SetMaxRows, TypeOK
<1>7. ASSUME NEW size \in ArraySizes, SetRowArraySize(size)
      PROVE  TypeOK'
  <2>1. [clearErrors(h) EXCEPT !.rowArraySize = size] \in Handles
    BY <1>2 DEF Handles
  <2>2. h' \in Handles /\ pc' = "idle" /\ ret' \in Outcomes
    BY <1>7, <2>1, ReturnType DEF SetRowArraySize, Calls, Codes
  <2> QED
    BY <1>7, <2>2 DEF SetRowArraySize, TypeOK
<1>8. CASE Asking
  <2> DEFINE c == clearErrors(h)
             S == {c} \cup {postError(c, d) : d \in Diagnostics}
                    \cup {postError(postError(c, "warning"), "error")}
  <2>1. S \subseteq Handles
    BY <1>2, PostErrorType DEF Diagnostics
  <2>2. UNCHANGED <<srv, dm, app>> /\
        \E call \in Calls, code \in Codes : \E s \in S : Return(call, code, s, 0)
    BY <1>1, <1>8, AskingReturns
  <2> HIDE DEF S
  <2>3. h' \in Handles /\ pc' = "idle" /\ ret' \in Outcomes
    BY <2>1, <2>2, ReturnType
  <2> QED
    BY <2>2, <2>3 DEF TypeOK
<1>9. CASE SQLError
  <2>1. Tail(h.errors) \in Seq(Diagnostics)
    BY <1>1, <1>9 DEF SQLError, Handles
  <2>2. [h EXCEPT !.errors = Tail(@)] \in Handles
    BY <1>1, <2>1 DEF Handles
  <2>3. h' \in Handles /\ pc' = "idle" /\ ret' \in Outcomes
    BY <1>9, <2>2, ReturnType DEF SQLError, Calls, Codes
  <2> QED
    BY <1>9, <2>3 DEF SQLError, TypeOK
<1> QED
  BY <1>3, <1>4, <1>5, <1>6, <1>7, <1>8, <1>9 DEF Other

LEMMA CancelType ==
  ASSUME TypeOK, SQLCancel
  PROVE  TypeOK'
<1>1. clearErrors(h) \in Handles
  BY ClearErrorsType DEF TypeOK
<1>2. h' \in Handles
  BY <1>1 DEF SQLCancel, Handles
<1>3. app' \in Applications
  BY DEF SQLCancel, TypeOK, Applications
<1> QED
  BY <1>2, <1>3, NoOutcomeType DEF SQLCancel, TypeOK

LEMMA TypeStep ==
  ASSUME TypeOK, [Next]_vars
  PROVE  TypeOK'
<1>1. CASE Next
  BY <1>1, PrepareType, ExecuteType, ExecuteStepType, FetchType, FetchStepType,
     OtherType, CancelType
  DEF Next
<1>2. CASE UNCHANGED vars
  BY <1>2 DEF vars, TypeOK
<1> QED
  BY <1>1, <1>2

\* Every variable of a statement handle always has its type: in particular no
\* cursor ever has fewer than no rows left, because sqlFetch looks at eof, at
\* the limit and at the answer of next() before it counts a row.
THEOREM TypeCorrect == Spec => []TypeOK
<1> QED
  BY TypeInit, TypeStep, PTL DEF Spec

-----------------------------------------------------------------------------
(***************************************************************************)
(* No dangling cursor.  Linked says of one handle what NoDanglingCursor    *)
(* says of h; the invariant adds that whoever executes has a statement:    *)
(* otherwise a result could be opened on a statement that is not there.    *)
(***************************************************************************)
Linked(s) ==
  /\ HasCursor(s) => s.resultSet.open
  /\ s.resultSet.owner \in {"statement", "keys"} => s.statement # "none"
  /\ s.metaData = "resultSet" <=> HasCursor(s)
  /\ s.metaData = "statement" => s.statement # "none"

StatementHeld ==
  /\ app.prepared => h.statement # "none"
  /\ dm = "needData" => app.prepared
  /\ pc \in ExecuteCalls => h.statement # "none"

CursorInv == Linked(h) /\ StatementHeld

LEMMA ClearErrorsLinked ==
  ASSUME NEW s \in Handles, Linked(s)
  PROVE  Linked(clearErrors(s)) /\ clearErrors(s).statement = s.statement
  BY DEF clearErrors, Linked, HasCursor, Handles

LEMMA PostErrorLinked ==
  ASSUME NEW s \in Handles, Linked(s), NEW d
  PROVE  Linked(postError(s, d)) /\ postError(s, d).statement = s.statement
  BY DEF postError, Linked, HasCursor, Handles

LEMMA ReleaseResultSetLinked ==
  ASSUME NEW s \in Handles, Linked(s)
  PROVE  /\ Linked(releaseResultSet(s))
         /\ releaseResultSet(s).statement = s.statement
         /\ ~HasCursor(releaseResultSet(s))
  BY DEF releaseResultSet, Linked, HasCursor, NoResultSet, Handles

LEMMA ReleaseStatementLinked ==
  ASSUME NEW s \in Handles
  PROVE  /\ Linked(releaseStatement(s))
         /\ releaseStatement(s).statement = "none"
         /\ releaseStatement(s).resultSet = NoResultSet
<1> DEFINE r == [releaseResultSet(s) EXCEPT !.metaData = "none"]
<1>1. r \in Handles /\ r.resultSet = NoResultSet /\ r.metaData = "none"
  BY ReleaseResultSetType DEF releaseResultSet, Handles
<1>2. closeStatement(r) = [r EXCEPT !.statement = "none"]
  BY <1>1 DEF closeStatement, NoResultSet
<1>3. releaseStatement(s) = [r EXCEPT !.statement = "none"]
  BY <1>1, <1>2 DEF releaseStatement, Handles
<1> HIDE DEF r
<1>4. [r EXCEPT !.statement = "none"].resultSet = NoResultSet
  BY <1>1 DEF Handles
<1>5. [r EXCEPT !.statement = "none"].metaData = "none"
  BY <1>1 DEF Handles
<1>6. [r EXCEPT !.statement = "none"].statement = "none"
  BY <1>1 DEF Handles
<1> QED
  BY <1>3, <1>4, <1>5, <1>6 DEF Linked, HasCursor, NoResultSet

LEMMA SetResultSetLinked ==
  ASSUME NEW s \in Handles, NEW rs \in ResultSets, rs.open,
         rs.owner = "catalog" \/ s.statement # "none"
  PROVE  /\ Linked(setResultSet(s, rs))
         /\ setResultSet(s, rs).statement = s.statement
<1>1. releaseResultSet(s) \in Handles /\ releaseResultSet(s).statement = s.statement
  BY ReleaseResultSetType DEF releaseResultSet, Handles
<1> DEFINE t == setResultSet(s, rs)
<1>2. t.resultSet = rs /\ t.metaData = "resultSet" /\ t.statement = s.statement
  BY <1>1 DEF setResultSet, Handles
<1>3. rs # NoResultSet
  BY DEF ResultSets, NoResultSet
<1> HIDE DEF t
<1>4. Linked(t)
  BY <1>2, <1>3 DEF Linked, HasCursor
<1> QED
  BY <1>2, <1>4 DEF t

LEMMA StartResultLinked ==
  ASSUME NEW s \in Handles
  PROVE  /\ startResult(s).statement = s.statement
         /\ startResult(s).resultSet = s.resultSet
         /\ startResult(s).metaData = s.metaData
  BY DEF startResult, Handles

LEMMA GetResultSetLinked ==
  ASSUME NEW s \in Handles, NEW d \in Executions, Linked(s), s.statement # "none"
  PROVE  Linked(getResultSet(s, d)) /\ getResultSet(s, d).statement = s.statement
<1>1. d.keys \in Nat /\ d.results \in Seq(Nat)
  BY DEF Executions
<1>2. startResult(s) \in Handles /\ startResult(s).statement = s.statement
  BY StartResultType, StartResultLinked
<1>3. CASE GivesKeys(s, d)
  <2>1. NewResultSet("keys", d.keys) \in ResultSets /\ NewResultSet("keys", d.keys).open
    BY <1>1, NewResultSetType DEF NewResultSet
  <2> QED
    BY <1>2, <1>3, <2>1, SetResultSetLinked DEF getResultSet
<1>4. CASE ~GivesKeys(s, d) /\ d.results # << >>
  <2>1. Head(d.results) \in Nat
    BY <1>1, <1>4
  <2>2. /\ NewResultSet("statement", Head(d.results)) \in ResultSets
        /\ NewResultSet("statement", Head(d.results)).open
    BY <2>1, NewResultSetType DEF NewResultSet
  <2> QED
    BY <1>2, <1>4, <2>2, SetResultSetLinked DEF getResultSet
<1>5. CASE ~GivesKeys(s, d) /\ d.results = << >>
  <2>1. Linked(startResult(s))
    BY <1>2, StartResultLinked DEF Linked, HasCursor
  <2> QED
    BY <1>2, <1>5, <2>1 DEF getResultSet
<1> QED
  BY <1>3, <1>4, <1>5

LEMMA PrepareStatementLinked ==
  ASSUME NEW s \in Handles, NEW kind \in Kinds
  PROVE  /\ Linked(prepareStatement(s, kind))
         /\ prepareStatement(s, kind).statement = kind
         /\ kind # "none"
<1> DEFINE r == releaseStatement(clearErrors(s))
           t == prepareStatement(s, kind)
<1>1. r \in Handles /\ r.resultSet = NoResultSet
  BY ClearErrorsType, ReleaseStatementType, ReleaseStatementLinked
<1>2. kind # "none"
  BY KindsAssumption
<1>3. t.resultSet = NoResultSet /\ t.statement = kind /\ t.metaData # "resultSet"
  <2> HIDE DEF r
  <2>1. t = [r EXCEPT !.statement = kind,
                      !.metaData = IF kind = "call" THEN "none" ELSE "statement"]
    BY DEF prepareStatement, r
  <2> HIDE DEF t
  <2> QED
    BY <1>1, <2>1 DEF Handles
<1> HIDE DEF t
<1>4. Linked(t)
  BY <1>2, <1>3 DEF Linked, HasCursor, NoResultSet
<1> QED
  BY <1>2, <1>3, <1>4 DEF t

\* A call that returns with a linked handle, whose statement is there if the
\* application has a prepared text, and that does not ask for data.
LEMMA ReturnLinked ==
  ASSUME NEW s, NEW call, NEW code, NEW delivered, Return(call, code, s, delivered),
         Linked(s), app'.prepared => s.statement # "none",
         dm' = "needData" => app'.prepared
  PROVE  CursorInv'
  BY DEF Return, CursorInv, Linked, HasCursor, StatementHeld, ExecuteCalls

LEMMA PrepareLinked ==
  ASSUME TypeOK, CursorInv, Prepare
  PROVE  CursorInv'
<1>1. h \in Handles /\ app \in Applications
  BY DEF TypeOK
<1>2. ASSUME NEW kind \in Kinds, SQLPrepare(kind)
      PROVE  CursorInv'
  BY <1>1, <1>2, PrepareStatementLinked, ReturnLinked DEF SQLPrepare, Applications
<1>3. ASSUME NEW call \in {"SQLPrepare", "SQLExecDirect", "SQLCatalog"}, PrepareFails(call)
      PROVE  CursorInv'
  <2> DEFINE s == releaseStatement(clearErrors(h))
  <2>1. s \in Handles /\ Linked(s)
    BY <1>1, ClearErrorsType, ReleaseStatementType, ReleaseStatementLinked
  <2>2. Linked(postError(s, "error"))
    BY <2>1, PostErrorLinked
  <2>3. app'.prepared = FALSE
    BY <1>1, <1>3 DEF PrepareFails, Applications
  <2> QED
    BY <1>3, <2>2, <2>3, ReturnLinked DEF PrepareFails
<1> QED
  BY <1>2, <1>3 DEF Prepare

LEMMA ExecuteLinked ==
  ASSUME TypeOK, CursorInv, Execute
  PROVE  CursorInv'
<1>1. /\ h \in Handles /\ app \in Applications /\ Linked(h)
      /\ app.prepared => h.statement # "none"
      /\ dm = "needData" => app.prepared
  BY DEF TypeOK, CursorInv, StatementHeld
<1>2. /\ clearErrors(h) \in Handles /\ Linked(clearErrors(h))
      /\ clearErrors(h).statement = h.statement
  BY <1>1, ClearErrorsType, ClearErrorsLinked
<1>3. ASSUME app' = app, app.prepared, h' = clearErrors(h), dm' = dm
      PROVE  CursorInv'
  BY <1>1, <1>2, <1>3 DEF CursorInv, Linked, HasCursor, StatementHeld
<1>4. CASE SQLExecute
  BY <1>3, <1>4 DEF SQLExecute, Begin
<1>5. CASE SQLExecuteNeedsData
  BY <1>1, <1>2, <1>5, ReturnLinked DEF SQLExecuteNeedsData
<1>6. CASE SQLExecuteBadParameter
  <2>1. /\ Linked(postError(clearErrors(h), "error"))
        /\ postError(clearErrors(h), "error").statement = h.statement
    BY <1>2, PostErrorLinked
  <2> QED
    BY <1>1, <1>6, <2>1, ReturnLinked DEF SQLExecuteBadParameter
<1>7. ASSUME NEW kind \in Kinds, SQLExecDirect(kind)
      PROVE  CursorInv'
  <2>1. h' = prepareStatement(h, kind) /\ Linked(h') /\ h'.statement # "none"
    BY <1>1, <1>7, PrepareStatementLinked DEF Begin, SQLExecDirect, Linked, HasCursor
  <2>2. dm' # "needData"
    BY <1>7 DEF SQLExecDirect, MayExecute
  <2> QED
    BY <2>1, <2>2 DEF CursorInv, StatementHeld, Linked, HasCursor
<1>8. ASSUME NEW kind \in Kinds, SQLExecDirectDropsResult(kind)
      PROVE  CursorInv'
  <2> DEFINE t == prepareStatement(h, kind)
  <2>1. t \in Handles /\ Linked(t)
    BY <1>1, PrepareStatementType, PrepareStatementLinked
  <2>2. Linked(postError(t, "error"))
    BY <2>1, PostErrorLinked
  <2>3. app'.prepared = FALSE /\ dm' # "needData"
    BY <1>1, <1>8 DEF SQLExecDirectDropsResult, Applications
  <2>4. PICK s \in {t, postError(t, "error")} : Return("SQLExecDirect", "SQL_SUCCESS", s, 0)
    BY <1>8 DEF SQLExecDirectDropsResult
  <2> QED
    BY <2>1, <2>2, <2>3, <2>4, ReturnLinked
<1>9. CASE SQLParamData
  BY <1>1, <1>3, <1>9 DEF SQLParamData, Begin
<1>10. ASSUME NEW n \in CatalogSizes, SQLCatalog(n)
       PROVE  CursorInv'
  <2> DEFINE r == releaseStatement(clearErrors(h))
             rs == NewResultSet("catalog", n)
  <2>1. r \in Handles
    BY <1>2, ReleaseStatementType
  <2>2. rs \in ResultSets /\ rs.open /\ rs.owner = "catalog"
    BY NewResultSetType, SizesAssumption DEF NewResultSet
  <2>3. Linked(setResultSet(r, rs))
    BY <2>1, <2>2, SetResultSetLinked
  <2>4. app'.prepared = FALSE
    BY <1>1, <1>10 DEF SQLCatalog, Applications, NewCursor
  <2> QED
    BY <1>10, <2>3, <2>4, ReturnLinked DEF SQLCatalog
<1> QED
  BY <1>4, <1>5, <1>6, <1>7, <1>8, <1>9, <1>10 DEF Execute

LEMMA ExecuteStepLinked ==
  ASSUME TypeOK, CursorInv, ExecuteStep
  PROVE  CursorInv'
<1>1. /\ h \in Handles /\ app \in Applications /\ Linked(h)
      /\ app.prepared => h.statement # "none"
      /\ pc \in ExecuteCalls => h.statement # "none"
  BY DEF TypeOK, CursorInv, StatementHeld
<1>2. ASSUME NEW answer \in Answers(h.statement), NEW cut \in BOOLEAN,
             ExecuteReturns(answer, cut)
      PROVE  CursorInv'
  <2> DEFINE s == outputParameters(h, cut)
             d == [results |-> answer.results, keys |-> answer.keys,
                   keysGiven |-> FALSE, executed |-> TRUE]
             done == IF answer.results # << >> THEN getResultSet(s, d) ELSE s
  <2>1. h.statement # "none"
    BY <1>1, <1>2 DEF ExecuteReturns
  <2>2. s \in Handles /\ Linked(s) /\ s.statement = h.statement
    BY <1>1, PostErrorType, PostErrorLinked DEF outputParameters, Diagnostics
  <2>3. d \in Executions
    BY AnswersType DEF Executions
  <2>4. Linked(done) /\ done.statement = h.statement
    BY <2>1, <2>2, <2>3, GetResultSetLinked
  <2>5. PICK code : Return(pc, code, done, 0)
    BY <1>2 DEF ExecuteReturns
  <2>6. dm' # "needData"
    BY <1>2 DEF ExecuteReturns
  <2> HIDE DEF done
  <2> QED
    BY <2>1, <2>4, <2>5, <2>6, ReturnLinked
<1>3. CASE ExecuteThrows
  <2>1. Linked(postError(h, "error")) /\ postError(h, "error").statement = h.statement
    BY <1>1, PostErrorLinked
  <2>2. dm' # "needData"
    BY <1>3 DEF ExecuteThrows, Dormant
  <2> QED
    BY <1>1, <1>3, <2>1, <2>2, ReturnLinked DEF ExecuteThrows
<1> QED
  BY <1>2, <1>3 DEF ExecuteStep

\* next() moves a cursor on and leaves everything else.
LEMMA ConsumeLinked ==
  ASSUME NEW s \in Handles, s.resultSet.left # 0, Linked(s)
  PROVE  Linked(consume(s)) /\ consume(s).statement = s.statement
<1>1. s.resultSet \in ResultSets
  BY DEF Handles, NoResultSet
<1> DEFINE rs == [s.resultSet EXCEPT !.left = s.resultSet.left - 1]
<1>2. rs \in ResultSets /\ rs.open = s.resultSet.open /\ rs.owner = s.resultSet.owner
  BY <1>1 DEF ResultSets
<1>3. rs # NoResultSet
  BY <1>2 DEF ResultSets, NoResultSet
<1>4. HasCursor(s)
  BY <1>1 DEF ResultSets, NoResultSet, HasCursor
<1>5. consume(s) = [s EXCEPT !.resultSet = rs]
  BY DEF consume, Handles
<1> HIDE DEF rs
<1>6. /\ consume(s).resultSet = rs /\ consume(s).statement = s.statement
      /\ consume(s).metaData = s.metaData
  BY <1>5 DEF Handles
<1> QED
  BY <1>2, <1>3, <1>4, <1>6 DEF Linked, HasCursor

LEMMA FetchLinked ==
  ASSUME TypeOK, CursorInv, Fetch \/ FetchStep
  PROVE  CursorInv'
<1>1. /\ h \in Handles /\ Linked(h)
      /\ app.prepared => h.statement # "none"
      /\ dm = "needData" => app.prepared
  BY DEF TypeOK, CursorInv, StatementHeld
<1>2. app'.prepared = app.prepared /\ (dm' = "needData" => app.prepared)
  <2>1. CASE Fetch
    BY <1>1, <2>1 DEF Fetch, SQLFetchNoCursor, SQLFetchCanceled, SQLFetch
  <2>2. CASE FetchStep
    BY <1>1, <2>2
    DEF FetchStep, FetchRow, FetchRowFails, FetchThrows, FetchEnds, FetchFull,
        take, lose, TypeOK, Applications
  <2> QED
    BY <2>1, <2>2
<1>3. /\ Linked(postError(h, "error")) /\ postError(h, "error").statement = h.statement
  BY <1>1, PostErrorLinked
<1>4. ASSUME h.resultSet.left # 0, NEW d \in Diagnostics
      PROVE  /\ consume(h) \in Handles /\ Linked(consume(h))
             /\ consume(h).statement = h.statement
             /\ Linked(postError(consume(h), d))
             /\ postError(consume(h), d) \in Handles
             /\ postError(consume(h), d).statement = h.statement
  BY <1>1, <1>4, ConsumeType, ConsumeLinked, PostErrorType, PostErrorLinked
<1>5. CASE SQLFetchNoCursor
  <2>1. PICK code \in Codes : \E s \in {h, postError(h, "error")} :
          Return("SQLFetch", code, s, 0)
    BY <1>5 DEF SQLFetchNoCursor, Codes
  <2> QED
    BY <1>1, <1>2, <1>3, <2>1, ReturnLinked
<1>6. CASE SQLFetchCanceled
  <2> DEFINE r == releaseResultSet(h)
  <2>1. r \in Handles /\ Linked(r) /\ r.statement = h.statement
    BY <1>1, ReleaseResultSetType, ReleaseResultSetLinked
  <2>2. Linked(postError(r, "canceled")) /\ postError(r, "canceled").statement = h.statement
    BY <2>1, PostErrorLinked
  <2> QED
    BY <1>1, <1>2, <1>6, <2>2, ReturnLinked DEF SQLFetchCanceled
<1>7. CASE SQLFetch
  <2>1. /\ h'.resultSet = h.resultSet /\ h'.metaData = h.metaData
        /\ h'.statement = h.statement /\ pc' \notin ExecuteCalls
    BY <1>1, <1>7 DEF Begin, SQLFetch, Handles, ExecuteCalls
  <2> QED
    BY <1>1, <1>2, <2>1 DEF CursorInv, Linked, HasCursor, StatementHeld
<1>8. ASSUME NEW cut \in BOOLEAN, FetchRow(cut)
      PROVE  CursorInv'
  <2> DEFINE s == IF cut THEN postError(consume(h), "warning") ELSE consume(h)
  <2>1. h' = countRow(s) /\ h.resultSet.left # 0 /\ pc' \notin ExecuteCalls
    BY <1>8 DEF FetchRow, AtEnd, WantsRow, ExecuteCalls
  <2>2. s \in Handles /\ Linked(s) /\ s.statement = h.statement
    BY <1>4, <2>1 DEF Diagnostics
  <2> HIDE DEF s
  <2>3. /\ h'.resultSet = s.resultSet /\ h'.metaData = s.metaData
        /\ h'.statement = s.statement
    BY <2>1, <2>2 DEF countRow, Handles
  <2> QED
    BY <1>1, <1>2, <2>1, <2>2, <2>3 DEF CursorInv, Linked, HasCursor, StatementHeld
<1>9. CASE FetchRowFails
  <2>1. h.resultSet.left # 0
    BY <1>9 DEF FetchRowFails, AtEnd
  <2> QED
    BY <1>1, <1>2, <1>4, <1>9, <2>1, ReturnLinked DEF FetchRowFails, Diagnostics
<1>10. CASE FetchThrows
  BY <1>1, <1>2, <1>3, <1>10, ReturnLinked DEF FetchThrows
<1>11. CASE FetchEnds
  <2> DEFINE s == [h EXCEPT !.eof = TRUE]
  <2>1. /\ s.resultSet = h.resultSet /\ s.metaData = h.metaData
        /\ s.statement = h.statement
    BY <1>1 DEF Handles
  <2>2. PICK code, n : Return("SQLFetch", code, s, n)
    BY <1>11 DEF FetchEnds
  <2> HIDE DEF s
  <2>3. Linked(s)
    BY <1>1, <2>1 DEF Linked, HasCursor
  <2> QED
    BY <1>1, <1>2, <2>1, <2>2, <2>3, ReturnLinked
<1>12. CASE FetchFull
  BY <1>1, <1>2, <1>12, ReturnLinked DEF FetchFull
<1> QED
  BY <1>5, <1>6, <1>7, <1>8, <1>9, <1>10, <1>11, <1>12 DEF Fetch, FetchStep

LEMMA OtherLinked ==
  ASSUME TypeOK, CursorInv, Other
  PROVE  CursorInv'
<1>1. /\ h \in Handles /\ srv \in Executions /\ app \in Applications /\ Linked(h)
      /\ app.prepared => h.statement # "none"
      /\ dm = "needData" => app.prepared
  BY DEF TypeOK, CursorInv, StatementHeld
<1>2. app'.prepared = app.prepared /\ (dm' = "needData" => app.prepared)
  BY <1>1, AskingReturns
  DEF Other, SQLMoreResults, SQLCloseCursor, SQLFreeStmt, SetMaxRows, SetRowArraySize,
      SQLError, Dormant, NewCursor, Applications
<1>3. /\ clearErrors(h) \in Handles /\ Linked(clearErrors(h))
      /\ clearErrors(h).statement = h.statement
  BY <1>1, ClearErrorsType, ClearErrorsLinked
<1>4. ASSUME NEW s, NEW t \in Handles, NEW call, NEW code, Return(call, code, s, 0),
             Linked(t), t.statement = h.statement, s.resultSet = t.resultSet,
             s.metaData = t.metaData, s.statement = t.statement
      PROVE  CursorInv'
  <2>1. Linked(s)
    BY <1>4 DEF Linked, HasCursor
  <2> QED
    BY <1>1, <1>2, <1>4, <2>1, ReturnLinked
<1>5. CASE SQLMoreResults
  <2>1. CASE h.statement = "none"
    BY <1>1, <1>4, <1>5, <2>1 DEF SQLMoreResults
  <2>2. CASE h.statement # "none"
    <3>1. PICK code : Return("SQLMoreResults", code, getResultSet(h, srv), 0)
      BY <1>5, <2>2 DEF SQLMoreResults
    <3> QED
      BY <1>1, <1>2, <2>2, <3>1, GetResultSetLinked, ReturnLinked
  <2> QED
    BY <2>1, <2>2
<1>6. CASE SQLCloseCursor \/ SQLFreeStmt
  <2>1. PICK call : Return(call, "SQL_SUCCESS", releaseResultSet(clearErrors(h)), 0)
    BY <1>6 DEF SQLCloseCursor, SQLFreeStmt
  <2> QED
    BY <1>1, <1>2, <1>3, <2>1, ReleaseResultSetLinked, ReturnLinked
<1>7. ASSUME NEW limit \in Limits, SetMaxRows(limit)
      PROVE  CursorInv'
  <2> DEFINE s == [clearErrors(h) EXCEPT !.maxRowsPerSelect = limit]
  <2>1. /\ s.resultSet = clearErrors(h).resultSet /\ s.metaData = clearErrors(h).metaData
        /\ s.statement = clearErrors(h).statement
    BY <1>3 DEF Handles
  <2>2. Return("SQLSetStmtAttr", "SQL_SUCCESS", s, 0)
    BY <1>7 DEF SetMaxRows
  <2> HIDE DEF s
  <2> QED
    BY <1>3, <1>4, <2>1, <2>2
<1>8. ASSUME NEW size \in ArraySizes, SetRowArraySize(size)
      PROVE  CursorInv'
  <2> DEFINE s == [clearErrors(h) EXCEPT !.rowArraySize = size]
  <2>1. /\ s.resultSet = clearErrors(h).resultSet /\ s.metaData = clearErrors(h).metaData
        /\ s.statement = clearErrors(h).statement
    BY <1>3 DEF Handles
  <2>2. Return("SQLSetStmtAttr", "SQL_SUCCESS", s, 0)
    BY <1>8 DEF SetRowArraySize
  <2> HIDE DEF s
  <2> QED
    BY <1>3, <1>4, <2>1, <2>2
<1>9. CASE Asking
  <2> DEFINE c == clearErrors(h)
             S == {c} \cup {postError(c, d) : d \in Diagnostics}
                    \cup {postError(postError(c, "warning"), "error")}
  <2>1. \A s \in S : Linked(s) /\ s.statement = h.statement
    BY <1>3, PostErrorLinked, PostErrorType DEF Diagnostics
  <2>2. \E call \in Calls, code \in Codes : \E s \in S : Return(call, code, s, 0)
    BY <1>1, <1>9, AskingReturns
  <2> HIDE DEF S
  <2> QED
    BY <1>1, <1>2, <2>1, <2>2, ReturnLinked
<1>10. CASE SQLError
  <2> DEFINE s == [h EXCEPT !.errors = Tail(@)]
  <2>1. s.resultSet = h.resultSet /\ s.metaData = h.metaData /\ s.statement = h.statement
    BY <1>1 DEF Handles
  <2>2. Return("SQLError", "SQL_SUCCESS", s, 0)
    BY <1>10 DEF SQLError
  <2> HIDE DEF s
  <2> QED
    BY <1>1, <1>4, <2>1, <2>2
<1> QED
  BY <1>5, <1>6, <1>7, <1>8, <1>9, <1>10 DEF Other

LEMMA CancelLinked ==
  ASSUME TypeOK, CursorInv, SQLCancel
  PROVE  CursorInv'
<1>1. h \in Handles /\ clearErrors(h) \in Handles /\ Linked(clearErrors(h))
      /\ clearErrors(h).statement = h.statement
  BY ClearErrorsType, ClearErrorsLinked DEF TypeOK, CursorInv
<1>2. /\ h'.resultSet = clearErrors(h).resultSet /\ h'.metaData = clearErrors(h).metaData
      /\ h'.statement = clearErrors(h).statement
  BY <1>1 DEF SQLCancel, Handles
<1>3. app'.prepared = app.prepared /\ pc' = pc /\ (dm' = "needData" => dm = "needData")
  BY DEF SQLCancel, TypeOK, Applications
<1> QED
  BY <1>1, <1>2, <1>3 DEF CursorInv, Linked, HasCursor, StatementHeld

\* No handle ever holds a cursor of a statement that was closed, or the
\* metadata of a cursor that is gone, whatever calls came in whatever order and
\* whichever of them failed.
THEOREM NoDanglingCursorCorrect == Spec => []NoDanglingCursor
<1>1. Init => CursorInv
  BY DEF Init, CursorInv, Linked, HasCursor, NoResultSet, StatementHeld, ExecuteCalls
<1>2. TypeOK /\ CursorInv /\ [Next]_vars => CursorInv'
  <2> SUFFICES ASSUME TypeOK, CursorInv, [Next]_vars PROVE CursorInv'
    OBVIOUS
  <2>1. CASE Next
    BY <2>1, PrepareLinked, ExecuteLinked, ExecuteStepLinked, FetchLinked, OtherLinked,
       CancelLinked
    DEF Next
  <2>2. CASE UNCHANGED vars
    BY <2>2 DEF vars, CursorInv, Linked, HasCursor, StatementHeld
  <2> QED
    BY <2>1, <2>2
<1>3. CursorInv => NoDanglingCursor
  BY DEF CursorInv, Linked, NoDanglingCursor
<1> QED
  BY <1>1, <1>2, <1>3, TypeCorrect, PTL DEF Spec

-----------------------------------------------------------------------------
(***************************************************************************)
(* Rows and the row limit.  The two properties need three facts about the  *)
(* counters: *rowCountPerFetchPtr agrees with rowCountPerFetch as soon as  *)
(* a row is in the rowset, rowCountPerSelect never falls behind the rows   *)
(* the application has of a cursor it counts from the start, and nothing   *)
(* was read of a cursor before the driver manager saw a fetch succeed, so  *)
(* that a new limit cannot come too late.                                  *)
(***************************************************************************)
FetchCounted ==
  pc = "SQLFetch" /\ h.rowCountPerFetch > 0 => app.rowsFetched = h.rowCountPerFetch
SelectCounted ==
  HasCursor(h) /\ app.fresh => app.rows + InRowset <= h.rowCountPerSelect
NothingRead ==
  HasCursor(h) /\ app.fresh /\ dm # "fetched" => app.rows = 0
NotFetched ==
  pc \in ExecuteCalls => dm # "fetched"

RowsInv ==
  /\ NoRowLost
  /\ RowLimitHonoured
  /\ FetchCounted
  /\ SelectCounted
  /\ NothingRead
  /\ NotFetched

\* What the invariant looks at in a handle.
SameRows(s, t) ==
  /\ s.resultSet = t.resultSet
  /\ s.rowCountPerSelect = t.rowCountPerSelect
  /\ s.maxRowsPerSelect = t.maxRowsPerSelect
  /\ s.rowCountPerFetch = t.rowCountPerFetch
  /\ s.rowArraySize = t.rowArraySize

LEMMA ErrorsSameRows ==
  ASSUME NEW s \in Handles, NEW d
  PROVE  SameRows(clearErrors(s), s) /\ SameRows(postError(s, d), s)
  BY DEF clearErrors, postError, SameRows, Handles

LEMMA ReleaseResultSetGone ==
  ASSUME NEW s \in Handles
  PROVE  releaseResultSet(s).resultSet = NoResultSet
  BY DEF releaseResultSet, Handles

LEMMA PrepareStatementGone ==
  ASSUME NEW s \in Handles, NEW kind \in Kinds
  PROVE  prepareStatement(s, kind).resultSet = NoResultSet
<1> DEFINE r == releaseStatement(clearErrors(s))
<1>1. r \in Handles /\ r.resultSet = NoResultSet
  BY ClearErrorsType, ReleaseStatementType, ReleaseStatementLinked
<1>2. prepareStatement(s, kind)
        = [r EXCEPT !.statement = kind,
                    !.metaData = IF kind = "call" THEN "none" ELSE "statement"]
  BY DEF prepareStatement
<1> HIDE DEF r
<1> QED
  BY <1>1, <1>2 DEF Handles

\* A new cursor starts with all of its rows.
LEMMA SetResultSetNew ==
  ASSUME NEW s \in Handles, NEW owner, NEW n
  PROVE  setResultSet(s, NewResultSet(owner, n)).resultSet = NewResultSet(owner, n)
<1>1. releaseResultSet(s) \in Handles
  BY ReleaseResultSetType
<1> QED
  BY <1>1 DEF setResultSet, Handles

LEMMA GetResultSetNew ==
  ASSUME NEW s \in Handles, NEW d
  PROVE  /\ GivesResult(s, d) =>
              getResultSet(s, d).resultSet.size = getResultSet(s, d).resultSet.left
         /\ ~GivesResult(s, d) => getResultSet(s, d).resultSet = s.resultSet
<1>1. startResult(s) \in Handles /\ startResult(s).resultSet = s.resultSet
  BY StartResultType, StartResultLinked
<1> QED
  BY <1>1, SetResultSetNew DEF GivesResult, getResultSet, NewResultSet

\* The invariant holds of a statement without a cursor.
LEMMA RowsGone ==
  ASSUME h'.resultSet = NoResultSet, pc' # "SQLFetch", pc' \in ExecuteCalls => dm' # "fetched"
  PROVE  RowsInv'
  BY DEF RowsInv, NoRowLost, RowLimitHonoured, FetchCounted, SelectCounted, NothingRead,
         NotFetched, HasCursor

\* It holds of a cursor that was just opened.
LEMMA RowsNew ==
  ASSUME h' \in Handles, h'.resultSet.size = h'.resultSet.left, pc' = "idle",
         app'.rows = 0, app'.lost = 0
  PROVE  RowsInv'
<1>1. h'.rowCountPerSelect \in Nat /\ h'.maxRowsPerSelect \in Nat
  BY AttributesAssumption DEF Handles
<1>2. h'.resultSet.size \in Nat
  BY DEF Handles, ResultSets, NoResultSet
<1>3. InRowset' = 0
  BY DEF InRowset
<1>4. h'.resultSet.size - h'.resultSet.left = 0
  BY <1>2
<1> QED
  BY <1>1, <1>3, <1>4
  DEF RowsInv, NoRowLost, RowLimitHonoured, FetchCounted, SelectCounted, NothingRead,
      NotFetched, ExecuteCalls

\* It is kept by a step that leaves the cursor and the counters alone, or
\* after which the application counts no more.
LEMMA RowsKept ==
  ASSUME RowsInv, h'.resultSet = h.resultSet, app'.rows = app.rows, app'.lost = app.lost,
         InRowset' = InRowset,
         pc' = "SQLFetch" => /\ pc = "SQLFetch"
                             /\ h'.rowCountPerFetch = h.rowCountPerFetch
                             /\ app'.rowsFetched = app.rowsFetched,
         pc' \in ExecuteCalls => dm' # "fetched",
         \/ ~app'.fresh
         \/ /\ app.fresh
            /\ h'.rowCountPerSelect = h.rowCountPerSelect
            /\ h'.maxRowsPerSelect = h.maxRowsPerSelect
            /\ dm' # "fetched" => dm # "fetched"
  PROVE  RowsInv'
<1>1. NoRowLost'
  BY DEF RowsInv, NoRowLost, HasCursor
<1>2. RowLimitHonoured' /\ SelectCounted' /\ NothingRead'
  BY DEF RowsInv, RowLimitHonoured, SelectCounted, NothingRead, HasCursor
<1>3. FetchCounted' /\ NotFetched'
  BY DEF RowsInv, FetchCounted, NotFetched
<1> QED
  BY <1>1, <1>2, <1>3 DEF RowsInv

\* A call that came while no fetch was on and returns with the same rows.
LEMMA ReturnRows ==
  ASSUME RowsInv, pc # "SQLFetch", NEW s, NEW call, NEW code, Return(call, code, s, 0),
         SameRows(s, h), app' = app, dm' # "fetched" => dm # "fetched" 
  PROVE  RowsInv'
<1>1. InRowset' = 0 /\ InRowset = 0
  BY DEF InRowset, Return
<1> QED
  BY <1>1, RowsKept DEF Return, SameRows, ExecuteCalls

LEMMA PrepareRows ==
  ASSUME TypeOK, RowsInv, Prepare
  PROVE  RowsInv'
<1>1. h \in Handles
  BY DEF TypeOK
<1>2. ASSUME NEW kind \in Kinds, SQLPrepare(kind)
      PROVE  RowsInv'
  BY <1>1, <1>2, PrepareStatementGone, RowsGone DEF SQLPrepare, Return, ExecuteCalls
<1>3. ASSUME NEW call \in {"SQLPrepare", "SQLExecDirect", "SQLCatalog"}, PrepareFails(call)
      PROVE  RowsInv'
  <2> DEFINE r == releaseStatement(clearErrors(h))
  <2>1. r \in Handles /\ r.resultSet = NoResultSet
    BY <1>1, ClearErrorsType, ReleaseStatementType, ReleaseStatementLinked
  <2>2. postError(r, "error").resultSet = NoResultSet
    BY <2>1, ErrorsSameRows DEF SameRows
  <2> HIDE DEF r
  <2>3. h' = postError(r, "error") /\ pc' = "idle"
    BY <1>3 DEF PrepareFails, Return, r
  <2> QED
    BY <2>2, <2>3, RowsGone DEF ExecuteCalls
<1> QED
  BY <1>2, <1>3 DEF Prepare

LEMMA ExecuteRows ==
  ASSUME TypeOK, TypeOK', RowsInv, Execute
  PROVE  RowsInv'
<1>1. h \in Handles /\ h' \in Handles /\ app \in Applications
  BY DEF TypeOK
<1>2. pc = "idle"
  BY DEF Execute, SQLExecute, SQLExecuteNeedsData, SQLExecuteBadParameter, SQLExecDirect,
         SQLExecDirectDropsResult, SQLParamData, SQLCatalog, MayExecute, Idle
<1>3. SameRows(clearErrors(h), h) /\ clearErrors(h) \in Handles
  BY <1>1, ErrorsSameRows, ClearErrorsType
<1>4. ASSUME pc' \in ExecuteCalls, h' = clearErrors(h), app' = app, dm' = dm, dm # "fetched"
      PROVE  RowsInv'
  <2>1. InRowset' = 0 /\ InRowset = 0 /\ pc' # "SQLFetch"
    BY <1>2, <1>4 DEF InRowset, ExecuteCalls
  <2> QED
    BY <1>3, <1>4, <2>1, RowsKept DEF SameRows
<1>5. CASE SQLExecute
  BY <1>4, <1>5 DEF Begin, SQLExecute, MayExecute, ExecuteCalls
<1>6. CASE SQLExecuteNeedsData
  BY <1>2, <1>3, <1>6, ReturnRows DEF SQLExecuteNeedsData, MayExecute
<1>7. CASE SQLExecuteBadParameter
  <2>1. SameRows(postError(clearErrors(h), "error"), h)
    BY <1>3, ErrorsSameRows DEF SameRows
  <2> QED
    BY <1>2, <1>7, <2>1, ReturnRows DEF SQLExecuteBadParameter, MayExecute
<1>8. ASSUME NEW kind \in Kinds, SQLExecDirect(kind)
      PROVE  RowsInv'
  BY <1>1, <1>8, PrepareStatementGone, RowsGone DEF Begin, SQLExecDirect, MayExecute
<1>9. ASSUME NEW kind \in Kinds, SQLExecDirectDropsResult(kind)
      PROVE  RowsInv'
  <2> DEFINE t == prepareStatement(h, kind)
  <2>1. t \in Handles /\ t.resultSet = NoResultSet
    BY <1>1, PrepareStatementType, PrepareStatementGone
  <2>2. postError(t, "error").resultSet = NoResultSet
    BY <2>1, ErrorsSameRows DEF SameRows
  <2>3. h' \in {t, postError(t, "error")} /\ pc' = "idle"
    BY <1>9 DEF SQLExecDirectDropsResult, Return
  <2> QED
    BY <2>1, <2>2, <2>3, RowsGone DEF ExecuteCalls
<1>10. CASE SQLParamData
  BY <1>4, <1>10 DEF Begin, SQLParamData, ExecuteCalls
<1>11. ASSUME NEW n \in CatalogSizes, SQLCatalog(n)
       PROVE  RowsInv'
  <2>1. releaseStatement(clearErrors(h)) \in Handles
    BY <1>3, ReleaseStatementType
  <2>2. h'.resultSet = NewResultSet("catalog", n) /\ pc' = "idle"
    BY <1>11, <2>1, SetResultSetNew DEF SQLCatalog, Return
  <2>3. app'.rows = 0 /\ app'.lost = 0
    BY <1>1, <1>11 DEF SQLCatalog, NewCursor, Applications
  <2>4. h'.resultSet.size = h'.resultSet.left
    BY <2>2 DEF NewResultSet
  <2> QED
    BY <1>1, <2>2, <2>3, <2>4, RowsNew
<1> QED
  BY <1>5, <1>6, <1>7, <1>8, <1>9, <1>10, <1>11 DEF Execute

LEMMA ExecuteStepRows ==
  ASSUME TypeOK, TypeOK', RowsInv, ExecuteStep
  PROVE  RowsInv'
<1>1. h \in Handles /\ h' \in Handles /\ app \in Applications
  BY DEF TypeOK
<1>2. pc # "SQLFetch" /\ dm # "fetched"
  BY DEF ExecuteStep, ExecuteReturns, ExecuteThrows, ExecuteCalls, RowsInv, NotFetched
<1>3. ASSUME NEW answer \in Answers(h.statement), NEW cut \in BOOLEAN,
             ExecuteReturns(answer, cut)
      PROVE  RowsInv'
  <2> DEFINE s == outputParameters(h, cut)
             d == [results |-> answer.results, keys |-> answer.keys,
                   keysGiven |-> FALSE, executed |-> TRUE]
  <2>1. s \in Handles /\ SameRows(s, h)
    BY <1>1, PostErrorType, ErrorsSameRows DEF outputParameters, Diagnostics, SameRows
  <2>2. pc' = "idle"
    BY <1>3 DEF ExecuteReturns, Return
  <2>3. CASE answer.results # << >>
    <3>1. GivesResult(s, d)
      BY <2>3 DEF GivesResult
    <3>2. h' = getResultSet(s, d)
      BY <1>3, <2>3 DEF ExecuteReturns, Return
    <3>3. app' = [NewCursor(app) EXCEPT !.cancelled = FALSE]
      BY <1>3, <2>3 DEF ExecuteReturns
    <3>4. app'.rows = 0 /\ app'.lost = 0
      BY <1>1, <3>3 DEF NewCursor, Applications
    <3> QED
      BY <1>1, <2>1, <2>2, <3>1, <3>2, <3>4, GetResultSetNew, RowsNew
  <2>4. CASE answer.results = << >>
    <3>1. h' = s
      BY <1>3, <2>4 DEF ExecuteReturns, Return
    <3>2. app' = [app EXCEPT !.fresh = FALSE]
      BY <1>3, <2>4 DEF ExecuteReturns
    <3>3. app'.rows = app.rows /\ app'.lost = app.lost /\ ~app'.fresh
      BY <1>1, <3>2 DEF Applications
    <3>4. InRowset' = 0 /\ InRowset = 0
      BY <1>2, <2>2 DEF InRowset
    <3>5. h'.resultSet = h.resultSet
      BY <2>1, <3>1 DEF SameRows
    <3> QED
      BY <2>2, <3>3, <3>4, <3>5, RowsKept DEF ExecuteCalls
  <2> QED
    BY <2>3, <2>4
<1>4. CASE ExecuteThrows
  BY <1>1, <1>2, <1>4, ErrorsSameRows, ReturnRows DEF ExecuteThrows
<1> QED
  BY <1>3, <1>4 DEF ExecuteStep

LEMMA FetchRows ==
  ASSUME TypeOK, RowsInv, Fetch
  PROVE  RowsInv'
<1>1. h \in Handles
  BY DEF TypeOK
<1>2. CASE SQLFetchNoCursor
  <2>1. SameRows(postError(h, "error"), h) /\ h.resultSet = NoResultSet
    BY <1>1, <1>2, ErrorsSameRows DEF SQLFetchNoCursor, HasCursor
  <2>2. h' \in {h, postError(h, "error")} /\ pc' = "idle"
    BY <1>2 DEF SQLFetchNoCursor, Return
  <2> QED
    BY <2>1, <2>2, RowsGone DEF SameRows, ExecuteCalls
<1>3. CASE SQLFetchCanceled
  <2>1. releaseResultSet(h) \in Handles /\ releaseResultSet(h).resultSet = NoResultSet
    BY <1>1, ReleaseResultSetType, ReleaseResultSetGone
  <2>2. postError(releaseResultSet(h), "canceled").resultSet = NoResultSet
    BY <2>1, ErrorsSameRows DEF SameRows
  <2>3. h' = postError(releaseResultSet(h), "canceled") /\ pc' = "idle"
    BY <1>3 DEF SQLFetchCanceled, Return
  <2> QED
    BY <2>2, <2>3, RowsGone DEF ExecuteCalls
<1>4. CASE SQLFetch
  <2>1. /\ h'.rowCountPerFetch = 0 /\ h'.resultSet = h.resultSet
        /\ h'.rowCountPerSelect = h.rowCountPerSelect
        /\ h'.maxRowsPerSelect = h.maxRowsPerSelect
        /\ app' = app /\ dm' = dm /\ pc' = "SQLFetch"
    BY <1>1, <1>4 DEF Begin, SQLFetch, Handles
  <2>2. InRowset' = 0 /\ InRowset = 0
    BY <1>4, <2>1 DEF InRowset, SQLFetch, MayRead, Idle
  <2>3. NoRowLost' /\ RowLimitHonoured'
    BY <2>1, <2>2 DEF RowsInv, NoRowLost, RowLimitHonoured, HasCursor
  <2>4. FetchCounted' /\ SelectCounted' /\ NothingRead' /\ NotFetched'
    BY <2>1, <2>2
    DEF RowsInv, FetchCounted, SelectCounted, NothingRead, NotFetched, HasCursor, ExecuteCalls
  <2> QED
    BY <2>3, <2>4 DEF RowsInv
<1> QED
  BY <1>2, <1>3, <1>4 DEF Fetch

\* next() takes one row of a cursor and touches no counter.
LEMMA ConsumeRows ==
  ASSUME NEW s \in Handles, s.resultSet.left # 0
  PROVE  /\ consume(s).resultSet.left = s.resultSet.left - 1
         /\ consume(s).resultSet.size = s.resultSet.size
         /\ HasCursor(s)
         /\ consume(s).rowCountPerSelect = s.rowCountPerSelect
         /\ consume(s).maxRowsPerSelect = s.maxRowsPerSelect
         /\ consume(s).rowCountPerFetch = s.rowCountPerFetch
<1>1. s.resultSet \in ResultSets
  BY DEF Handles, NoResultSet
<1> DEFINE rs == [s.resultSet EXCEPT !.left = s.resultSet.left - 1]
<1>2. rs.left = s.resultSet.left - 1 /\ rs.size = s.resultSet.size
  BY <1>1 DEF ResultSets
<1>3. consume(s) = [s EXCEPT !.resultSet = rs]
  BY DEF consume, Handles
<1>4. HasCursor(s)
  BY <1>1 DEF ResultSets, NoResultSet, HasCursor
<1> HIDE DEF rs
<1> QED
  BY <1>2, <1>3, <1>4 DEF Handles

LEMMA FetchStepRows ==
  ASSUME TypeOK, TypeOK', RowsInv, FetchStep
  PROVE  RowsInv'
<1>1. h \in Handles /\ h' \in Handles /\ app \in Applications
  BY DEF TypeOK
<1>2. /\ h.rowCountPerFetch \in Nat /\ h.rowCountPerSelect \in Nat
      /\ h.maxRowsPerSelect \in Nat /\ h.rowArraySize \in Nat \ {0}
      /\ h.resultSet.size \in Nat /\ h.resultSet.left \in Nat
      /\ app.rows \in Nat /\ app.lost \in Nat
  <2>1. /\ h.rowCountPerFetch \in Nat /\ h.rowCountPerSelect \in Nat
        /\ h.maxRowsPerSelect \in Limits /\ h.rowArraySize \in ArraySizes
        /\ h.resultSet \in ResultSets \cup {NoResultSet}
    BY <1>1 DEF Handles
  <2>2. h.resultSet.size \in Nat /\ h.resultSet.left \in Nat
    BY <2>1 DEF ResultSets, NoResultSet
  <2>3. app.rows \in Nat /\ app.lost \in Nat
    BY <1>1 DEF Applications
  <2> QED
    BY <2>1, <2>2, <2>3, AttributesAssumption
<1>3. pc = "SQLFetch"
  BY DEF FetchStep, FetchRow, FetchRowFails, FetchThrows, FetchEnds, FetchFull, WantsRow
<1>4. InRowset = h.rowCountPerFetch
  BY <1>3 DEF InRowset
<1>5. ASSUME NEW cut \in BOOLEAN, FetchRow(cut)
      PROVE  RowsInv'
  <2> DEFINE s == IF cut THEN postError(consume(h), "warning") ELSE consume(h)
  <2>1. /\ h' = countRow(s) /\ pc' = pc /\ dm' = dm
        /\ app' = [app EXCEPT !.rowsFetched = h.rowCountPerFetch + 1]
        /\ h.resultSet.left # 0 /\ ~LimitReached(h)
    BY <1>5 DEF FetchRow, AtEnd
  <2>2. consume(h) \in Handles /\ s \in Handles /\ SameRows(s, consume(h))
    <3>1. consume(h) \in Handles
      BY <1>1, <2>1, ConsumeType
    <3> QED
      BY <3>1, PostErrorType, ErrorsSameRows DEF Diagnostics, SameRows
  <2>3. /\ s.resultSet.left = h.resultSet.left - 1
        /\ s.resultSet.size = h.resultSet.size
        /\ s.rowCountPerSelect = h.rowCountPerSelect
        /\ s.maxRowsPerSelect = h.maxRowsPerSelect
        /\ s.rowCountPerFetch = h.rowCountPerFetch
        /\ HasCursor(h)
    BY <1>1, <2>1, <2>2, ConsumeRows DEF SameRows
  <2> HIDE DEF s
  <2>4. /\ h'.resultSet = s.resultSet
        /\ h'.rowCountPerSelect = s.rowCountPerSelect + 1
        /\ h'.maxRowsPerSelect = s.maxRowsPerSelect
        /\ h'.rowCountPerFetch = s.rowCountPerFetch + 1
    BY <2>1, <2>2 DEF countRow, Handles
  <2>5. /\ app'.rows = app.rows /\ app'.lost = app.lost /\ app'.fresh = app.fresh
        /\ app'.rowsFetched = h.rowCountPerFetch + 1
    BY <1>1, <2>1 DEF Applications
  <2>6. InRowset' = h.rowCountPerFetch + 1
    BY <1>3, <2>1, <2>3, <2>4 DEF InRowset
  <2>7. h.resultSet.size - h.resultSet.left = app.rows + app.lost + h.rowCountPerFetch
    BY <1>4, <2>3 DEF RowsInv, NoRowLost
  <2>8. NoRowLost'
    BY <1>2, <2>3, <2>4, <2>5, <2>6, <2>7 DEF NoRowLost
  <2>9. app.fresh => app.rows + h.rowCountPerFetch <= h.rowCountPerSelect
    BY <1>4, <2>3 DEF RowsInv, SelectCounted
  <2>10. SelectCounted'
    BY <1>2, <2>3, <2>4, <2>5, <2>6, <2>9 DEF SelectCounted
  <2>11. h.maxRowsPerSelect > 0 => h.rowCountPerSelect < h.maxRowsPerSelect
    BY <1>2, <2>1 DEF LimitReached
  <2>12. RowLimitHonoured'
    BY <1>2, <2>3, <2>4, <2>5, <2>6, <2>9, <2>11 DEF RowLimitHonoured
  <2>13. FetchCounted'
    BY <2>3, <2>4, <2>5 DEF FetchCounted
  <2>14. NothingRead'
    BY <2>1, <2>3, <2>5 DEF RowsInv, NothingRead
  <2>15. NotFetched'
    BY <1>3, <2>1 DEF NotFetched, ExecuteCalls
  <2> QED
    BY <2>8, <2>10, <2>12, <2>13, <2>14, <2>15 DEF RowsInv
<1>6. ASSUME pc' = "idle", h'.resultSet.size = h.resultSet.size,
             HasCursor(h') => HasCursor(h),
             HasCursor(h) => h'.resultSet.size - h'.resultSet.left = app'.rows + app'.lost,
             h'.rowCountPerSelect = h.rowCountPerSelect,
             h'.maxRowsPerSelect = h.maxRowsPerSelect, app'.fresh = app.fresh,
             app'.rows = app.rows \/ (app'.rows = app.rows + h.rowCountPerFetch /\ dm' = "fetched"),
             dm' = dm \/ dm' = "fetched"
      PROVE  RowsInv'
  <2>1. InRowset' = 0
    BY <1>6 DEF InRowset
  <2>2. app'.rows \in Nat /\ app'.lost \in Nat
    BY <1>2 DEF TypeOK, Applications
  <2>3. app'.rows <= app.rows + InRowset
    BY <1>2, <1>4, <1>6
  <2>4. NoRowLost'
    BY <1>6, <2>1, <2>2 DEF NoRowLost
  <2>5. SelectCounted'
    <3>1. HasCursor(h) /\ app.fresh => app.rows + InRowset <= h.rowCountPerSelect
      BY DEF RowsInv, SelectCounted
    <3> QED
      BY <1>2, <1>4, <1>6, <2>1, <2>2, <2>3, <3>1 DEF SelectCounted
  <2>6. RowLimitHonoured'
    <3>1. HasCursor(h) /\ app.fresh /\ h.maxRowsPerSelect > 0
            => app.rows + InRowset <= h.maxRowsPerSelect
      BY DEF RowsInv, RowLimitHonoured
    <3> QED
      BY <1>2, <1>4, <1>6, <2>1, <2>2, <2>3, <3>1 DEF RowLimitHonoured
  <2>7. NothingRead'
    BY <1>6 DEF RowsInv, NothingRead
  <2>8. FetchCounted' /\ NotFetched'
    BY <1>6 DEF FetchCounted, NotFetched, ExecuteCalls
  <2> QED
    BY <2>4, <2>5, <2>6, <2>7, <2>8 DEF RowsInv
<1>7. HasCursor(h) =>
        h.resultSet.size - h.resultSet.left = app.rows + app.lost + h.rowCountPerFetch
  BY <1>4 DEF RowsInv, NoRowLost
<1>8. \A n \in Nat : /\ lose(app, n).rows = app.rows
                     /\ lose(app, n).lost = app.lost + n
                     /\ lose(app, n).fresh = app.fresh
  BY <1>1 DEF lose, Applications
<1>9. h.rowCountPerFetch > 0 => /\ take(app).rows = app.rows + h.rowCountPerFetch
                                /\ take(app).lost = app.lost
                                /\ take(app).fresh = app.fresh
  BY <1>1, <1>3 DEF RowsInv, FetchCounted, take, Applications
<1>10. CASE FetchRowFails
  <2>1. /\ h' = postError(consume(h), "error") /\ pc' = "idle" /\ dm' = dm
        /\ app' = lose(app, h.rowCountPerFetch + 1) /\ h.resultSet.left # 0
    BY <1>10 DEF FetchRowFails, Return, AtEnd
  <2>2. consume(h) \in Handles /\ SameRows(h', consume(h))
    BY <1>1, <2>1, ConsumeType, ErrorsSameRows
  <2>3. /\ h'.resultSet.left = h.resultSet.left - 1
        /\ h'.resultSet.size = h.resultSet.size
        /\ h'.rowCountPerSelect = h.rowCountPerSelect
        /\ h'.maxRowsPerSelect = h.maxRowsPerSelect
        /\ HasCursor(h)
    BY <1>1, <2>1, <2>2, ConsumeRows DEF SameRows
  <2>4. /\ app'.rows = app.rows /\ app'.lost = app.lost + (h.rowCountPerFetch + 1)
        /\ app'.fresh = app.fresh
    BY <1>2, <1>8, <2>1
  <2>5. h'.resultSet.size - h'.resultSet.left = app'.rows + app'.lost
    BY <1>2, <1>7, <2>3, <2>4
  <2> QED
    BY <1>6, <2>1, <2>3, <2>4, <2>5
<1>11. CASE FetchThrows
  <2>1. /\ h' = postError(h, "error") /\ pc' = "idle" /\ dm' = dm
        /\ app' = lose(app, h.rowCountPerFetch)
    BY <1>11 DEF FetchThrows, Return
  <2>2. SameRows(h', h)
    BY <1>1, <2>1, ErrorsSameRows
  <2>3. /\ app'.rows = app.rows /\ app'.lost = app.lost + h.rowCountPerFetch
        /\ app'.fresh = app.fresh
    BY <1>2, <1>8, <2>1
  <2>4. HasCursor(h) => h'.resultSet.size - h'.resultSet.left = app'.rows + app'.lost
    BY <1>2, <1>7, <2>2, <2>3 DEF SameRows
  <2> QED
    BY <1>6, <2>1, <2>2, <2>3, <2>4 DEF SameRows, HasCursor
<1>12. CASE FetchEnds
  <2>1. /\ h' = [h EXCEPT !.eof = TRUE] /\ pc' = "idle" /\ dm' = "fetched"
        /\ app' = IF h.rowCountPerFetch > 0 THEN take(app) ELSE app
    BY <1>12 DEF FetchEnds, Return
  <2>2. SameRows(h', h)
    BY <1>1, <2>1 DEF Handles, SameRows
  <2>3. /\ app'.rows = app.rows + h.rowCountPerFetch /\ app'.lost = app.lost
        /\ app'.fresh = app.fresh
    BY <1>2, <1>9, <2>1
  <2>4. HasCursor(h) => h'.resultSet.size - h'.resultSet.left = app'.rows + app'.lost
    BY <1>2, <1>7, <2>2, <2>3 DEF SameRows
  <2> QED
    BY <1>6, <2>1, <2>2, <2>3, <2>4 DEF SameRows, HasCursor
<1>13. CASE FetchFull
  <2>1. /\ h' = h /\ pc' = "idle" /\ dm' = "fetched" /\ app' = take(app)
        /\ h.rowCountPerFetch > 0
    BY <1>2, <1>13 DEF FetchFull, Return
  <2>2. /\ app'.rows = app.rows + h.rowCountPerFetch /\ app'.lost = app.lost
        /\ app'.fresh = app.fresh
    BY <1>9, <2>1
  <2>3. HasCursor(h) => h'.resultSet.size - h'.resultSet.left = app'.rows + app'.lost
    BY <1>2, <1>7, <2>1, <2>2
  <2> QED
    BY <1>6, <2>1, <2>2, <2>3
<1> QED
  BY <1>5, <1>10, <1>11, <1>12, <1>13 DEF FetchStep

LEMMA OtherRows ==
  ASSUME TypeOK, TypeOK', RowsInv, Other
  PROVE  RowsInv'
<1>1. h \in Handles /\ h' \in Handles /\ app \in Applications /\ clearErrors(h) \in Handles
  BY ClearErrorsType DEF TypeOK
<1>2. pc = "idle" /\ pc' = "idle"
  <2>1. CASE Asking
    BY <1>1, <2>1, AskingReturns
    DEF Asking, SQLDescribeCol, SQLColAttribute, SQLColAttributes, ColumnField,
        SQLNumResultCols, SQLGetStmtAttr, SetOtherAttribute, MayDescribe, Idle, Return
  <2> QED
    BY <2>1 DEF Other, SQLMoreResults, SQLCloseCursor, SQLFreeStmt, SetMaxRows,
                SetRowArraySize, SQLError, MayRead, Idle, Return
<1>3. InRowset = 0 /\ InRowset' = 0
  BY <1>2 DEF InRowset
<1>4. SameRows(clearErrors(h), h)
  BY <1>1, ErrorsSameRows
<1>5. ASSUME app' = app, dm' = dm, h'.resultSet = h.resultSet,
             h'.rowCountPerSelect = h.rowCountPerSelect,
             h'.maxRowsPerSelect = h.maxRowsPerSelect
      PROVE  RowsInv'
  BY <1>2, <1>3, <1>5, RowsKept DEF ExecuteCalls
<1>6. CASE SQLMoreResults
  <2>1. CASE h.statement # "none" /\ GivesResult(h, srv)
    <3>1. h' = getResultSet(h, srv) /\ app' = [NewCursor(app) EXCEPT !.cancelled = FALSE]
      BY <1>6, <2>1 DEF SQLMoreResults, Return
    <3>2. app'.rows = 0 /\ app'.lost = 0
      BY <1>1, <3>1 DEF NewCursor, Applications
    <3>3. h'.resultSet.size = h'.resultSet.left
      BY <1>1, <2>1, <3>1, GetResultSetNew
    <3> QED
      BY <1>1, <1>2, <3>2, <3>3, RowsNew
  <2>2. CASE ~(h.statement # "none" /\ GivesResult(h, srv))
    <3>1. h'.resultSet = h.resultSet
      BY <1>1, <1>6, <2>2, GetResultSetNew DEF SQLMoreResults, Return
    <3>2. app' = [app EXCEPT !.fresh = FALSE]
      BY <1>6, <2>2 DEF SQLMoreResults
    <3>3. app'.rows = app.rows /\ app'.lost = app.lost /\ ~app'.fresh
      BY <1>1, <3>2 DEF Applications
    <3> QED
      BY <1>2, <1>3, <3>1, <3>3, RowsKept DEF ExecuteCalls
  <2> QED
    BY <2>1, <2>2
<1>7. CASE SQLCloseCursor \/ SQLFreeStmt
  <2>1. h' = releaseResultSet(clearErrors(h))
    BY <1>7 DEF SQLCloseCursor, SQLFreeStmt, Return
  <2> QED
    BY <1>1, <1>2, <2>1, ReleaseResultSetGone, RowsGone DEF ExecuteCalls
<1>8. ASSUME NEW limit \in Limits, SetMaxRows(limit)
      PROVE  RowsInv'
  <2>1. /\ h'.resultSet = h.resultSet /\ h'.rowCountPerSelect = h.rowCountPerSelect
        /\ h'.maxRowsPerSelect = limit /\ app' = app /\ dm' = dm /\ dm # "fetched"
    <3>1. h' = [clearErrors(h) EXCEPT !.maxRowsPerSelect = limit]
      BY <1>8 DEF SetMaxRows, Return
    <3> QED
      BY <1>1, <1>4, <1>8, <3>1 DEF SetMaxRows, SameRows, Handles
  <2>2. HasCursor(h) /\ app.fresh => app.rows = 0
    BY <2>1 DEF RowsInv, NothingRead
  <2>3. RowLimitHonoured'
    BY <1>3, <2>1, <2>2, AttributesAssumption DEF RowLimitHonoured, HasCursor
  <2>4. NoRowLost' /\ SelectCounted' /\ NothingRead'
    BY <1>3, <2>1 DEF RowsInv, NoRowLost, SelectCounted, NothingRead, HasCursor
  <2>5. FetchCounted' /\ NotFetched'
    BY <1>2 DEF FetchCounted, NotFetched, ExecuteCalls
  <2> QED
    BY <2>3, <2>4, <2>5 DEF RowsInv
<1>9. ASSUME NEW size \in ArraySizes, SetRowArraySize(size)
      PROVE  RowsInv'
  <2>1. h' = [clearErrors(h) EXCEPT !.rowArraySize = size] /\ app' = app /\ dm' = dm
    BY <1>9 DEF SetRowArraySize, Return
  <2>2. /\ h'.resultSet = h.resultSet /\ h'.rowCountPerSelect = h.rowCountPerSelect
        /\ h'.maxRowsPerSelect = h.maxRowsPerSelect
    BY <1>1, <1>4, <2>1 DEF SameRows, Handles
  <2> QED
    BY <1>5, <2>1, <2>2
<1>10. CASE Asking
  <2> DEFINE c == clearErrors(h)
             S == {c} \cup {postError(c, d) : d \in Diagnostics}
                    \cup {postError(postError(c, "warning"), "error")}
  <2>1. \A s \in S : SameRows(s, h)
    BY <1>1, <1>4, ErrorsSameRows, PostErrorType DEF SameRows, Diagnostics
  <2>2. h' \in S /\ UNCHANGED <<srv, dm, app>>
    BY <1>1, <1>10, AskingReturns DEF Return
  <2> HIDE DEF S
  <2>3. SameRows(h', h)
    BY <2>1, <2>2
  <2> QED
    BY <1>5, <2>2, <2>3 DEF SameRows
<1>11. CASE SQLError
  <2>1. h' = [h EXCEPT !.errors = Tail(@)] /\ app' = app /\ dm' = dm
    BY <1>11 DEF SQLError, Return
  <2>2. /\ h'.resultSet = h.resultSet /\ h'.rowCountPerSelect = h.rowCountPerSelect
        /\ h'.maxRowsPerSelect = h.maxRowsPerSelect
    BY <1>1, <2>1 DEF Handles
  <2> QED
    BY <1>5, <2>1, <2>2
<1> QED
  BY <1>6, <1>7, <1>8, <1>9, <1>10, <1>11 DEF Other

LEMMA CancelRows ==
  ASSUME TypeOK, RowsInv, SQLCancel
  PROVE  RowsInv'
<1>1. h \in Handles /\ clearErrors(h) \in Handles /\ SameRows(clearErrors(h), h)
  BY ClearErrorsType, ErrorsSameRows DEF TypeOK
<1>2. SameRows(h', clearErrors(h)) /\ pc' = pc
  BY <1>1 DEF SQLCancel, SameRows, Handles
<1>3. /\ app'.rows = app.rows /\ app'.lost = app.lost /\ app'.fresh = app.fresh
      /\ app'.rowsFetched = app.rowsFetched
  BY DEF SQLCancel, TypeOK, Applications
<1>4. InRowset' = InRowset
  BY <1>1, <1>2 DEF InRowset, SameRows
<1>5. (dm' = "fetched") = (dm = "fetched")
  BY DEF SQLCancel
<1>6. pc' \in ExecuteCalls => dm' # "fetched"
  BY <1>2, <1>5 DEF RowsInv, NotFetched
<1> QED
  BY <1>1, <1>2, <1>3, <1>4, <1>5, <1>6, RowsKept DEF SameRows

LEMMA RowsCorrect == Spec => []RowsInv
<1>1. Init => RowsInv
  BY DEF Init, RowsInv, NoRowLost, RowLimitHonoured, FetchCounted, SelectCounted,
         NothingRead, NotFetched, HasCursor, ExecuteCalls
<1>2. TypeOK /\ TypeOK' /\ RowsInv /\ [Next]_vars => RowsInv'
  <2> SUFFICES ASSUME TypeOK, TypeOK', RowsInv, [Next]_vars PROVE RowsInv'
    OBVIOUS
  <2>1. CASE Next
    BY <2>1, PrepareRows, ExecuteRows, ExecuteStepRows, FetchRows, FetchStepRows,
       OtherRows, CancelRows
    DEF Next
  <2>2. CASE UNCHANGED vars
    BY <2>2
    DEF vars, RowsInv, NoRowLost, RowLimitHonoured, FetchCounted, SelectCounted,
        NothingRead, NotFetched, HasCursor, InRowset
  <2> QED
    BY <2>1, <2>2
<1> QED
  BY <1>1, <1>2, TypeCorrect, PTL DEF Spec

\* sqlFetch loses no row in silence, for any size of result, rowset and limit:
\* what next() gave up is with the application, is known to it as lost to an
\* error, or is in the rowset being fetched.
THEOREM NoRowLostCorrect == Spec => []NoRowLost
<1>1. RowsInv => NoRowLost
  BY DEF RowsInv
<1> QED
  BY <1>1, RowsCorrect, PTL

\* The application never gets more rows of a cursor than SQL_ATTR_MAX_ROWS.
THEOREM RowLimitHonouredCorrect == Spec => []RowLimitHonoured
<1>1. RowsInv => RowLimitHonoured
  BY DEF RowsInv
<1> QED
  BY <1>1, RowsCorrect, PTL

-----------------------------------------------------------------------------
(***************************************************************************)
(* Errors and their records.                                               *)
(***************************************************************************)
LEMMA PostErrorRecords ==
  ASSUME NEW s \in Handles, NEW d \in Diagnostics
  PROVE  postError(s, d).errors # << >>
<1>1. s.errors \in Seq(Diagnostics) /\ postError(s, d).errors = Append(s.errors, d)
  BY DEF Handles, postError
<1>2. Len(Append(s.errors, d)) = Len(s.errors) + 1 /\ Len(s.errors) \in Nat
  BY <1>1
<1>3. Len(<< >>) = 0
  OBVIOUS
<1> QED
  BY <1>1, <1>2, <1>3

\* No call returns SQL_ERROR but with a record it has just posted.
LEMMA ErrorsRecorded ==
  ASSUME TypeOK, Next
  PROVE  ret' = ret \/ ErrorHasDiagnostic'
<1>1. h \in Handles /\ clearErrors(h) \in Handles /\ {"error", "noMetaData", "canceled"} \subseteq Diagnostics
  BY ClearErrorsType DEF TypeOK, Diagnostics
<1>2. ASSUME NEW call, NEW code, NEW s, NEW n, Return(call, code, s, n), code # "SQL_ERROR"
      PROVE  ErrorHasDiagnostic'
  BY <1>2 DEF Return, ErrorHasDiagnostic
<1>3. ASSUME NEW call, NEW s \in Handles, NEW d \in Diagnostics, NEW n,
             Return(call, "SQL_ERROR", postError(s, d), n)
      PROVE  ErrorHasDiagnostic'
  BY <1>3, PostErrorRecords DEF Return, ErrorHasDiagnostic
<1>4. ASSUME ret' = NoOutcome PROVE ErrorHasDiagnostic'
  BY <1>4 DEF NoOutcome, ErrorHasDiagnostic
<1>5. \A s : sqlSuccess(s) # "SQL_ERROR"
  BY DEF sqlSuccess
<1>6. CASE Prepare
  <2>1. releaseStatement(clearErrors(h)) \in Handles
    BY <1>1, ReleaseStatementType
  <2> QED
    BY <1>1, <1>2, <1>3, <1>6, <2>1 DEF Prepare, SQLPrepare, PrepareFails
<1>7. CASE Execute
  BY <1>1, <1>2, <1>3, <1>4, <1>7
  DEF Execute, SQLExecute, SQLExecuteNeedsData, SQLExecuteBadParameter, SQLExecDirect,
      SQLExecDirectDropsResult, SQLParamData, SQLCatalog, Begin
<1>8. CASE ExecuteStep
  <2>1. ASSUME NEW answer \in Answers(h.statement), NEW cut \in BOOLEAN,
               ExecuteReturns(answer, cut)
        PROVE  ErrorHasDiagnostic'
    BY <1>2, <1>5, <2>1 DEF ExecuteReturns
  <2> QED
    BY <1>1, <1>3, <1>8, <2>1 DEF ExecuteStep, ExecuteThrows
<1>9. CASE Fetch
  <2>1. releaseResultSet(h) \in Handles
    BY <1>1, ReleaseResultSetType
  <2> QED
    BY <1>1, <1>2, <1>3, <1>4, <1>9, <2>1
    DEF Fetch, SQLFetchNoCursor, SQLFetchCanceled, SQLFetch, Begin
<1>10. CASE FetchStep
  <2>1. CASE FetchRowFails
    BY <1>1, <1>3, <2>1, ConsumeType DEF FetchRowFails, AtEnd
  <2> QED
    BY <1>1, <1>2, <1>3, <1>5, <1>10, <2>1
    DEF FetchStep, FetchRow, FetchThrows, FetchEnds, FetchFull
<1>11. CASE Asking
  <2> DEFINE c == clearErrors(h)
  <2>1. \A s \in copied(c) : s \in Handles
    BY <1>1, PostErrorType DEF copied, Diagnostics
  <2>2. ASSUME NEW call, NEW s, Succeeds(call, s) PROVE ErrorHasDiagnostic'
    BY <1>2, <1>5, <2>2 DEF Succeeds
  <2>3. ASSUME NEW call, NEW s \in Handles, NEW d \in Diagnostics, Fails(call, s, d)
        PROVE  ErrorHasDiagnostic'
    BY <1>3, <2>3 DEF Fails
  <2> HIDE DEF c
  <2> QED
    BY <1>1, <1>11, <2>1, <2>2, <2>3
    DEF Asking, SQLDescribeCol, SQLColAttribute, SQLColAttributes, ColumnField,
        SQLNumResultCols, SQLGetStmtAttr, SetOtherAttribute, c
<1>12. CASE Other /\ ~Asking
  BY <1>2, <1>5, <1>12
  DEF Other, SQLMoreResults, SQLCloseCursor, SQLFreeStmt, SetMaxRows, SetRowArraySize, SQLError
<1>13. CASE SQLCancel
  BY <1>4, <1>13 DEF SQLCancel
<1> QED
  BY <1>6, <1>7, <1>8, <1>9, <1>10, <1>11, <1>12, <1>13 DEF Next, Other

\* A call that returns SQL_ERROR leaves the record that explains it, wherever
\* it failed and whatever it had released before.
THEOREM ErrorHasDiagnosticCorrect == Spec => []ErrorHasDiagnostic
<1>1. Init => ErrorHasDiagnostic
  BY DEF Init, NoOutcome, ErrorHasDiagnostic
<1>2. TypeOK /\ ErrorHasDiagnostic /\ [Next]_vars => ErrorHasDiagnostic'
  BY ErrorsRecorded DEF vars, ErrorHasDiagnostic
<1> QED
  BY <1>1, <1>2, TypeCorrect, PTL DEF Spec

-----------------------------------------------------------------------------
(***************************************************************************)
(* Cancelling.                                                             *)
(***************************************************************************)
\* The flag of a handle is of a cancel since its last cursor was opened.
CancelInv == h.cancel => app.cancelled

\* The functions of a handle leave the flag as it is, but for those that open a cursor.
LEMMA CancelKept ==
  ASSUME NEW s \in Handles, NEW d
  PROVE  /\ clearErrors(s).cancel = s.cancel
         /\ postError(s, d).cancel = s.cancel
         /\ releaseResultSet(s).cancel = s.cancel
         /\ releaseStatement(s).cancel = s.cancel
         /\ s.resultSet.left # 0 => consume(s).cancel = s.cancel
         /\ countRow(s).cancel = s.cancel
<1>1. releaseResultSet(s) \in Handles /\ releaseResultSet(s).cancel = s.cancel
  BY ReleaseResultSetType DEF releaseResultSet, Handles
<1>2. releaseStatement(s).cancel = s.cancel
  <2> DEFINE r == [releaseResultSet(s) EXCEPT !.metaData = "none"]
  <2>1. r \in Handles /\ r.cancel = s.cancel
    BY <1>1 DEF Handles
  <2>2. releaseStatement(s) = IF r.statement # "none" THEN closeStatement(r) ELSE r
    BY DEF releaseStatement
  <2> HIDE DEF r
  <2>3. closeStatement(r).cancel = r.cancel
    BY <2>1 DEF closeStatement, Handles
  <2> QED
    BY <2>1, <2>2, <2>3
<1>3. consume(s).cancel = s.cancel /\ countRow(s).cancel = s.cancel
  BY DEF consume, countRow, Handles
<1> QED
  BY <1>1, <1>2, <1>3 DEF clearErrors, postError, Handles

LEMMA CancelPrepared ==
  ASSUME NEW s \in Handles, NEW kind \in Kinds
  PROVE  prepareStatement(s, kind).cancel = s.cancel
<1> DEFINE r == releaseStatement(clearErrors(s))
<1>1. r \in Handles /\ r.cancel = s.cancel
  BY ClearErrorsType, ReleaseStatementType, CancelKept
<1>2. prepareStatement(s, kind)
        = [r EXCEPT !.statement = kind,
                    !.metaData = IF kind = "call" THEN "none" ELSE "statement"]
  BY DEF prepareStatement
<1> HIDE DEF r
<1> QED
  BY <1>1, <1>2 DEF Handles

LEMMA CancelReset ==
  ASSUME NEW s \in Handles, NEW rs, NEW d
  PROVE  ~setResultSet(s, rs).cancel /\ ~getResultSet(s, d).cancel
<1>1. ASSUME NEW r \in Handles, NEW x PROVE ~setResultSet(r, x).cancel
  <2>1. releaseResultSet(r) \in Handles
    BY ReleaseResultSetType
  <2> QED
    BY <2>1 DEF setResultSet, Handles
<1>2. startResult(s) \in Handles /\ ~startResult(s).cancel
  BY StartResultType DEF startResult, Handles
<1> QED
  BY <1>1, <1>2 DEF getResultSet

\* Every step that sets the flag is a cancel, and a step after which the
\* application counts anew opens a cursor.
LEMMA CancelStep ==
  ASSUME TypeOK, TypeOK', CancelInv, Next
  PROVE  CancelInv'
<1>1. /\ h \in Handles /\ h' \in Handles /\ app \in Applications
      /\ clearErrors(h) \in Handles /\ clearErrors(h).cancel = h.cancel
      /\ {"error", "warning", "noMetaData", "canceled"} \subseteq Diagnostics
  BY ClearErrorsType, CancelKept DEF TypeOK, Diagnostics
<1>2. ASSUME h'.cancel = h.cancel, app'.cancelled = app.cancelled PROVE CancelInv'
  BY <1>2 DEF CancelInv
<1>3. ASSUME ~h'.cancel PROVE CancelInv'
  BY <1>3 DEF CancelInv
<1>4. /\ \A n \in Nat : lose(app, n).cancelled = app.cancelled
      /\ take(app).cancelled = app.cancelled
      /\ \A b \in BOOLEAN : /\ [app EXCEPT !.prepared = b].cancelled = app.cancelled
                            /\ [app EXCEPT !.fresh = b].cancelled = app.cancelled
      /\ \A n \in Nat : [app EXCEPT !.rowsFetched = n].cancelled = app.cancelled
  BY <1>1 DEF lose, take, Applications
<1>5. h.rowCountPerFetch \in Nat
  BY <1>1 DEF Handles
<1>6. CASE Prepare
  <2>1. ASSUME NEW kind \in Kinds, SQLPrepare(kind) PROVE CancelInv'
    BY <1>1, <1>2, <1>4, <2>1, CancelPrepared DEF SQLPrepare, Return
  <2>2. ASSUME NEW call, PrepareFails(call) PROVE CancelInv'
    <3> DEFINE r == releaseStatement(clearErrors(h))
    <3>1. r \in Handles /\ r.cancel = h.cancel
      BY <1>1, ReleaseStatementType, CancelKept
    <3>2. postError(r, "error").cancel = h.cancel
      BY <3>1, CancelKept
    <3>3. h' = postError(r, "error") /\ app' = [app EXCEPT !.prepared = FALSE]
      BY <2>2 DEF PrepareFails, Return
    <3> HIDE DEF r
    <3> QED
      BY <1>2, <1>4, <3>2, <3>3
  <2> QED
    BY <1>6, <2>1, <2>2 DEF Prepare
<1>7. CASE Execute
  <2>1. ASSUME NEW n \in CatalogSizes, SQLCatalog(n) PROVE CancelInv'
    <3>1. releaseStatement(clearErrors(h)) \in Handles
      BY <1>1, ReleaseStatementType
    <3> QED
      BY <1>3, <2>1, <3>1, CancelReset DEF SQLCatalog, Return
  <2>2. ASSUME NEW kind \in Kinds, SQLExecDirect(kind) \/ SQLExecDirectDropsResult(kind)
        PROVE  CancelInv'
    <3> DEFINE p == prepareStatement(h, kind)
    <3>1. p \in Handles /\ p.cancel = h.cancel
      BY <1>1, PrepareStatementType, CancelPrepared
    <3>2. postError(p, "error").cancel = h.cancel
      BY <3>1, CancelKept
    <3>3. h' \in {p, postError(p, "error")} /\ app' = [app EXCEPT !.prepared = FALSE]
      BY <2>2 DEF SQLExecDirect, SQLExecDirectDropsResult, Begin, Return
    <3> HIDE DEF p
    <3> QED
      BY <1>2, <1>4, <3>1, <3>2, <3>3
  <2> QED
    BY <1>1, <1>2, <1>7, <2>1, <2>2, CancelKept
    DEF Execute, SQLExecute, SQLExecuteNeedsData, SQLExecuteBadParameter, SQLParamData,
        Begin, Return
<1>8. CASE ExecuteStep
  <2>1. ASSUME NEW answer \in Answers(h.statement), NEW cut \in BOOLEAN,
               ExecuteReturns(answer, cut)
        PROVE  CancelInv'
    <3> DEFINE s == outputParameters(h, cut)
               d == [results |-> answer.results, keys |-> answer.keys,
                     keysGiven |-> FALSE, executed |-> TRUE]
    <3>1. s \in Handles /\ s.cancel = h.cancel
      BY <1>1, PostErrorType, CancelKept DEF outputParameters
    <3>2. ~getResultSet(s, d).cancel
      BY <3>1, CancelReset
    <3>3. h' = IF answer.results # << >> THEN getResultSet(s, d) ELSE s
      BY <2>1 DEF ExecuteReturns, Return
    <3>4. answer.results = << >> => app' = [app EXCEPT !.fresh = FALSE]
      BY <2>1 DEF ExecuteReturns
    <3> HIDE DEF s, d
    <3> QED
      BY <1>2, <1>3, <1>4, <3>1, <3>2, <3>3, <3>4
  <2> QED
    BY <1>1, <1>2, <1>8, <2>1, CancelKept DEF ExecuteStep, ExecuteThrows, Return
<1>9. CASE Fetch
  <2>1. app' = app
    BY <1>9 DEF Fetch, SQLFetchNoCursor, SQLFetchCanceled, SQLFetch
  <2>2. CASE SQLFetchNoCursor
    <3>1. h' \in {h, postError(h, "error")} /\ postError(h, "error").cancel = h.cancel
      BY <1>1, <2>2, CancelKept DEF SQLFetchNoCursor, Return
    <3> QED
      BY <1>2, <2>1, <3>1
  <2>3. CASE SQLFetchCanceled
    <3>1. releaseResultSet(h) \in Handles /\ releaseResultSet(h).cancel = h.cancel
      BY <1>1, ReleaseResultSetType, CancelKept
    <3>2. h' = postError(releaseResultSet(h), "canceled")
      BY <2>3 DEF SQLFetchCanceled, Return
    <3> QED
      BY <1>2, <2>1, <3>1, <3>2, CancelKept
  <2>4. CASE SQLFetch
    BY <1>1, <1>2, <2>1, <2>4 DEF SQLFetch, Begin, Handles
  <2> QED
    BY <1>9, <2>2, <2>3, <2>4 DEF Fetch
<1>10. CASE FetchStep
  <2>1. h.resultSet.left # 0 => consume(h) \in Handles /\ consume(h).cancel = h.cancel
    BY <1>1, ConsumeType, CancelKept
  <2>2. ASSUME NEW cut \in BOOLEAN, FetchRow(cut) PROVE CancelInv'
    <3> DEFINE s == IF cut THEN postError(consume(h), "warning") ELSE consume(h)
    <3>1. s \in Handles /\ s.cancel = h.cancel
      BY <1>1, <2>1, <2>2, PostErrorType, CancelKept DEF FetchRow, AtEnd
    <3>2. h' = countRow(s) /\ app' = [app EXCEPT !.rowsFetched = h.rowCountPerFetch + 1]
      BY <2>2 DEF FetchRow
    <3> HIDE DEF s
    <3> QED
      BY <1>2, <1>4, <1>5, <3>1, <3>2, CancelKept
  <2>3. CASE FetchRowFails
    BY <1>1, <1>2, <1>4, <1>5, <2>1, <2>3, CancelKept DEF FetchRowFails, AtEnd, Return
  <2>4. CASE FetchThrows
    BY <1>1, <1>2, <1>4, <1>5, <2>4, CancelKept DEF FetchThrows, Return
  <2>5. CASE FetchEnds \/ FetchFull
    <3>1. [h EXCEPT !.eof = TRUE].cancel = h.cancel
      BY <1>1 DEF Handles
    <3> QED
      BY <1>2, <1>4, <2>5, <3>1 DEF FetchEnds, FetchFull, Return
  <2> QED
    BY <1>10, <2>2, <2>3, <2>4, <2>5 DEF FetchStep
<1>11. CASE SQLMoreResults
  <2>1. ~getResultSet(h, srv).cancel
    BY <1>1, CancelReset
  <2> QED
    BY <1>2, <1>3, <1>4, <1>11, <2>1 DEF SQLMoreResults, Return
<1>12. CASE Asking
  <2> DEFINE c == clearErrors(h)
             S == {c} \cup {postError(c, d) : d \in Diagnostics}
                    \cup {postError(postError(c, "warning"), "error")}
  <2>1. \A s \in S : s.cancel = h.cancel
    <3>1. \A d \in Diagnostics : /\ postError(c, d) \in Handles
                                 /\ postError(c, d).cancel = h.cancel
      BY <1>1, CancelKept, PostErrorType
    <3>2. postError(postError(c, "warning"), "error").cancel = h.cancel
      BY <1>1, <3>1, CancelKept
    <3> QED
      BY <1>1, <3>1, <3>2
  <2>2. h' \in S /\ app' = app
    BY <1>1, <1>12, AskingReturns DEF Return
  <2> HIDE DEF S
  <2> QED
    BY <1>2, <2>1, <2>2
<1>13. CASE Other /\ ~Asking /\ ~SQLMoreResults
  <2>1. app' = app
    BY <1>13 DEF Other, SQLCloseCursor, SQLFreeStmt, SetMaxRows, SetRowArraySize, SQLError
  <2>2. CASE SQLCloseCursor \/ SQLFreeStmt
    BY <1>1, <1>2, <2>1, <2>2, CancelKept DEF SQLCloseCursor, SQLFreeStmt, Return
  <2>3. ASSUME NEW limit \in Limits, SetMaxRows(limit) PROVE CancelInv'
    <3>1. h' = [clearErrors(h) EXCEPT !.maxRowsPerSelect = limit]
      BY <2>3 DEF SetMaxRows, Return
    <3> QED
      BY <1>1, <1>2, <2>1, <3>1 DEF Handles
  <2>4. ASSUME NEW size \in ArraySizes, SetRowArraySize(size) PROVE CancelInv'
    <3>1. h' = [clearErrors(h) EXCEPT !.rowArraySize = size]
      BY <2>4 DEF SetRowArraySize, Return
    <3> QED
      BY <1>1, <1>2, <2>1, <3>1 DEF Handles
  <2>5. CASE SQLError
    BY <1>1, <1>2, <2>1, <2>5 DEF SQLError, Return, Handles
  <2> QED
    BY <1>13, <2>2, <2>3, <2>4, <2>5 DEF Other
<1>14. CASE SQLCancel
  BY <1>1, <1>14 DEF SQLCancel, CancelInv, Applications
<1> QED
  BY <1>6, <1>7, <1>8, <1>9, <1>10, <1>11, <1>12, <1>13, <1>14 DEF Next, Other

\* No cursor is cancelled by a call that came before it was opened.
THEOREM CancelIsForThisCursorCorrect == Spec => []CancelIsForThisCursor
<1>1. Init => CancelInv
  BY DEF Init, CancelInv
<1>2. TypeOK /\ TypeOK' /\ CancelInv /\ [Next]_vars => CancelInv'
  <2>1. UNCHANGED vars /\ CancelInv => CancelInv'
    BY DEF vars, CancelInv
  <2> QED
    BY <2>1, CancelStep
<1>3. CancelInv => CancelIsForThisCursor
  BY DEF CancelInv, CancelIsForThisCursor
<1> QED
  BY <1>1, <1>2, <1>3, TypeCorrect, PTL DEF Spec

-----------------------------------------------------------------------------
(***************************************************************************)
(* The end of a cursor.  What SQL_NO_DATA says rests on eof, and eof on    *)
(* the count of rows: for a cursor the application counts from its start   *)
(* the driver counts no row that the application does not know of, except  *)
(* on the cursors of catalog functions.                                    *)
(***************************************************************************)
Counted == HasCursor(h) /\ app.fresh /\ h.resultSet.owner # "catalog"

EofFetched == HasCursor(h) /\ app.fresh /\ h.eof => dm = "fetched"
SelectBounded == Counted => h.rowCountPerSelect <= app.rows + app.lost + InRowset
EofAllRead == Counted /\ h.eof => AllRead
ToldAtEof == FetchSawNoData => h.eof

EndInv == EofFetched /\ SelectBounded /\ EofAllRead /\ ToldAtEof

\* What the invariant looks at in a handle.
SameCursor(s, t) == SameRows(s, t) /\ s.eof = t.eof

LEMMA ErrorsSameCursor ==
  ASSUME NEW s \in Handles, NEW d
  PROVE  SameCursor(clearErrors(s), s) /\ SameCursor(postError(s, d), s)
<1>1. clearErrors(s).eof = s.eof /\ postError(s, d).eof = s.eof
  BY DEF clearErrors, postError, Handles
<1> QED
  BY <1>1, ErrorsSameRows DEF SameCursor

\* Only SQLFetch answers SQL_NO_DATA for SQLFetch, and it has set eof.
LEMMA ToldStep ==
  ASSUME TypeOK, Next
  PROVE  ToldAtEof'
<1>1. ASSUME NEW call, NEW code, NEW s, NEW n, Return(call, code, s, n),
             call # "SQLFetch" \/ code # "SQL_NO_DATA"
      PROVE  ToldAtEof'
  BY <1>1 DEF Return, ToldAtEof, FetchSawNoData
<1>2. ASSUME pc' # "idle" \/ ret' = NoOutcome PROVE ToldAtEof'
  BY <1>2 DEF ToldAtEof, FetchSawNoData, Idle, NoOutcome
<1>3. \A s : sqlSuccess(s) # "SQL_NO_DATA"
  BY DEF sqlSuccess
<1>4. CASE Prepare
  BY <1>1, <1>4 DEF Prepare, SQLPrepare, PrepareFails
<1>5. CASE Execute
  BY <1>1, <1>2, <1>5
  DEF Execute, SQLExecute, SQLExecuteNeedsData, SQLExecuteBadParameter, SQLExecDirect,
      SQLExecDirectDropsResult, SQLParamData, SQLCatalog, Begin
<1>6. CASE ExecuteStep
  <2>1. pc # "SQLFetch" /\ \E code, s : Return(pc, code, s, 0)
    BY <1>6 DEF ExecuteStep, ExecuteReturns, ExecuteThrows, ExecuteCalls
  <2> QED
    BY <1>1, <2>1
<1>7. CASE Fetch
  BY <1>1, <1>2, <1>7 DEF Fetch, SQLFetchNoCursor, SQLFetchCanceled, SQLFetch, Begin
<1>8. CASE FetchStep
  <2>1. CASE FetchEnds
    <3>1. h'.eof
      BY <2>1 DEF FetchEnds, Return, TypeOK, Handles
    <3> QED
      BY <3>1 DEF ToldAtEof
  <2>2. ASSUME NEW cut \in BOOLEAN, FetchRow(cut) PROVE ToldAtEof'
    BY <1>2, <2>2 DEF FetchRow, WantsRow
  <2> QED
    BY <1>1, <1>3, <1>8, <2>1, <2>2 DEF FetchStep, FetchRowFails, FetchThrows, FetchFull
<1>9. CASE Other
  <2>1. CASE Asking
    BY <1>1, <2>1
    DEF Asking, SQLDescribeCol, SQLColAttribute, SQLColAttributes, ColumnField,
        SQLNumResultCols, SQLGetStmtAttr, SetOtherAttribute, Succeeds, Fails
  <2> QED
    BY <1>1, <1>9, <2>1
    DEF Other, SQLMoreResults, SQLCloseCursor, SQLFreeStmt, SetMaxRows, SetRowArraySize,
        SQLError
<1>10. CASE SQLCancel
  BY <1>2, <1>10 DEF SQLCancel
<1> QED
  BY <1>4, <1>5, <1>6, <1>7, <1>8, <1>9, <1>10 DEF Next

\* The invariant holds where nothing is counted,
LEMMA EndGone ==
  ASSUME ToldAtEof', ~HasCursor(h)' \/ ~app'.fresh
  PROVE  EndInv'
  BY DEF EndInv, EofFetched, SelectBounded, EofAllRead, Counted

\* of a cursor just opened,
LEMMA EndNew ==
  ASSUME ToldAtEof', h' \in Handles, pc' = "idle", ~h'.eof, app'.rows = 0, app'.lost = 0,
         h'.resultSet.owner = "catalog" \/ h'.rowCountPerSelect = 0
  PROVE  EndInv'
<1>1. InRowset' = 0
  BY DEF InRowset
<1> QED
  BY <1>1 DEF EndInv, EofFetched, SelectBounded, EofAllRead, Counted

\* and after a step that leaves cursor and counts alone.
LEMMA EndKept ==
  ASSUME EndInv, ToldAtEof', h'.resultSet = h.resultSet, h'.eof = h.eof,
         h'.rowCountPerSelect = h.rowCountPerSelect,
         h'.maxRowsPerSelect = h.maxRowsPerSelect,
         app'.rows = app.rows, app'.lost = app.lost, app'.fresh = app.fresh,
         InRowset' = InRowset, dm = "fetched" => dm' = "fetched"
  PROVE  EndInv'
<1>1. Counted' = Counted /\ HasCursor(h)' = HasCursor(h) /\ AllRead' = AllRead
  BY DEF Counted, HasCursor, AllRead
<1> QED
  BY <1>1 DEF EndInv, EofFetched, SelectBounded, EofAllRead

LEMMA ReleaseResultSetCounts ==
  ASSUME NEW s \in Handles
  PROVE  releaseResultSet(s).rowCountPerSelect = s.rowCountPerSelect
BY DEF releaseResultSet, Handles

LEMMA GetResultSetEnd ==
  ASSUME NEW s \in Handles, NEW d, GivesResult(s, d)
  PROVE  ~getResultSet(s, d).eof /\ getResultSet(s, d).rowCountPerSelect = 0
<1>1. startResult(s) \in Handles /\ startResult(s).rowCountPerSelect = 0
  BY StartResultType DEF startResult, Handles
<1>2. ASSUME NEW rs
      PROVE  /\ ~setResultSet(startResult(s), rs).eof
             /\ setResultSet(startResult(s), rs).rowCountPerSelect = 0
  <2>1. /\ releaseResultSet(startResult(s)) \in Handles
        /\ releaseResultSet(startResult(s)).rowCountPerSelect = 0
    BY <1>1, ReleaseResultSetType, ReleaseResultSetCounts
  <2> QED
    BY <2>1 DEF setResultSet, Handles
<1>3. \/ getResultSet(s, d) = setResultSet(startResult(s), NewResultSet("keys", d.keys))
      \/ getResultSet(s, d)
           = setResultSet(startResult(s), NewResultSet("statement", Head(d.results)))
  BY DEF getResultSet, GivesResult
<1> QED
  BY <1>2, <1>3

LEMMA ExecuteEnd ==
  ASSUME TypeOK, TypeOK', ToldAtEof', EndInv, Prepare \/ Execute
  PROVE  EndInv'
<1>1. h \in Handles /\ h' \in Handles /\ app \in Applications /\ clearErrors(h) \in Handles
  BY ClearErrorsType DEF TypeOK
<1>2. SameCursor(clearErrors(h), h)
  BY <1>1, ErrorsSameCursor
<1>3. ASSUME NEW r \in Handles, r.resultSet = NoResultSet,
             h' = r \/ h' = postError(r, "error")
      PROVE  EndInv'
  BY <1>3, ErrorsSameRows, EndGone DEF SameRows, HasCursor
<1>4. ASSUME NEW kind \in Kinds,
             SQLPrepare(kind) \/ SQLExecDirect(kind) \/ SQLExecDirectDropsResult(kind)
      PROVE  EndInv'
  <2> DEFINE r == prepareStatement(h, kind)
  <2>1. r \in Handles /\ r.resultSet = NoResultSet
    BY <1>1, PrepareStatementType, PrepareStatementGone
  <2>2. h' = r \/ h' = postError(r, "error")
    BY <1>4 DEF SQLPrepare, SQLExecDirect, SQLExecDirectDropsResult, Begin, Return
  <2> HIDE DEF r
  <2> QED
    BY <1>3, <2>1, <2>2
<1>5. ASSUME NEW call, PrepareFails(call) PROVE EndInv'
  <2> DEFINE r == releaseStatement(clearErrors(h))
  <2>1. r \in Handles /\ r.resultSet = NoResultSet
    BY <1>1, ReleaseStatementType, ReleaseStatementLinked
  <2>2. h' = postError(r, "error")
    BY <1>5 DEF PrepareFails, Return
  <2> HIDE DEF r
  <2> QED
    BY <1>3, <2>1, <2>2
<1>6. CASE SQLExecute \/ SQLExecuteNeedsData \/ SQLExecuteBadParameter \/ SQLParamData
  <2>1. /\ app' = app /\ dm # "fetched" /\ InRowset = 0 /\ pc' # "SQLFetch"
        /\ h' = clearErrors(h) \/ h' = postError(clearErrors(h), "error")
    BY <1>6 DEF SQLExecute, SQLExecuteNeedsData, SQLExecuteBadParameter, SQLParamData, Begin,
                Return, MayExecute, Idle, InRowset
  <2>2. SameCursor(h', h)
    BY <1>1, <1>2, <2>1, ErrorsSameCursor DEF SameCursor, SameRows
  <2> QED
    BY <2>1, <2>2, EndKept DEF SameCursor, SameRows, InRowset
<1>7. ASSUME NEW n \in CatalogSizes, SQLCatalog(n) PROVE EndInv'
  <2> DEFINE r == releaseStatement(clearErrors(h))
  <2>1. r \in Handles /\ releaseResultSet(r) \in Handles
    BY <1>1, ReleaseStatementType, ReleaseResultSetType
  <2>2. h' = setResultSet(r, NewResultSet("catalog", n)) /\ pc' = "idle"
    BY <1>7 DEF SQLCatalog, Return
  <2> HIDE DEF r
  <2>3. ~h'.eof /\ h'.resultSet.owner = "catalog"
    BY <2>1, <2>2 DEF setResultSet, NewResultSet, Handles
  <2>4. app'.rows = 0 /\ app'.lost = 0
    BY <1>1, <1>7 DEF SQLCatalog, NewCursor, Applications
  <2> QED
    BY <1>1, <2>2, <2>3, <2>4, EndNew
<1> QED
  BY <1>4, <1>5, <1>6, <1>7 DEF Prepare, Execute

LEMMA ExecuteStepEnd ==
  ASSUME TypeOK, TypeOK', ToldAtEof', NotFetched, EndInv, ExecuteStep
  PROVE  EndInv'
<1>1. h \in Handles /\ h' \in Handles /\ app \in Applications
  BY DEF TypeOK
<1>2. pc \in ExecuteCalls /\ pc' = "idle" /\ InRowset = 0 /\ InRowset' = 0 /\ dm # "fetched"
  BY DEF ExecuteStep, ExecuteReturns, ExecuteThrows, ExecuteCalls, Return, NotFetched, InRowset
<1>3. ASSUME NEW answer \in Answers(h.statement), NEW cut \in BOOLEAN,
             ExecuteReturns(answer, cut)
      PROVE  EndInv'
  <2> DEFINE s == outputParameters(h, cut)
             d == [results |-> answer.results, keys |-> answer.keys,
                   keysGiven |-> FALSE, executed |-> TRUE]
  <2>1. s \in Handles
    BY <1>1, PostErrorType DEF outputParameters, Diagnostics
  <2>2. CASE answer.results # << >>
    <3>1. GivesResult(s, d)
      BY <2>2 DEF GivesResult
    <3>2. h' = getResultSet(s, d) /\ app' = [NewCursor(app) EXCEPT !.cancelled = FALSE]
      BY <1>3, <2>2 DEF ExecuteReturns, Return
    <3>3. app'.rows = 0 /\ app'.lost = 0
      BY <1>1, <3>2 DEF NewCursor, Applications
    <3> QED
      BY <1>1, <1>2, <2>1, <3>1, <3>2, <3>3, GetResultSetEnd, EndNew
  <2>3. CASE answer.results = << >>
    <3>1. app' = [app EXCEPT !.fresh = FALSE]
      BY <1>3, <2>3 DEF ExecuteReturns
    <3> QED
      BY <1>1, <3>1, EndGone DEF Applications
  <2> QED
    BY <2>2, <2>3
<1>4. CASE ExecuteThrows
  <2>1. h' = postError(h, "error") /\ app' = app
    BY <1>4 DEF ExecuteThrows, Return
  <2> QED
    BY <1>1, <1>2, <2>1, ErrorsSameCursor, EndKept DEF SameCursor, SameRows
<1> QED
  BY <1>3, <1>4 DEF ExecuteStep

LEMMA FetchEnd ==
  ASSUME TypeOK, TypeOK', ToldAtEof', EndInv, Fetch
  PROVE  EndInv'
<1>1. h \in Handles /\ releaseResultSet(h) \in Handles
  BY ReleaseResultSetType DEF TypeOK
<1>2. CASE SQLFetchNoCursor
  <2>1. h'.resultSet = NoResultSet
    BY <1>1, <1>2, ErrorsSameRows DEF SQLFetchNoCursor, HasCursor, Return, SameRows
  <2> QED
    BY <2>1, EndGone DEF HasCursor
<1>3. CASE SQLFetchCanceled
  <2>1. h'.resultSet = NoResultSet
    BY <1>1, <1>3, ErrorsSameRows, ReleaseResultSetGone
    DEF SQLFetchCanceled, Return, SameRows
  <2> QED
    BY <2>1, EndGone DEF HasCursor
<1>4. CASE SQLFetch
  <2>1. /\ h'.rowCountPerFetch = 0 /\ h'.resultSet = h.resultSet /\ h'.eof = h.eof
        /\ h'.rowCountPerSelect = h.rowCountPerSelect
        /\ h'.maxRowsPerSelect = h.maxRowsPerSelect
        /\ app' = app /\ dm' = dm /\ pc' = "SQLFetch" /\ pc = "idle"
    BY <1>1, <1>4 DEF Begin, SQLFetch, Handles, MayRead, Idle
  <2>2. InRowset' = 0 /\ InRowset = 0
    BY <2>1 DEF InRowset
  <2> QED
    BY <2>1, <2>2, EndKept
<1> QED
  BY <1>2, <1>3, <1>4 DEF Fetch

\* next() leaves the owner of a cursor, and eof.
LEMMA ConsumeEnd ==
  ASSUME NEW s \in Handles, s.resultSet.left # 0
  PROVE  consume(s).eof = s.eof /\ consume(s).resultSet.owner = s.resultSet.owner
<1>1. s.resultSet \in ResultSets
  BY DEF Handles, NoResultSet
<1> DEFINE rs == [s.resultSet EXCEPT !.left = s.resultSet.left - 1]
<1>2. rs.owner = s.resultSet.owner
  BY <1>1 DEF ResultSets
<1>3. consume(s) = [s EXCEPT !.resultSet = rs]
  BY DEF consume, Handles
<1> HIDE DEF rs
<1> QED
  BY <1>2, <1>3 DEF Handles

LEMMA FetchStepEnd ==
  ASSUME TypeOK, TypeOK', ToldAtEof', FetchCounted, EndInv, FetchStep
  PROVE  EndInv'
<1>1. h \in Handles /\ h' \in Handles /\ app \in Applications
  BY DEF TypeOK
<1>2. /\ h.rowCountPerFetch \in Nat /\ h.rowCountPerSelect \in Nat
      /\ h.maxRowsPerSelect \in Nat /\ app.rows \in Nat /\ app.lost \in Nat
      /\ h.rowArraySize \in Nat \ {0}
  BY <1>1, AttributesAssumption DEF Handles, Applications
<1>3. pc = "SQLFetch" /\ InRowset = h.rowCountPerFetch
  BY DEF FetchStep, FetchRow, FetchRowFails, FetchThrows, FetchEnds, FetchFull, WantsRow,
         InRowset
<1>4. Counted => h.rowCountPerSelect <= app.rows + app.lost + h.rowCountPerFetch
  BY <1>3 DEF EndInv, SelectBounded
<1>5. h.rowCountPerFetch > 0 => /\ take(app).rows = app.rows + h.rowCountPerFetch
                                /\ take(app).lost = app.lost
                                /\ take(app).fresh = app.fresh
  BY <1>1, <1>3 DEF FetchCounted, take, Applications
<1>6. \A n \in Nat : /\ lose(app, n).rows = app.rows
                     /\ lose(app, n).lost = app.lost + n
                     /\ lose(app, n).fresh = app.fresh
  BY <1>1 DEF lose, Applications
<1>7. ASSUME ~h'.eof,
             Counted' => Counted /\ h'.rowCountPerSelect <= app'.rows + app'.lost + InRowset'
      PROVE  EndInv'
  BY <1>7 DEF EndInv, EofFetched, SelectBounded, EofAllRead
<1>8. ASSUME NEW cut \in BOOLEAN, FetchRow(cut) PROVE EndInv'
  <2> DEFINE s == IF cut THEN postError(consume(h), "warning") ELSE consume(h)
  <2>1. /\ h' = countRow(s) /\ pc' = pc
        /\ app' = [app EXCEPT !.rowsFetched = h.rowCountPerFetch + 1]
        /\ h.resultSet.left # 0 /\ ~h.eof
    BY <1>8 DEF FetchRow, AtEnd
  <2>2. consume(h) \in Handles /\ s \in Handles /\ SameCursor(s, consume(h))
    <3>1. consume(h) \in Handles
      BY <1>1, <2>1, ConsumeType
    <3> QED
      BY <3>1, PostErrorType, ErrorsSameCursor DEF Diagnostics, SameCursor, SameRows
  <2>3. /\ s.rowCountPerSelect = h.rowCountPerSelect
        /\ s.rowCountPerFetch = h.rowCountPerFetch
        /\ s.resultSet.owner = h.resultSet.owner
        /\ ~s.eof /\ HasCursor(h)
    BY <1>1, <2>1, <2>2, ConsumeRows, ConsumeEnd DEF SameCursor, SameRows
  <2> HIDE DEF s
  <2>4. /\ h'.resultSet = s.resultSet /\ ~h'.eof
        /\ h'.rowCountPerSelect = s.rowCountPerSelect + 1
        /\ h'.rowCountPerFetch = s.rowCountPerFetch + 1
    BY <2>1, <2>2, <2>3 DEF countRow, Handles
  <2>5. app'.rows = app.rows /\ app'.lost = app.lost /\ app'.fresh = app.fresh
    BY <1>1, <2>1 DEF Applications
  <2>6. InRowset' = h.rowCountPerFetch + 1
    BY <1>3, <2>1, <2>3, <2>4 DEF InRowset
  <2>7. Counted' => Counted
    BY <2>3, <2>4, <2>5 DEF Counted
  <2>8. Counted => h'.rowCountPerSelect <= app'.rows + app'.lost + InRowset'
    BY <1>2, <1>4, <2>3, <2>4, <2>5, <2>6
  <2> QED
    BY <1>7, <2>4, <2>7, <2>8
<1>9. CASE FetchRowFails
  <2>1. /\ h' = postError(consume(h), "error") /\ pc' = "idle"
        /\ app' = lose(app, h.rowCountPerFetch + 1) /\ h.resultSet.left # 0 /\ ~h.eof
    BY <1>9 DEF FetchRowFails, Return, AtEnd
  <2>2. consume(h) \in Handles /\ SameCursor(h', consume(h))
    BY <1>1, <2>1, ConsumeType, ErrorsSameCursor
  <2>3. /\ h'.rowCountPerSelect = h.rowCountPerSelect
        /\ h'.resultSet.owner = h.resultSet.owner
        /\ ~h'.eof /\ HasCursor(h)
    BY <1>1, <2>1, <2>2, ConsumeRows, ConsumeEnd DEF SameCursor, SameRows
  <2>4. /\ app'.rows = app.rows /\ app'.lost = app.lost + (h.rowCountPerFetch + 1)
        /\ app'.fresh = app.fresh
    BY <1>2, <1>6, <2>1
  <2>5. InRowset' = 0
    BY <2>1 DEF InRowset
  <2>6. Counted' => Counted
    BY <2>3, <2>4 DEF Counted
  <2>7. Counted => h'.rowCountPerSelect <= app'.rows + app'.lost + InRowset'
    BY <1>2, <1>4, <2>3, <2>4, <2>5
  <2> QED
    BY <1>7, <2>3, <2>6, <2>7
<1>10. CASE FetchThrows
  <2>1. /\ h' = postError(h, "error") /\ pc' = "idle"
        /\ app' = lose(app, h.rowCountPerFetch) /\ ~h.eof
    BY <1>10 DEF FetchThrows, Return
  <2>2. SameCursor(h', h)
    BY <1>1, <2>1, ErrorsSameCursor
  <2>3. /\ app'.rows = app.rows /\ app'.lost = app.lost + h.rowCountPerFetch
        /\ app'.fresh = app.fresh
    BY <1>2, <1>6, <2>1
  <2>4. InRowset' = 0
    BY <2>1 DEF InRowset
  <2>5. Counted' => Counted
    BY <2>2, <2>3 DEF Counted, SameCursor, SameRows, HasCursor
  <2>6. Counted => h'.rowCountPerSelect <= app'.rows + app'.lost + InRowset'
    BY <1>2, <1>4, <2>2, <2>3, <2>4 DEF SameCursor, SameRows
  <2> QED
    BY <1>7, <2>1, <2>2, <2>5, <2>6 DEF SameCursor
<1>11. CASE FetchEnds \/ FetchFull
  <2>1. /\ SameRows(h', h) /\ pc' = "idle" /\ dm' = "fetched"
        /\ app'.rows = app.rows + h.rowCountPerFetch /\ app'.lost = app.lost
        /\ app'.fresh = app.fresh
    <3>1. CASE FetchEnds
      <4>1. /\ h' = [h EXCEPT !.eof = TRUE] /\ pc' = "idle" /\ dm' = "fetched"
            /\ app' = IF h.rowCountPerFetch > 0 THEN take(app) ELSE app
        BY <3>1 DEF FetchEnds, Return
      <4> QED
        BY <1>1, <1>2, <1>5, <4>1 DEF Handles, SameRows
    <3>2. CASE FetchFull
      BY <1>2, <1>5, <3>2 DEF FetchFull, Return, SameRows
    <3> QED
      BY <1>11, <3>1, <3>2
  <2>2. InRowset' = 0
    BY <2>1 DEF InRowset
  <2>3. Counted' = Counted
    BY <2>1 DEF Counted, SameRows, HasCursor
  <2>4. SelectBounded'
    BY <1>2, <1>4, <2>1, <2>2, <2>3 DEF SelectBounded, SameRows
  <2>5. ASSUME Counted, h'.eof PROVE AllRead'
    <3>1. CASE h.eof
      <4>1. AllRead
        BY <2>5, <3>1 DEF EndInv, EofAllRead
      <4> QED
        BY <1>2, <2>1, <4>1 DEF AllRead, SameRows
    <3>2. CASE LimitReached(h)
      BY <1>2, <1>4, <2>1, <2>5, <3>2 DEF LimitReached, AllRead, SameRows
    <3>3. CASE h.resultSet.left = 0
      BY <2>1, <3>3 DEF AllRead, SameRows
    <3>4. h.eof \/ LimitReached(h) \/ h.resultSet.left = 0
      BY <1>11, <2>5 DEF FetchEnds, FetchFull, AtEnd, Return
    <3> QED
      BY <3>1, <3>2, <3>3, <3>4
  <2> QED
    BY <2>1, <2>3, <2>4, <2>5 DEF EndInv, EofFetched, EofAllRead
<1> QED
  BY <1>8, <1>9, <1>10, <1>11 DEF FetchStep

LEMMA OtherEnd ==
  ASSUME TypeOK, TypeOK', ToldAtEof', EndInv, Other
  PROVE  EndInv'
<1>1. h \in Handles /\ h' \in Handles /\ app \in Applications /\ clearErrors(h) \in Handles
  BY ClearErrorsType DEF TypeOK
<1>2. pc = "idle" /\ pc' = "idle"
  <2>1. CASE Asking
    BY <1>1, <2>1, AskingReturns
    DEF Asking, SQLDescribeCol, SQLColAttribute, SQLColAttributes, ColumnField,
        SQLNumResultCols, SQLGetStmtAttr, SetOtherAttribute, MayDescribe, Idle, Return
  <2> QED
    BY <2>1 DEF Other, SQLMoreResults, SQLCloseCursor, SQLFreeStmt, SetMaxRows,
                SetRowArraySize, SQLError, MayRead, Idle, Return
<1>3. InRowset = 0 /\ InRowset' = 0
  BY <1>2 DEF InRowset
<1>4. SameCursor(clearErrors(h), h)
  BY <1>1, ErrorsSameCursor
<1>5. CASE SQLMoreResults
  <2>1. CASE h.statement # "none" /\ GivesResult(h, srv)
    <3>1. h' = getResultSet(h, srv) /\ app' = [NewCursor(app) EXCEPT !.cancelled = FALSE]
      BY <1>5, <2>1 DEF SQLMoreResults, Return
    <3>2. app'.rows = 0 /\ app'.lost = 0
      BY <1>1, <3>1 DEF NewCursor, Applications
    <3> QED
      BY <1>1, <1>2, <2>1, <3>1, <3>2, GetResultSetEnd, EndNew
  <2>2. CASE ~(h.statement # "none" /\ GivesResult(h, srv))
    <3>1. app' = [app EXCEPT !.fresh = FALSE]
      BY <1>5, <2>2 DEF SQLMoreResults
    <3> QED
      BY <1>1, <3>1, EndGone DEF Applications
  <2> QED
    BY <2>1, <2>2
<1>6. CASE SQLCloseCursor \/ SQLFreeStmt
  <2>1. h' = releaseResultSet(clearErrors(h))
    BY <1>6 DEF SQLCloseCursor, SQLFreeStmt, Return
  <2> QED
    BY <1>1, <2>1, ReleaseResultSetGone, EndGone DEF HasCursor
<1>7. ASSUME NEW limit \in Limits, SetMaxRows(limit)
      PROVE  EndInv'
  <2>1. /\ h' = [clearErrors(h) EXCEPT !.maxRowsPerSelect = limit]
        /\ app' = app /\ dm' = dm /\ dm # "fetched"
    BY <1>7 DEF SetMaxRows, Return
  <2>2. /\ h'.resultSet = h.resultSet /\ h'.rowCountPerSelect = h.rowCountPerSelect
        /\ h'.eof = h.eof
    BY <1>1, <1>4, <2>1 DEF SameCursor, SameRows, Handles
  <2>3. HasCursor(h) /\ app.fresh => ~h'.eof
    BY <2>1, <2>2 DEF EndInv, EofFetched
  <2>4. Counted' = Counted /\ HasCursor(h)' = HasCursor(h)
    BY <2>1, <2>2 DEF Counted, HasCursor
  <2>5. SelectBounded' /\ EofFetched' /\ EofAllRead'
    BY <1>3, <2>1, <2>2, <2>3, <2>4
    DEF EndInv, SelectBounded, EofFetched, EofAllRead, Counted
  <2> QED
    BY <2>5 DEF EndInv
<1>8. ASSUME app' = app, dm' = dm, SameRows(h', h), h'.eof = h.eof
      PROVE  EndInv'
  BY <1>3, <1>8, EndKept DEF SameRows
<1>9. ASSUME NEW size \in ArraySizes, SetRowArraySize(size)
      PROVE  EndInv'
  <2>1. h' = [clearErrors(h) EXCEPT !.rowArraySize = size] /\ app' = app /\ dm' = dm
    BY <1>9 DEF SetRowArraySize, Return
  <2>2. /\ h'.resultSet = h.resultSet /\ h'.rowCountPerSelect = h.rowCountPerSelect
        /\ h'.maxRowsPerSelect = h.maxRowsPerSelect /\ h'.eof = h.eof
    BY <1>1, <1>4, <2>1 DEF SameCursor, SameRows, Handles
  <2> QED
    BY <1>3, <2>1, <2>2, EndKept
<1>10. CASE Asking
  <2> DEFINE c == clearErrors(h)
             S == {c} \cup {postError(c, d) : d \in Diagnostics}
                    \cup {postError(postError(c, "warning"), "error")}
  <2>1. \A s \in S : SameCursor(s, h)
    BY <1>1, <1>4, ErrorsSameCursor, PostErrorType DEF SameCursor, SameRows, Diagnostics
  <2>2. h' \in S /\ UNCHANGED <<srv, dm, app>>
    BY <1>1, <1>10, AskingReturns DEF Return
  <2> HIDE DEF S
  <2>3. SameCursor(h', h)
    BY <2>1, <2>2
  <2> QED
    BY <1>8, <2>2, <2>3 DEF SameCursor
<1>11. CASE SQLError
  <2>1. h' = [h EXCEPT !.errors = Tail(@)] /\ app' = app /\ dm' = dm
    BY <1>11 DEF SQLError, Return
  <2>2. SameRows(h', h) /\ h'.eof = h.eof
    BY <1>1, <2>1 DEF SameRows, Handles
  <2> QED
    BY <1>8, <2>1, <2>2
<1> QED
  BY <1>5, <1>6, <1>7, <1>9, <1>10, <1>11 DEF Other

LEMMA CancelEnd ==
  ASSUME TypeOK, ToldAtEof', EndInv, SQLCancel
  PROVE  EndInv'
<1>1. h \in Handles /\ clearErrors(h) \in Handles /\ SameCursor(clearErrors(h), h)
  BY ClearErrorsType, ErrorsSameCursor DEF TypeOK
<1>2. SameCursor(h', clearErrors(h)) /\ pc' = pc
  BY <1>1 DEF SQLCancel, SameCursor, SameRows, Handles
<1>3. app'.rows = app.rows /\ app'.lost = app.lost /\ app'.fresh = app.fresh
  BY DEF SQLCancel, TypeOK, Applications
<1>4. InRowset' = InRowset
  BY <1>1, <1>2 DEF InRowset, SameCursor, SameRows
<1>5. dm = "fetched" => dm' = "fetched"
  BY DEF SQLCancel
<1> QED
  BY <1>1, <1>2, <1>3, <1>4, <1>5, EndKept DEF SameCursor, SameRows

\* SQL_NO_DATA from SQLFetch is the truth: on a cursor of a statement that is counted from
\* its start, the database has no more rows or the limit was reached.
THEOREM NoDataIsTheEndCorrect == Spec => []NoDataIsTheEnd
<1>1. Init => EndInv
  BY DEF Init, EndInv, EofFetched, SelectBounded, EofAllRead, ToldAtEof, Counted, HasCursor,
         FetchSawNoData, NoOutcome
<1>2. TypeOK /\ TypeOK' /\ RowsInv /\ EndInv /\ [Next]_vars => EndInv'
  <2> SUFFICES ASSUME TypeOK, TypeOK', RowsInv, EndInv, [Next]_vars PROVE EndInv'
    OBVIOUS
  <2>1. CASE Next
    <3>1. ToldAtEof' /\ FetchCounted /\ NotFetched
      BY <2>1, ToldStep DEF RowsInv
    <3> QED
      BY <2>1, <3>1, ExecuteEnd, ExecuteStepEnd, FetchEnd, FetchStepEnd, OtherEnd, CancelEnd
      DEF Next
  <2>2. CASE UNCHANGED vars
    BY <2>2
    DEF vars, EndInv, EofFetched, SelectBounded, EofAllRead, ToldAtEof, Counted, HasCursor,
        FetchSawNoData, Idle, InRowset, AllRead
  <2> QED
    BY <2>1, <2>2
<1>3. EndInv => NoDataIsTheEnd
  BY DEF EndInv, EofAllRead, ToldAtEof, Counted, NoDataIsTheEnd
<1> QED
  BY <1>1, <1>2, <1>3, TypeCorrect, RowsCorrect, PTL DEF Spec

-----------------------------------------------------------------------------
(***************************************************************************)
(* A fetch gets somewhere.                                                 *)
(***************************************************************************)
\* sqlFetch is at work on a cursor only, and never past the application's arrays.
FetchOnCursor == pc = "SQLFetch" => HasCursor(h) /\ h.rowCountPerFetch <= h.rowArraySize

\* A fetch that succeeds, and leaves a cursor, has delivered a row and no more rows than
\* the arrays hold: only where there is no cursor can SQLFetch succeed without a row.
CursorFetchDelivers ==
  ret.call = "SQLFetch" /\ Succeeded(ret.code) /\ HasCursor(h)
    => ret.delivered \in 1 .. h.rowArraySize

\* The application is never told of more rows than the result has.
NoMoreRowsThanThereAre ==
  HasCursor(h) => app.rows + app.lost + InRowset <= h.resultSet.size

\* A step of sqlFetch takes the next row into the next place of the rowset, or ends the
\* call; if the call succeeds the application has the rows it is told of, one at least.
FetchForward ==
  [][ /\ FetchStep /\ pc' = "SQLFetch" =>
           /\ h'.resultSet.left = h.resultSet.left - 1
           /\ h'.rowCountPerFetch = h.rowCountPerFetch + 1
      /\ pc = "SQLFetch" /\ pc' = "idle" /\ Succeeded(ret'.code) =>
           /\ app'.rows = app.rows + ret'.delivered
           /\ ret'.delivered > 0 ]_vars

FetchInv == FetchOnCursor /\ CursorFetchDelivers

LEMMA RowArraySize ==
  ASSUME TypeOK
  PROVE  h.rowCountPerFetch \in Nat /\ h.rowArraySize \in Nat /\ h.rowArraySize > 0
<1>1. h.rowCountPerFetch \in Nat /\ h.rowArraySize \in ArraySizes
  BY DEF TypeOK, Handles
<1>2. h.rowArraySize \in Nat \ {0}
  BY <1>1, AttributesAssumption
<1> QED
  BY <1>1, <1>2

\* A row that is read, as the handle sees it.
LEMMA FetchRowTakes ==
  ASSUME TypeOK, NEW cut \in BOOLEAN, FetchRow(cut)
  PROVE  /\ pc = "SQLFetch" /\ pc' = "SQLFetch" /\ ret' = ret
         /\ HasCursor(h) /\ HasCursor(h')
         /\ h'.rowArraySize = h.rowArraySize
         /\ h.rowCountPerFetch < h.rowArraySize
         /\ h'.rowCountPerFetch = h.rowCountPerFetch + 1
         /\ h'.resultSet.left = h.resultSet.left - 1
<1> DEFINE s == IF cut THEN postError(consume(h), "warning") ELSE consume(h)
<1>1. /\ pc = "SQLFetch" /\ pc' = pc /\ ret' = ret /\ h' = countRow(s)
      /\ h.rowCountPerFetch < h.rowArraySize /\ h.resultSet.left # 0
  BY DEF FetchRow, WantsRow, AtEnd
<1>2. h \in Handles /\ consume(h) \in Handles
  BY <1>1, ConsumeType DEF TypeOK
<1>3. s \in Handles /\ SameRows(s, consume(h))
  BY <1>2, PostErrorType, ErrorsSameRows DEF Diagnostics, SameRows
<1>4. /\ consume(h).resultSet.left = h.resultSet.left - 1
      /\ consume(h).rowCountPerFetch = h.rowCountPerFetch
      /\ consume(h).rowArraySize = h.rowArraySize
      /\ HasCursor(h) /\ HasCursor(consume(h))
  <2>1. /\ HasCursor(h) /\ consume(h).resultSet.left = h.resultSet.left - 1
        /\ consume(h).rowCountPerFetch = h.rowCountPerFetch
    BY <1>1, <1>2, ConsumeRows
  <2>2. h.resultSet \in ResultSets
    BY <1>2, <2>1 DEF HasCursor, Handles
  <2>3. [h.resultSet EXCEPT !.left = h.resultSet.left - 1].owner # "none"
    BY <2>2 DEF ResultSets
  <2>4. consume(h).resultSet = [h.resultSet EXCEPT !.left = h.resultSet.left - 1]
    BY <1>2 DEF consume, Handles
  <2>5. consume(h).rowArraySize = h.rowArraySize
    BY <1>2 DEF consume, Handles
  <2> QED
    BY <2>1, <2>3, <2>4, <2>5 DEF HasCursor, NoResultSet
<1> HIDE DEF s
<1>5. /\ h'.resultSet = s.resultSet /\ h'.rowArraySize = s.rowArraySize
      /\ h'.rowCountPerFetch = s.rowCountPerFetch + 1
  BY <1>1, <1>3 DEF countRow, Handles
<1> QED
  BY <1>1, <1>3, <1>4, <1>5 DEF SameRows, HasCursor

\* What a fetch that ends says of the rows of its rowset.
LEMMA FetchReturns ==
  ASSUME TypeOK, FetchOnCursor, FetchCounted,
         FetchRowFails \/ FetchThrows \/ FetchEnds \/ FetchFull
  PROVE  /\ pc = "SQLFetch" /\ pc' = "idle"
         /\ Succeeded(ret'.code) =>
              /\ h'.rowArraySize = h.rowArraySize
              /\ ret'.delivered \in 1 .. h.rowArraySize
              /\ app'.rows = app.rows + ret'.delivered
<1>1. h \in Handles /\ app \in Applications
  BY DEF TypeOK
<1>2. h.rowCountPerFetch \in Nat /\ h.rowArraySize \in Nat /\ h.rowArraySize > 0
  BY RowArraySize
<1>3. /\ pc = "SQLFetch" /\ pc' = "idle"
  BY DEF FetchRowFails, FetchThrows, FetchEnds, FetchFull, WantsRow, Return
<1>4. h.rowCountPerFetch > 0 => take(app).rows = app.rows + h.rowCountPerFetch
  BY <1>1, <1>3 DEF FetchCounted, take, Applications
<1>5. h.rowCountPerFetch <= h.rowArraySize
  BY <1>3 DEF FetchOnCursor
<1>6. CASE FetchRowFails \/ FetchThrows
  BY <1>3, <1>6 DEF FetchRowFails, FetchThrows, Return, Succeeded
<1>7. CASE FetchEnds
  <2>1. /\ h' = [h EXCEPT !.eof = TRUE] /\ ret'.delivered = h.rowCountPerFetch
        /\ h.rowCountPerFetch > 0 => app' = take(app)
        /\ ~(h.rowCountPerFetch > 0) => ret'.code = "SQL_NO_DATA"
    BY <1>7 DEF FetchEnds, Return
  <2>2. h'.rowArraySize = h.rowArraySize
    BY <1>1, <2>1 DEF Handles
  <2> QED
    BY <1>2, <1>3, <1>4, <1>5, <2>1, <2>2 DEF Succeeded
<1>8. CASE FetchFull
  <2>1. /\ h' = h /\ ret'.delivered = h.rowCountPerFetch /\ app' = take(app)
        /\ h.rowCountPerFetch >= h.rowArraySize
    BY <1>8 DEF FetchFull, Return
  <2> QED
    BY <1>2, <1>3, <1>4, <1>5, <2>1
<1> QED
  BY <1>6, <1>7, <1>8

LEMMA FetchInvStep ==
  ASSUME TypeOK, FetchCounted, FetchInv, Next
  PROVE  FetchInv'
<1>1. ASSUME NEW call, NEW code, NEW s, NEW n, Return(call, code, s, n),
             call # "SQLFetch" \/ ~Succeeded(code) \/ ~HasCursor(s)
      PROVE  FetchInv'
  BY <1>1 DEF Return, FetchInv, FetchOnCursor, CursorFetchDelivers
<1>2. ASSUME pc' # "SQLFetch", ret' = NoOutcome PROVE FetchInv'
  BY <1>2 DEF FetchInv, FetchOnCursor, CursorFetchDelivers, NoOutcome
<1>3. h \in Handles
  BY DEF TypeOK
<1>4. CASE Prepare
  BY <1>1, <1>4 DEF Prepare, SQLPrepare, PrepareFails
<1>5. CASE Execute
  BY <1>1, <1>2, <1>5
  DEF Execute, SQLExecute, SQLExecuteNeedsData, SQLExecuteBadParameter, SQLExecDirect,
      SQLExecDirectDropsResult, SQLParamData, SQLCatalog, Begin
<1>6. CASE ExecuteStep
  <2>1. pc # "SQLFetch" /\ \E code, s : Return(pc, code, s, 0)
    BY <1>6 DEF ExecuteStep, ExecuteReturns, ExecuteThrows, ExecuteCalls
  <2> QED
    BY <1>1, <2>1
<1>7. CASE Fetch
  <2>1. CASE SQLFetchNoCursor
    <3>1. postError(h, "error").resultSet = h.resultSet
      BY <1>3, ErrorsSameRows DEF SameRows
    <3> QED
      BY <1>1, <2>1, <3>1 DEF SQLFetchNoCursor, HasCursor, Succeeded
  <2>2. CASE SQLFetchCanceled
    BY <1>1, <2>2 DEF SQLFetchCanceled, Succeeded
  <2>3. CASE SQLFetch
    <3>1. /\ HasCursor(h) /\ ret' = NoOutcome
          /\ h' = [h EXCEPT !.rowCountPerFetch = 0]
      BY <2>3 DEF SQLFetch, Begin
    <3>2. /\ h'.rowCountPerFetch = 0 /\ h'.resultSet = h.resultSet
          /\ h'.rowArraySize = h.rowArraySize
      BY <1>3, <3>1 DEF Handles
    <3>3. h.rowArraySize \in Nat
      BY RowArraySize
    <3> QED
      BY <3>1, <3>2, <3>3
      DEF FetchInv, FetchOnCursor, CursorFetchDelivers, NoOutcome, HasCursor
  <2> QED
    BY <1>7, <2>1, <2>2, <2>3 DEF Fetch
<1>8. CASE FetchStep
  <2>1. ASSUME NEW cut \in BOOLEAN, FetchRow(cut) PROVE FetchInv'
    <3>1. /\ ret' = ret /\ HasCursor(h) /\ HasCursor(h')
          /\ h'.rowArraySize = h.rowArraySize
          /\ h.rowCountPerFetch < h.rowArraySize
          /\ h'.rowCountPerFetch = h.rowCountPerFetch + 1
      BY <2>1, FetchRowTakes
    <3>2. h.rowCountPerFetch \in Nat /\ h.rowArraySize \in Nat
      BY RowArraySize
    <3> QED
      BY <3>1, <3>2 DEF FetchInv, FetchOnCursor, CursorFetchDelivers
  <2>2. CASE FetchRowFails \/ FetchThrows \/ FetchEnds \/ FetchFull
    BY <2>2, FetchReturns DEF FetchInv, FetchOnCursor, CursorFetchDelivers
  <2> QED
    BY <1>8, <2>1, <2>2 DEF FetchStep
<1>9. CASE Other
  <2>1. CASE Asking
    BY <1>1, <2>1
    DEF Asking, SQLDescribeCol, SQLColAttribute, SQLColAttributes, ColumnField,
        SQLNumResultCols, SQLGetStmtAttr, SetOtherAttribute, Succeeds, Fails
  <2> QED
    BY <1>1, <1>9, <2>1
    DEF Other, SQLMoreResults, SQLCloseCursor, SQLFreeStmt, SetMaxRows, SetRowArraySize,
        SQLError
<1>10. CASE SQLCancel
  <2>1. h' = [clearErrors(h) EXCEPT !.cancel = TRUE] /\ pc' = pc /\ ret' = NoOutcome
    BY <1>10 DEF SQLCancel
  <2>2. clearErrors(h) \in Handles /\ SameRows(clearErrors(h), h)
    BY <1>3, ClearErrorsType, ErrorsSameRows
  <2>3. /\ h'.resultSet = h.resultSet /\ h'.rowCountPerFetch = h.rowCountPerFetch
        /\ h'.rowArraySize = h.rowArraySize
    BY <2>1, <2>2 DEF SameRows, Handles
  <2> QED
    BY <2>1, <2>3 DEF FetchInv, FetchOnCursor, CursorFetchDelivers, HasCursor, NoOutcome
<1> QED
  BY <1>4, <1>5, <1>6, <1>7, <1>8, <1>9, <1>10 DEF Next

LEMMA FetchCorrect == Spec => []FetchInv
<1>1. Init => FetchInv
  BY DEF Init, FetchInv, FetchOnCursor, CursorFetchDelivers, NoOutcome
<1>2. TypeOK /\ RowsInv /\ FetchInv /\ [Next]_vars => FetchInv'
  <2>1. UNCHANGED vars /\ FetchInv => FetchInv'
    BY DEF vars, FetchInv, FetchOnCursor, CursorFetchDelivers, HasCursor
  <2> QED
    BY <2>1, FetchInvStep DEF RowsInv
<1> QED
  BY <1>1, <1>2, TypeCorrect, RowsCorrect, PTL DEF Spec

\* SQLFetch that succeeds on a cursor has delivered at least one row and at most a
\* rowset: what SucceededFetchDelivers claims of every fetch holds wherever there is a
\* cursor, so its counterexample is the only kind there is.
THEOREM CursorFetchDeliversCorrect == Spec => [](FetchOnCursor /\ CursorFetchDelivers)
<1>1. FetchInv => FetchOnCursor /\ CursorFetchDelivers
  BY DEF FetchInv
<1> QED
  BY <1>1, FetchCorrect, PTL

\* Each step of sqlFetch uses up a row of the cursor or ends the call, each call that
\* succeeds gives the application a row more, and there are only as many as the result
\* has: a loop of SQLFetch cannot go on for longer than that.
THEOREM FetchForwardCorrect == Spec => FetchForward /\ []NoMoreRowsThanThereAre
<1>1. TypeOK /\ RowsInv => NoMoreRowsThanThereAre
  <2> SUFFICES ASSUME TypeOK, NoRowLost, HasCursor(h)
               PROVE  app.rows + app.lost + InRowset <= h.resultSet.size
    BY DEF RowsInv, NoMoreRowsThanThereAre
  <2>1. h.resultSet \in ResultSets
    BY DEF TypeOK, Handles, HasCursor
  <2>2. h.resultSet.size \in Nat /\ h.resultSet.left \in Nat
    BY <2>1 DEF ResultSets
  <2>3. app.rows \in Nat /\ app.lost \in Nat /\ InRowset \in Nat
    BY RowArraySize DEF TypeOK, Applications, InRowset
  <2> QED
    BY <2>2, <2>3 DEF NoRowLost
<1> DEFINE Forward ==
             /\ FetchStep /\ pc' = "SQLFetch" =>
                  /\ h'.resultSet.left = h.resultSet.left - 1
                  /\ h'.rowCountPerFetch = h.rowCountPerFetch + 1
             /\ pc = "SQLFetch" /\ pc' = "idle" /\ Succeeded(ret'.code) =>
                  /\ app'.rows = app.rows + ret'.delivered
                  /\ ret'.delivered > 0
<1>2. TypeOK /\ RowsInv /\ FetchInv /\ [Next]_vars => [Forward]_vars
  <2> SUFFICES ASSUME TypeOK, FetchCounted, FetchOnCursor, Next PROVE Forward
    BY DEF RowsInv, FetchInv
  <2>1. ASSUME NEW cut \in BOOLEAN, FetchRow(cut) PROVE Forward
    BY <2>1, FetchRowTakes
  <2>2. CASE FetchRowFails \/ FetchThrows \/ FetchEnds \/ FetchFull
    BY <2>2, FetchReturns, RowArraySize
  <2>3. CASE ~FetchStep
    <3>1. ~(pc = "SQLFetch" /\ pc' = "idle")
      <4>1. CASE Asking
        BY <4>1
        DEF Asking, SQLDescribeCol, SQLColAttribute, SQLColAttributes, ColumnField,
            SQLNumResultCols, SQLGetStmtAttr, SetOtherAttribute, MayDescribe, Idle
      <4>2. CASE Prepare \/ Execute \/ Fetch
        BY <4>2
        DEF Prepare, SQLPrepare, PrepareFails, Execute, SQLExecute, SQLExecuteNeedsData,
            SQLExecuteBadParameter, SQLExecDirect, SQLExecDirectDropsResult, SQLParamData,
            SQLCatalog, Fetch, SQLFetchNoCursor, SQLFetchCanceled, SQLFetch, MayExecute,
            MayRead, Idle
      <4>3. CASE ExecuteStep \/ SQLCancel
        BY <4>3 DEF ExecuteStep, ExecuteReturns, ExecuteThrows, ExecuteCalls, SQLCancel
      <4>4. CASE Other
        BY <4>1, <4>4
        DEF Other, SQLMoreResults, SQLCloseCursor, SQLFreeStmt, SetMaxRows,
            SetRowArraySize, SQLError, MayRead, Idle
      <4> QED
        BY <2>3, <4>2, <4>3, <4>4 DEF Next
    <3> QED
      BY <2>3, <3>1
  <2> QED
    BY <2>1, <2>2, <2>3 DEF FetchStep
<1> QED
  BY <1>1, <1>2, TypeCorrect, RowsCorrect, FetchCorrect, PTL DEF Spec, FetchForward
-----------------------------------------------------------------------------
(***************************************************************************)
(* SQLExecDirect.                                                          *)
(***************************************************************************)
\* SQLExecDirect works on a handle it has cleared, and a success of which nothing was
\* executed leaves nothing to read: no result of an earlier execution passes for its own.
NoCursorMeanwhile == pc = "SQLExecDirect" => ~HasCursor(h)
CursorOfExecDirect ==
  ret.call = "SQLExecDirect" /\ Succeeded(ret.code) /\ Idle /\ HasCursor(h) => srv.executed

DirectInv == NoCursorMeanwhile /\ CursorOfExecDirect

LEMMA ExecuteDirect ==
  ASSUME TypeOK, Prepare \/ Execute
  PROVE  DirectInv'
<1>1. ASSUME NEW call, NEW code, NEW s, NEW n, Return(call, code, s, n),
             call # "SQLExecDirect" \/ ~Succeeded(code) \/ ~HasCursor(s)
      PROVE  DirectInv'
  BY <1>1 DEF Return, DirectInv, NoCursorMeanwhile, CursorOfExecDirect
<1>2. ASSUME NEW call, NEW s, Begin(call, s), call # "SQLExecDirect" \/ ~HasCursor(s),
             call # "idle"
      PROVE  DirectInv'
  BY <1>2 DEF Begin, DirectInv, NoCursorMeanwhile, CursorOfExecDirect, Idle
<1>3. h \in Handles
  BY DEF TypeOK
<1>4. CASE Prepare
  BY <1>1, <1>4 DEF Prepare, SQLPrepare, PrepareFails, Succeeded
<1>5. ASSUME NEW kind \in Kinds, SQLExecDirect(kind) PROVE DirectInv'
  <2>1. ~HasCursor(prepareStatement(h, kind))
    BY <1>3, PrepareStatementGone DEF HasCursor
  <2> QED
    BY <1>2, <1>5, <2>1 DEF SQLExecDirect
<1>6. ASSUME NEW kind \in Kinds, SQLExecDirectDropsResult(kind) PROVE DirectInv'
  <2> DEFINE t == prepareStatement(h, kind)
  <2>1. t \in Handles /\ t.resultSet = NoResultSet
    BY <1>3, PrepareStatementType, PrepareStatementGone
  <2>2. postError(t, "error").resultSet = NoResultSet
    BY <2>1, ErrorsSameRows DEF SameRows
  <2>3. PICK s \in {t, postError(t, "error")} : Return("SQLExecDirect", "SQL_SUCCESS", s, 0)
    BY <1>6 DEF SQLExecDirectDropsResult
  <2> HIDE DEF t
  <2>4. ~HasCursor(s)
    BY <2>1, <2>2, <2>3 DEF HasCursor
  <2> QED
    BY <1>1, <2>3, <2>4
<1>7. CASE SQLExecute \/ SQLParamData
  BY <1>2, <1>7 DEF SQLExecute, SQLParamData
<1>8. CASE SQLExecuteNeedsData \/ SQLExecuteBadParameter
  BY <1>1, <1>8 DEF SQLExecuteNeedsData, SQLExecuteBadParameter
<1>9. ASSUME NEW n \in CatalogSizes, SQLCatalog(n) PROVE DirectInv'
  BY <1>1, <1>9 DEF SQLCatalog
<1> QED
  BY <1>4, <1>5, <1>6, <1>7, <1>8, <1>9 DEF Execute

LEMMA ExecuteStepDirect ==
  ASSUME TypeOK, DirectInv, ExecuteStep
  PROVE  DirectInv'
<1>1. pc' = "idle" /\ NoCursorMeanwhile'
  BY DEF ExecuteStep, ExecuteReturns, ExecuteThrows, Return, NoCursorMeanwhile
<1>2. ASSUME NEW answer \in Answers(h.statement), NEW cut \in BOOLEAN,
             ExecuteReturns(answer, cut), ret'.call = "SQLExecDirect", HasCursor(h')
      PROVE  srv'.executed
  <2> DEFINE s == outputParameters(h, cut)
             d == [results |-> answer.results, keys |-> answer.keys,
                   keysGiven |-> FALSE, executed |-> TRUE]
  <2>1. srv' = IF answer.results # << >> THEN afterGetResultSet(s, d) ELSE d
    BY <1>2 DEF ExecuteReturns
  <2>2. d.executed /\ afterGetResultSet(s, d).executed
    BY DEF afterGetResultSet
  <2> HIDE DEF s, d
  <2> QED
    BY <2>1, <2>2
<1>3. ExecuteThrows => ~Succeeded(ret'.code)
  BY DEF ExecuteThrows, Return, Succeeded
<1> QED
  BY <1>1, <1>2, <1>3 DEF ExecuteStep, DirectInv, CursorOfExecDirect

LEMMA OthersDirect ==
  ASSUME TypeOK, DirectInv, Fetch \/ FetchStep \/ Other \/ SQLCancel
  PROVE  DirectInv'
<1>1. ASSUME NEW call, NEW code, NEW s, NEW n, Return(call, code, s, n),
             call # "SQLExecDirect"
      PROVE  DirectInv'
  BY <1>1 DEF Return, DirectInv, NoCursorMeanwhile, CursorOfExecDirect
<1>2. ASSUME pc' = "SQLFetch" PROVE DirectInv'
  BY <1>2 DEF DirectInv, NoCursorMeanwhile, CursorOfExecDirect, Idle
<1>3. CASE Fetch
  BY <1>1, <1>2, <1>3 DEF Fetch, SQLFetchNoCursor, SQLFetchCanceled, SQLFetch, Begin
<1>4. CASE FetchStep
  BY <1>1, <1>2, <1>4
  DEF FetchStep, FetchRow, WantsRow, FetchRowFails, FetchThrows, FetchEnds, FetchFull
<1>5. CASE Other
  <2>1. CASE Asking
    BY <1>1, <2>1
    DEF Asking, SQLDescribeCol, SQLColAttribute, SQLColAttributes, ColumnField,
        SQLNumResultCols, SQLGetStmtAttr, SetOtherAttribute, Succeeds, Fails
  <2> QED
    BY <1>1, <1>5, <2>1
    DEF Other, SQLMoreResults, SQLCloseCursor, SQLFreeStmt, SetMaxRows, SetRowArraySize,
        SQLError
<1>6. CASE SQLCancel
  <2>1. h' = [clearErrors(h) EXCEPT !.cancel = TRUE] /\ pc' = pc /\ ret' = NoOutcome
    BY <1>6 DEF SQLCancel
  <2>2. h \in Handles /\ clearErrors(h) \in Handles /\ SameRows(clearErrors(h), h)
    BY ClearErrorsType, ErrorsSameRows DEF TypeOK
  <2>3. h'.resultSet = h.resultSet
    BY <2>1, <2>2 DEF SameRows, Handles
  <2> QED
    BY <2>1, <2>3
    DEF DirectInv, NoCursorMeanwhile, CursorOfExecDirect, HasCursor, NoOutcome
<1> QED
  BY <1>3, <1>4, <1>5, <1>6

\* A cursor that SQLExecDirect leaves with success is of a statement it executed: where it
\* reports a success without executing anything, there is no cursor at all.
THEOREM CursorOfExecDirectCorrect == Spec => []CursorOfExecDirect
<1>1. Init => DirectInv
  BY DEF Init, DirectInv, NoCursorMeanwhile, CursorOfExecDirect, NoOutcome
<1>2. TypeOK /\ DirectInv /\ [Next]_vars => DirectInv'
  <2>1. UNCHANGED vars /\ DirectInv => DirectInv'
    BY DEF vars, DirectInv, NoCursorMeanwhile, CursorOfExecDirect, HasCursor, Idle
  <2> QED
    BY <2>1, ExecuteDirect, ExecuteStepDirect, OthersDirect DEF Next
<1>3. DirectInv => CursorOfExecDirect
  BY DEF DirectInv
<1> QED
  BY <1>1, <1>2, <1>3, TypeCorrect, PTL DEF Spec
=============================================================================
