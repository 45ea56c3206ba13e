------------------------------ MODULE ParamData ------------------------------
(***************************************************************************)
(* The parameters of a prepared statement: binding them, executing with    *)
(* them, and handing over the data of some while the statement executes:   *)
(* SQLExecute answers SQL_NEED_DATA, SQLParamData names the next parameter *)
(* that needs data and executes when none does, SQLPutData brings a piece  *)
(* for the one it named.                                                   *)
(*                                                                         *)
(* Of data the model keeps how many bytes there are and from which         *)
(* execution.  phase is the state in which the driver manager holds the    *)
(* statement: it lets SQLParamData and SQLPutData through in their order,  *)
(* and nothing else but SQLCancel until the sequence is over.              *)
(***************************************************************************)
EXTENDS Integers, Sequences, FiniteSets

CONSTANTS
  NumParams,    \* parameters a statement may have
  CType,        \* the C type each is bound with
  Indicators,   \* what the application may put into its indicator
  Pieces,       \* the lengths it may pass to SQLPutData
  StringLength  \* the length of a piece whose end is marked by a zero

Params == 1 .. NumParams

SQL_NULL_DATA == -1
SQL_DATA_AT_EXEC == -2
SQL_NTS == -3
SQL_LEN_DATA_AT_EXEC_OFFSET == -100

\* The indicator that announces n bytes of data at execution.
SQL_LEN_DATA_AT_EXEC(n) == SQL_LEN_DATA_AT_EXEC_OFFSET - n

ASSUME NumParamsAssumption == NumParams \in Nat \ {0} /\ StringLength \in Nat
ASSUME CTypeAssumption == CType \in [Params -> {"char", "fixed", "unsupported"}]
ASSUME IndicatorsAssumption ==
  Indicators \in [Params -> SUBSET {i \in Int : i >= -2 \/ i < SQL_LEN_DATA_AT_EXEC_OFFSET}]
ASSUME PiecesAssumption == Pieces \in [Params -> SUBSET (Nat \cup {SQL_NULL_DATA, SQL_NTS})]

VARIABLES
  parameters,          \* the vector of bindings
  currentPutDataParam, \* the parameter SQLParamData is at
  statement,           \* the parameters of the statement in the database: how
                       \* many it has, and what was set
  phase,               \* what the driver manager lets through
  app,                 \* this execution of the application: its number (0 or 1
                       \* by turns), the indicators, and what it gave
  ret                  \* the last call that returned

vars == <<parameters, currentPutDataParam, statement, phase, app, ret>>

-----------------------------------------------------------------------------
(***************************************************************************)
(* Values and bindings.                                                    *)
(***************************************************************************)
Turns == {0, 1}

\* A value: from which executions its bytes are, and how many there are.
Value == [turns : SUBSET Turns, bytes : Nat, null : BOOLEAN]
Unset == [turns |-> {}, bytes |-> 0, null |-> FALSE]
Null == [turns |-> {}, bytes |-> 0, null |-> TRUE]
Data(turn, n) == [turns |-> {turn}, bytes |-> n, null |-> FALSE]

append(v, w) == [turns |-> v.turns \cup w.turns, bytes |-> v.bytes + w.bytes, null |-> FALSE]

Lesser(a, b) == IF a <= b THEN a ELSE b
Greater(a, b) == IF a <= b THEN b ELSE a

Binding == [type : {"none", "input", "output"}, dataAtExecLength : Nat \cup {SQL_DATA_AT_EXEC},
            count : 0 .. 1, accumulator : Value]
NoBinding == [type |-> "none", dataAtExecLength |-> 0, count |-> 0, accumulator |-> Unset]

\* Mutant of reset: the pieces of the execution before still count.
resetKeepsCount(b) == [b EXCEPT !.dataAtExecLength = 0]

\* The code tests count only for zero: 1 stands for every other count.
reset(b) == [b EXCEPT !.dataAtExecLength = 0, !.count = 0]

\* setParameter with a value: what is in the accumulator afterwards, and what
\* the database is given.
accumulated(n, b, v, forceReset) ==
  IF v.null \/ CType[n] # "char" THEN b.accumulator
  ELSE IF forceReset THEN v ELSE append(b.accumulator, v)
valueSet(n, b, v, forceReset) ==
  IF v.null \/ CType[n] # "char" THEN v ELSE accumulated(n, b, v, forceReset)
Refused(n, v) == CType[n] = "unsupported" /\ ~v.null

-----------------------------------------------------------------------------
(***************************************************************************)
(* Binding and preparing.                                                  *)
(***************************************************************************)
Idle == phase = "idle"

Return(call, code, executed) ==
  ret' = [call |-> call, code |-> code, executed |-> executed]

NothingGiven(turn) ==
  [turn |-> turn, indicator |-> [n \in Params |-> 0],
   given |-> [n \in Params |-> Unset], complete |-> Params]

Init ==
  /\ parameters = << >>
  /\ currentPutDataParam = 0
  /\ statement = [count |-> NumParams, values |-> [n \in Params |-> Unset]]
  /\ phase = "idle"
  /\ app = NothingGiven(0)
  /\ ret = [call |-> "SQLPrepare", code |-> "SQL_SUCCESS", executed |-> FALSE]

\* Another text: the bindings stay.
SQLPrepare(n) ==
  /\ Idle
  /\ statement' = [count |-> n, values |-> [m \in Params |-> Unset]]
  /\ app' = NothingGiven(app.turn)
  /\ Return("SQLPrepare", "SQL_SUCCESS", FALSE)
  /\ UNCHANGED <<parameters, currentPutDataParam, phase>>

SQLBindParameter(n, type) ==
  LET needed == IF n > Len(parameters) THEN Greater(n, statement.count) ELSE Len(parameters)
  IN  /\ Idle
      /\ parameters' = [m \in 1 .. needed |->
           LET b == IF m <= Len(parameters) THEN parameters[m] ELSE NoBinding
           IN  IF m = n THEN [b EXCEPT !.type = type] ELSE b]
      /\ app' = NothingGiven(app.turn)
      /\ Return("SQLBindParameter", "SQL_SUCCESS", FALSE)
      /\ UNCHANGED <<currentPutDataParam, statement, phase>>

\* SQLFreeStmt with SQL_RESET_PARAMS.
ResetParams ==
  /\ Idle
  /\ parameters' = << >>
  /\ app' = NothingGiven(app.turn)
  /\ Return("SQLFreeStmt", "SQL_SUCCESS", FALSE)
  /\ UNCHANGED <<currentPutDataParam, statement, phase>>

-----------------------------------------------------------------------------
(***************************************************************************)
(* Executing.                                                              *)
(***************************************************************************)
\* The parameters that executeStatement sets.
inputs == {n \in 1 .. Lesser(statement.count, Len(parameters)) : parameters[n].type # "output"}

AtExec(n, i) ==
  /\ parameters[n].type = "input"
  /\ i = SQL_DATA_AT_EXEC \/ i <= SQL_LEN_DATA_AT_EXEC_OFFSET
dataAtExecLength(n, i) ==
  IF ~AtExec(n, i) THEN 0
  ELSE IF i = SQL_DATA_AT_EXEC THEN i ELSE SQL_LEN_DATA_AT_EXEC_OFFSET - i

\* The value behind a binding that is not set at execution; a parameter nobody
\* bound has no pointer.
boundValue(n, i, turn) ==
  IF parameters[n].type = "none" \/ i = SQL_NULL_DATA THEN Null ELSE Data(turn, i)

\* The inputs one after another, as far as none is refused.
refused(ind) == {n \in inputs : ~AtExec(n, ind[n]) /\ Refused(n, boundValue(n, ind[n], 0))}
reached(ind) == {n \in inputs : \A m \in refused(ind) : n < m}

\* The loop of executeStatement over the bindings.
setParameters(ind) ==
  LET turn == 1 - app.turn
      value(n) == boundValue(n, ind[n], turn)
      direct == {n \in reached(ind) : ~AtExec(n, ind[n])}
      after(n) == LET b == reset(parameters[n]) IN
        IF n \in direct THEN [b EXCEPT !.accumulator = accumulated(n, b, value(n), TRUE)]
        ELSE IF n \in reached(ind) THEN [b EXCEPT !.dataAtExecLength = dataAtExecLength(n, ind[n])]
        ELSE b
  IN  /\ currentPutDataParam' = 1
      /\ parameters' = [n \in DOMAIN parameters |-> after(n)]
      /\ statement' = [statement EXCEPT !.values = [n \in Params |->
           IF n \in direct THEN valueSet(n, parameters[n], value(n), TRUE) ELSE @[n]]]
      /\ app' = [turn |-> turn, indicator |-> ind,
                 given |-> [n \in Params |-> IF n \in direct THEN value(n) ELSE Unset],
                 complete |-> {n \in Params : n \notin inputs \/ ~AtExec(n, ind[n])}]

Results == {"SQL_SUCCESS", "SQL_ERROR"}

\* doExecuteStatement: the database executes, or throws.
doExecuteStatement(call) ==
  /\ phase' = "idle"
  /\ \E code \in Results : Return(call, code, code = "SQL_SUCCESS")

\* A parameter of a type the driver cannot set.
SQLExecuteRefused(ind) ==
  /\ Idle
  /\ refused(ind) # {}
  /\ setParameters(ind)
  /\ Return("SQLExecute", "SQL_ERROR", FALSE)
  /\ UNCHANGED phase

SQLExecuteNeedsData(ind) ==
  /\ Idle
  /\ refused(ind) = {}
  /\ \E n \in inputs : AtExec(n, ind[n])
  /\ setParameters(ind)
  /\ phase' = "need"
  /\ Return("SQLExecute", "SQL_NEED_DATA", FALSE)

SQLExecute(ind) ==
  /\ Idle
  /\ refused(ind) = {}
  /\ ~ \E n \in inputs : AtExec(n, ind[n])
  /\ setParameters(ind)
  /\ doExecuteStatement("SQLExecute")

-----------------------------------------------------------------------------
(***************************************************************************)
(* Data at execution.                                                      *)
(***************************************************************************)
waiting(n) == parameters[n].dataAtExecLength # 0

\* Mutant of Waiting: the place is moved on before it is looked at.
WaitingBehind == {n \in currentPutDataParam + 1 .. Len(parameters) : waiting(n)}

Waiting == {n \in currentPutDataParam .. Len(parameters) : waiting(n)}

\* SQLParamData names the next parameter that needs data.
SQLParamDataAsks ==
  /\ phase \in {"need", "can"}
  /\ \E n \in Waiting :
       /\ \A m \in Waiting : n <= m
       /\ currentPutDataParam' = n
  /\ phase' = "must"
  /\ Return("SQLParamData", "SQL_NEED_DATA", FALSE)
  /\ UNCHANGED <<parameters, statement, app>>

SQLParamDataExecutes ==
  /\ phase \in {"need", "can"}
  /\ Waiting = {}
  /\ currentPutDataParam' = Greater(currentPutDataParam, Len(parameters) + 1)
  /\ doExecuteStatement("SQLParamData")
  /\ UNCHANGED <<parameters, statement, app>>

\* SQLPutData for a parameter that has all its data: the driver manager ends the
\* sequence with the error.
SQLPutDataUnasked ==
  /\ phase \in {"must", "can"}
  /\ ~waiting(currentPutDataParam)
  /\ phase' = "idle"
  /\ Return("SQLPutData", "SQL_ERROR", FALSE)
  /\ UNCHANGED <<parameters, currentPutDataParam, statement, app>>

remainingLength(b, length) ==
  IF b.dataAtExecLength = SQL_DATA_AT_EXEC THEN length ELSE b.dataAtExecLength
setParamLength(b, length) ==
  IF length = SQL_NTS THEN SQL_NTS ELSE Lesser(remainingLength(b, length), length)

\* Mutants of lengthLeft: any piece is the last; what was passed counts and not
\* what was copied; nothing is counted.
lengthLeftNone(b, length) == 0
lengthLeftPassed(b, length) ==
  IF length = SQL_NTS THEN 0 ELSE remainingLength(b, length) - length
lengthLeftUncounted(b, length) ==
  IF length = SQL_NTS THEN 0 ELSE remainingLength(b, length)

\* How much is still to come after a piece.
lengthLeft(b, length) ==
  IF length = SQL_NTS THEN 0 ELSE remainingLength(b, length) - setParamLength(b, length)

pieceValue(length) ==
  IF length = SQL_NULL_DATA THEN Null
  ELSE Data(app.turn, IF length = SQL_NTS THEN StringLength ELSE length)

\* What the application gave, as it counts: it announced a length, and what goes
\* beyond is cut off with a warning.
gave(n, length) ==
  LET all == IF length = SQL_NULL_DATA \/ CType[n] # "char" THEN pieceValue(length)
             ELSE append(app.given[n], pieceValue(length))
      announced == SQL_LEN_DATA_AT_EXEC_OFFSET - app.indicator[n]
  IN  IF length = SQL_NTS \/ announced < 0 THEN all
      ELSE [all EXCEPT !.bytes = Lesser(@, announced)]
gaveAll(n, length) ==
  \/ length = SQL_NTS
  \/ app.indicator[n] = SQL_DATA_AT_EXEC
  \/ app.given[n].bytes + length >= SQL_LEN_DATA_AT_EXEC_OFFSET - app.indicator[n]

\* SQLPutData with a piece for the parameter SQLParamData named.
SQLPutData(length) ==
  LET n == currentPutDataParam
      b == parameters[n]
      copied == setParamLength(b, length)
      v == pieceValue(copied)
      stored == [b EXCEPT !.count = 1, !.dataAtExecLength = lengthLeft(b, length),
                          !.accumulator = accumulated(n, b, v, b.count = 0)]
      code == IF copied < length THEN "SQL_SUCCESS_WITH_INFO"
              ELSE IF Refused(n, v) THEN "SQL_ERROR" ELSE "SQL_SUCCESS"
  IN  /\ phase \in {"must", "can"}
      /\ waiting(n)
      /\ parameters' = [parameters EXCEPT ![n] = stored]
      /\ statement' = IF Refused(n, v) THEN statement
                      ELSE [statement EXCEPT !.values[n] = valueSet(n, b, v, b.count = 0)]
      /\ app' = [app EXCEPT !.given[n] = gave(n, length),
                            !.complete = IF gaveAll(n, length) THEN @ \cup {n} ELSE @]
      /\ phase' = IF code = "SQL_ERROR" THEN "idle" ELSE "can"
      /\ Return("SQLPutData", code, FALSE)
      /\ UNCHANGED currentPutDataParam

\* SQLCancel ends the sequence for the driver manager; the driver keeps its place.
SQLCancel ==
  /\ ~Idle
  /\ phase' = "idle"
  /\ app' = NothingGiven(app.turn)
  /\ Return("SQLCancel", "SQL_SUCCESS", FALSE)
  /\ UNCHANGED <<parameters, currentPutDataParam, statement>>

-----------------------------------------------------------------------------
IndicatorChoices == {f \in [Params -> UNION {Indicators[n] : n \in Params}] :
                       \A n \in Params : f[n] \in Indicators[n]}

BindOrPrepare ==
  \/ \E n \in 0 .. NumParams : SQLPrepare(n)
  \/ \E n \in Params, type \in {"input", "output"} : SQLBindParameter(n, type)
  \/ ResetParams

Next ==
  \/ BindOrPrepare
  \/ \E ind \in IndicatorChoices :
       SQLExecuteRefused(ind) \/ SQLExecuteNeedsData(ind) \/ SQLExecute(ind)
  \/ SQLParamDataAsks
  \/ SQLParamDataExecutes
  \/ SQLPutDataUnasked
  \/ \E n \in Params : /\ n = currentPutDataParam
                       /\ \E length \in Pieces[n] : SQLPutData(length)
  \/ SQLCancel

Spec == Init /\ [][Next]_vars

\* The loop of an application: it brings data when asked, and asks again.
PutSome ==
  \E n \in Params : /\ n = currentPutDataParam
                    /\ \E length \in Pieces[n] : length > 0 /\ SQLPutData(length)
FairSpec ==
  /\ Spec
  /\ WF_vars(SQLParamDataAsks \/ SQLParamDataExecutes)
  /\ WF_vars(PutSome)

-----------------------------------------------------------------------------
(***************************************************************************)
(* Properties.                                                             *)
(***************************************************************************)
\* Every variable has its type.
TypeOK ==
  /\ parameters \in Seq(Binding) /\ Len(parameters) <= NumParams
  /\ currentPutDataParam \in 0 .. NumParams + 1
  /\ statement \in [count : 0 .. NumParams, values : [Params -> Value]]
  /\ phase \in {"idle", "need", "must", "can"}
  /\ app \in [turn : Turns, indicator : [Params -> Int], given : [Params -> Value],
              complete : SUBSET Params]
  /\ ret \in [call : {"SQLPrepare", "SQLBindParameter", "SQLFreeStmt", "SQLExecute",
                      "SQLParamData", "SQLPutData", "SQLCancel"},
              code : {"SQL_SUCCESS", "SQL_SUCCESS_WITH_INFO", "SQL_NEED_DATA", "SQL_ERROR"},
              executed : BOOLEAN]

\* The database executes with what the application gave in this execution: each
\* bound input whole, in order, and with no byte left from an execution before,
\* whether that one ended, failed or was cancelled in the middle.
ExecutedWithGiven ==
  ret.executed => \A n \in inputs : /\ app.given[n] # Unset
                                    /\ statement.values[n] = app.given[n]

\* The statement is executed only when every parameter has all the data that was
\* announced for it: SQLParamData asks for the rest of a value again.
ExecutedWhenComplete == ret.executed => inputs \subseteq app.complete

\* While the application owes data, SQLParamData stands at a parameter of this
\* statement, and those before it are done; getBinding(n) is never null.
PlaceOfParamData ==
  phase # "idle" =>
    /\ currentPutDataParam \in 1 .. Len(parameters)
    /\ phase \in {"must", "can"} => currentPutDataParam \in inputs
    /\ \A n \in inputs : n < currentPutDataParam => n \in app.complete

\* The loop of an application that brings data whenever SQLParamData asks comes
\* to its end.
ParameterLoopEnds == phase = "need" ~> phase = "idle"
=============================================================================
