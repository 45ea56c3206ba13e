--------------------------- MODULE ParamDataProofs ---------------------------
(***************************************************************************)
(* Theorems about ParamData: its types, the place of SQLParamData, and     *)
(* that the database executes with what the application gave, complete.    *)
(***************************************************************************)
EXTENDS ParamData, SequenceTheorems, TLAPS

\* A length is announced for text and bytes only, and a null piece is no part of what
\* was announced: with anything else the code does not execute what it was given.
Announcing ==
  \A n \in Params : (\E i \in Indicators[n] : i < SQL_LEN_DATA_AT_EXEC_OFFSET)
                      => CType[n] = "char" /\ SQL_NULL_DATA \notin Pieces[n]

-----------------------------------------------------------------------------
(***************************************************************************)
(* Values.                                                                 *)
(***************************************************************************)
LEMMA ConstantsType ==
  /\ NumParams \in Nat /\ NumParams > 0 /\ StringLength \in Nat
  /\ Params = 1 .. NumParams
  /\ SQL_NULL_DATA = -1 /\ SQL_DATA_AT_EXEC = -2 /\ SQL_NTS = -3
  /\ SQL_LEN_DATA_AT_EXEC_OFFSET = -100
BY NumParamsAssumption DEF Params, SQL_NULL_DATA, SQL_DATA_AT_EXEC, SQL_NTS,
                           SQL_LEN_DATA_AT_EXEC_OFFSET

LEMMA LesserGreater ==
  ASSUME NEW a \in Int, NEW b \in Int
  PROVE  /\ Lesser(a, b) \in {a, b} /\ Lesser(a, b) <= a /\ Lesser(a, b) <= b
         /\ Greater(a, b) \in {a, b} /\ Greater(a, b) >= a /\ Greater(a, b) >= b
BY DEF Lesser, Greater

LEMMA ValueType ==
  /\ Unset \in Value /\ Null \in Value /\ Null # Unset
  /\ Unset.null = FALSE /\ Null.null = TRUE
  /\ \A turn \in Turns, n \in Nat :
       /\ Data(turn, n) \in Value /\ Data(turn, n) # Unset
       /\ Data(turn, n).null = FALSE /\ Data(turn, n).bytes = n
       /\ Data(turn, n).turns = {turn}
<1>1. /\ Unset \in Value /\ Null \in Value
      /\ Unset.null = FALSE /\ Null.null = TRUE /\ Unset.turns = {}
  BY DEF Unset, Null, Value
<1>2. ASSUME NEW turn \in Turns, NEW n \in Nat
      PROVE  /\ Data(turn, n) \in Value
             /\ Data(turn, n).null = FALSE /\ Data(turn, n).bytes = n
             /\ Data(turn, n).turns = {turn}
  BY DEF Data, Value
<1>3. ASSUME NEW turn \in Turns, NEW n \in Nat
      PROVE  Data(turn, n) # Unset
  BY <1>1, <1>2
<1> QED
  BY <1>1, <1>2, <1>3

LEMMA AppendType ==
  ASSUME NEW v \in Value, NEW w \in Value
  PROVE  /\ append(v, w) \in Value
         /\ append(v, w).null = FALSE
         /\ append(v, w).bytes = v.bytes + w.bytes
         /\ append(v, w).turns = v.turns \cup w.turns
         /\ v = Unset /\ w.null = FALSE => append(v, w) = w
<1>1. /\ v.turns \in SUBSET Turns /\ w.turns \in SUBSET Turns
      /\ v.bytes \in Nat /\ w.bytes \in Nat
  BY DEF Value
<1>2. v.bytes + w.bytes \in Nat /\ v.turns \cup w.turns \in SUBSET Turns
  BY <1>1
<1>3. /\ append(v, w) \in Value
      /\ append(v, w).null = FALSE
      /\ append(v, w).bytes = v.bytes + w.bytes
      /\ append(v, w).turns = v.turns \cup w.turns
  BY <1>2 DEF append, Value
<1>4. ASSUME v = Unset, w.null = FALSE
      PROVE  append(v, w) = w
  <2>1. w = [turns |-> w.turns, bytes |-> w.bytes, null |-> FALSE]
    BY <1>4 DEF Value
  <2>2. v.turns = {} /\ v.bytes = 0
    BY <1>4 DEF Unset
  <2>3. v.turns \cup w.turns = w.turns /\ v.bytes + w.bytes = w.bytes
    BY <1>1, <2>2
  <2> QED
    BY <2>1, <2>3 DEF append
<1> QED
  BY <1>3, <1>4

LEMMA AccumulatedType ==
  ASSUME NEW n \in Params, NEW b \in Binding, NEW v \in Value, NEW r \in BOOLEAN
  PROVE  /\ accumulated(n, b, v, r) \in Value
         /\ valueSet(n, b, v, r) \in Value
         /\ r = TRUE => valueSet(n, b, v, r) = v
         /\ CType[n] # "char" \/ v.null => valueSet(n, b, v, r) = v
         /\ CType[n] = "char" /\ ~v.null =>
              /\ valueSet(n, b, v, r) = accumulated(n, b, v, r)
              /\ accumulated(n, b, v, r) = IF r THEN v ELSE append(b.accumulator, v)
<1>1. b.accumulator \in Value
  BY DEF Binding
<1>2. append(b.accumulator, v) \in Value
  BY <1>1, AppendType
<1> QED
  BY <1>1, <1>2 DEF accumulated, valueSet

\* A binding, and what the handlers change of it.
LEMMA BindingType ==
  ASSUME NEW b \in Binding
  PROVE  /\ b.type \in {"none", "input", "output"}
         /\ b.dataAtExecLength \in Nat \cup {-2}
         /\ b.count \in {0, 1} /\ b.accumulator \in Value
         /\ reset(b) \in Binding /\ reset(b).type = b.type
         /\ reset(b).dataAtExecLength = 0 /\ reset(b).count = 0
         /\ reset(b).accumulator = b.accumulator
         /\ NoBinding \in Binding
<1>1. /\ b.type \in {"none", "input", "output"}
      /\ b.dataAtExecLength \in Nat \cup {-2}
      /\ b.count \in 0 .. 1 /\ b.accumulator \in Value
  BY DEF Binding, SQL_DATA_AT_EXEC
<1>2. b.count \in {0, 1}
  BY <1>1
<1>3. /\ reset(b) \in Binding /\ reset(b).type = b.type
      /\ reset(b).dataAtExecLength = 0 /\ reset(b).count = 0
      /\ reset(b).accumulator = b.accumulator
  <2>1. 0 \in 0 .. 1
    OBVIOUS
  <2>2. /\ reset(b).type = b.type /\ reset(b).accumulator = b.accumulator
        /\ reset(b).dataAtExecLength = 0 /\ reset(b).count = 0
    BY DEF reset, Binding
  <2>3. reset(b) \in Binding
    BY <1>1, <2>1 DEF reset, Binding
  <2> QED
    BY <2>2, <2>3
<1>4. NoBinding \in Binding
  BY ValueType DEF NoBinding, Binding
<1> QED
  BY <1>1, <1>2, <1>3, <1>4

-----------------------------------------------------------------------------
(***************************************************************************)
(* Bindings and indicators.                                                *)
(***************************************************************************)
LEMMA FunctionSeq ==
  ASSUME NEW S, NEW k \in Nat, NEW f \in [1 .. k -> S]
  PROVE  f \in Seq(S) /\ Len(f) = k
OBVIOUS

LEMMA InputsType ==
  ASSUME TypeOK
  PROVE  /\ Len(parameters) \in Nat /\ DOMAIN parameters = 1 .. Len(parameters)
         /\ \A n \in DOMAIN parameters : n \in Params /\ parameters[n] \in Binding
         /\ \A n \in inputs :
              /\ n \in Params /\ n \in DOMAIN parameters /\ parameters[n] \in Binding
              /\ parameters[n].type \in {"none", "input"}
<1>1. parameters \in Seq(Binding) /\ Len(parameters) <= NumParams
  BY DEF TypeOK
<1>2. /\ Len(parameters) \in Nat /\ DOMAIN parameters = 1 .. Len(parameters)
      /\ \A n \in DOMAIN parameters : parameters[n] \in Binding
  BY <1>1
<1>3. \A n \in DOMAIN parameters : n \in Params
  BY <1>1, <1>2, ConstantsType
<1>4. statement.count \in Nat
  BY ConstantsType DEF TypeOK
<1>5. ASSUME NEW n \in inputs
      PROVE  n \in DOMAIN parameters /\ parameters[n].type # "output"
  <2>1. n \in 1 .. Lesser(statement.count, Len(parameters))
    BY DEF inputs
  <2>2. Lesser(statement.count, Len(parameters)) <= Len(parameters)
        /\ Lesser(statement.count, Len(parameters)) \in Int
    BY <1>2, <1>4, LesserGreater
  <2> QED
    BY <1>2, <2>1, <2>2 DEF inputs
<1> QED
  BY <1>2, <1>3, <1>5, BindingType

\* The inputs depend on the types of the bindings alone.
LEMMA InputsSame ==
  ASSUME TypeOK, Len(parameters') = Len(parameters), statement'.count = statement.count,
         \A n \in DOMAIN parameters : parameters'[n].type = parameters[n].type
  PROVE  inputs' = inputs
<1>1. Lesser(statement.count, Len(parameters))' = Lesser(statement.count, Len(parameters))
  OBVIOUS
<1>2. statement.count \in Nat /\ Len(parameters) \in Nat
  BY ConstantsType, InputsType DEF TypeOK
<1>3. 1 .. Lesser(statement.count, Len(parameters)) \subseteq DOMAIN parameters
  BY <1>2, LesserGreater, InputsType
<1> QED
  BY <1>1, <1>3 DEF inputs

LEMMA IndicatorType ==
  ASSUME NEW n \in Params, NEW i \in Indicators[n]
  PROVE  i \in Int /\ (i >= -2 \/ i < -100)
BY IndicatorsAssumption, ConstantsType

LEMMA ChoiceType ==
  ASSUME NEW ind \in IndicatorChoices
  PROVE  ind \in [Params -> Int] /\ \A n \in Params : ind[n] \in Indicators[n]
<1>1. \A n \in Params : ind[n] \in Indicators[n]
  BY DEF IndicatorChoices
<1>2. ind \in [Params -> UNION {Indicators[n] : n \in Params}]
  BY DEF IndicatorChoices
<1>3. \A n \in Params : ind[n] \in Int
  BY <1>1, IndicatorType
<1> QED
  BY <1>1, <1>2, <1>3

\* What is bound at execution, and what is waited for.
LEMMA BoundType ==
  ASSUME TypeOK, NEW n \in inputs, NEW i \in Indicators[n], NEW turn \in Turns
  PROVE  /\ ~AtExec(n, i) => /\ boundValue(n, i, turn) \in Value
                             /\ boundValue(n, i, turn) # Unset
         /\ AtExec(n, i) => /\ dataAtExecLength(n, i) \in Nat \cup {-2}
                            /\ dataAtExecLength(n, i) # 0
                            /\ i = -2 => dataAtExecLength(n, i) = -2
                            /\ i # -2 => i < -100 /\ dataAtExecLength(n, i) = -100 - i
         /\ ~AtExec(n, i) => dataAtExecLength(n, i) = 0
<1>1. n \in Params /\ parameters[n].type \in {"none", "input"}
  BY InputsType
<1>2. i \in Int /\ (i >= -2 \/ i < -100)
  BY <1>1, IndicatorType
<1>3. ASSUME ~AtExec(n, i)
      PROVE  boundValue(n, i, turn) \in Value /\ boundValue(n, i, turn) # Unset
  <2>1. CASE parameters[n].type = "none" \/ i = -1
    BY <2>1, ValueType, ConstantsType DEF boundValue
  <2>2. CASE parameters[n].type = "input" /\ i # -1
    <3>1. i \in Nat
      BY <1>2, <1>3, <2>2, ConstantsType DEF AtExec
    <3> QED
      BY <2>2, <3>1, ValueType, ConstantsType DEF boundValue
  <2> QED
    BY <1>1, <2>1, <2>2
<1>4. ASSUME AtExec(n, i)
      PROVE  /\ dataAtExecLength(n, i) \in Nat \cup {-2}
             /\ dataAtExecLength(n, i) # 0
             /\ i = -2 => dataAtExecLength(n, i) = -2
             /\ i # -2 => i < -100 /\ dataAtExecLength(n, i) = -100 - i
  BY <1>2, <1>4, ConstantsType DEF AtExec, dataAtExecLength
<1> QED
  BY <1>3, <1>4 DEF dataAtExecLength

-----------------------------------------------------------------------------
(***************************************************************************)
(* The loop of executeStatement.                                           *)
(***************************************************************************)
\* Value by value: the inputs that are not set at execution are given and complete,
\* the others are waited for from their start, and nothing else is.
LEMMA SetParametersResult ==
  ASSUME TypeOK, NEW ind \in IndicatorChoices, setParameters(ind)
  PROVE  /\ parameters' \in Seq(Binding) /\ Len(parameters') = Len(parameters)
         /\ inputs' = inputs
         /\ statement' \in [count : 0 .. NumParams, values : [Params -> Value]]
         /\ app' \in [turn : Turns, indicator : [Params -> Int], given : [Params -> Value],
                      complete : SUBSET Params]
         /\ app'.indicator = ind
         /\ currentPutDataParam' = 1
         /\ \A n \in DOMAIN parameters :
              /\ parameters'[n].type = parameters[n].type
              /\ n \notin inputs => parameters'[n].dataAtExecLength = 0
         /\ refused(ind) = {} =>
              \A n \in inputs :
                /\ ~AtExec(n, ind[n]) =>
                     /\ parameters'[n].dataAtExecLength = 0
                     /\ app'.given[n] # Unset /\ statement'.values[n] = app'.given[n]
                     /\ n \in app'.complete
                /\ AtExec(n, ind[n]) =>
                     /\ parameters'[n].dataAtExecLength = dataAtExecLength(n, ind[n])
                     /\ parameters'[n].count = 0
                     /\ app'.given[n] = Unset
<1> DEFINE turn == 1 - app.turn
           value(n) == boundValue(n, ind[n], turn)
           direct == {n \in reached(ind) : ~AtExec(n, ind[n])}
           after(n) == LET b == reset(parameters[n]) IN
             IF n \in direct THEN [b EXCEPT !.accumulator = accumulated(n, b, value(n), TRUE)]
             ELSE IF n \in reached(ind)
                  THEN [b EXCEPT !.dataAtExecLength = dataAtExecLength(n, ind[n])]
             ELSE b
           values == [n \in Params |->
             IF n \in direct THEN valueSet(n, parameters[n], value(n), TRUE)
             ELSE statement.values[n]]
           given == [n \in Params |-> IF n \in direct THEN value(n) ELSE Unset]
           complete == {n \in Params : n \notin inputs \/ ~AtExec(n, ind[n])}
<1>1. /\ currentPutDataParam' = 1
      /\ parameters' = [n \in DOMAIN parameters |-> after(n)]
      /\ statement' = [statement EXCEPT !.values = values]
      /\ app' = [turn |-> turn, indicator |-> ind, given |-> given, complete |-> complete]
  BY DEF setParameters
<1>2. turn \in Turns
  BY DEF TypeOK, Turns
<1>3. reached(ind) \subseteq inputs /\ direct \subseteq inputs
  BY DEF reached
<1>4. \A n \in Params : ind[n] \in Indicators[n]
  BY ChoiceType
<1>5. \A n \in direct : value(n) \in Value /\ value(n) # Unset
  BY <1>2, <1>3, <1>4, BoundType, InputsType
<1>6. ASSUME NEW n \in DOMAIN parameters
      PROVE  /\ after(n) \in Binding /\ after(n).type = parameters[n].type
             /\ n \notin inputs => after(n).dataAtExecLength = 0
             /\ n \in direct => after(n).dataAtExecLength = 0
             /\ n \in reached(ind) /\ n \notin direct =>
                  /\ after(n).dataAtExecLength = dataAtExecLength(n, ind[n])
                  /\ after(n).count = 0
  <2> DEFINE b == reset(parameters[n])
  <2>1. /\ b \in Binding /\ b.type = parameters[n].type
        /\ b.dataAtExecLength = 0 /\ b.count = 0 /\ n \in Params
    BY InputsType, BindingType
  <2>2. CASE n \in direct
    <3> HIDE DEF direct, value
    <3>1. accumulated(n, b, value(n), TRUE) \in Value
      BY <1>5, <2>1, <2>2, AccumulatedType
    <3>2. after(n) = [b EXCEPT !.accumulator = accumulated(n, b, value(n), TRUE)]
      BY <2>2
    <3> HIDE DEF b, after
    <3>3. /\ after(n) \in Binding /\ after(n).type = b.type
          /\ after(n).dataAtExecLength = 0
      BY <2>1, <3>1, <3>2 DEF Binding
    <3> QED
      BY <1>3, <2>1, <2>2, <3>3
  <2>3. CASE n \notin direct /\ n \in reached(ind)
    <3> DEFINE length == dataAtExecLength(n, ind[n])
    <3>1. length \in Nat \cup {SQL_DATA_AT_EXEC}
      BY <1>2, <1>3, <1>4, <2>1, <2>3, BoundType, ConstantsType
    <3> HIDE DEF direct
    <3>2. after(n) = [b EXCEPT !.dataAtExecLength = length]
      BY <2>3
    <3> HIDE DEF b, after, length
    <3>3. /\ after(n) \in Binding /\ after(n).type = b.type
          /\ after(n).dataAtExecLength = length /\ after(n).count = 0
      BY <2>1, <3>1, <3>2 DEF Binding
    <3> QED
      BY <1>3, <2>1, <2>3, <3>3 DEF length
  <2>4. CASE n \notin direct /\ n \notin reached(ind)
    BY <2>1, <2>4
  <2> QED
    BY <2>2, <2>3, <2>4
<1>7. \A n \in DOMAIN parameters : parameters'[n] = after(n)
  BY <1>1
<1>8. parameters' \in Seq(Binding) /\ Len(parameters') = Len(parameters)
  <2> HIDE DEF after
  <2>1. parameters' \in [1 .. Len(parameters) -> Binding]
    BY <1>1, <1>6, InputsType
  <2> QED
    BY <2>1, FunctionSeq, InputsType
<1>9. values \in [Params -> Value]
  <2> HIDE DEF direct, value
  <2>1. ASSUME NEW n \in direct
        PROVE  valueSet(n, parameters[n], value(n), TRUE) \in Value
    BY <1>3, <1>5, InputsType, AccumulatedType
  <2>2. statement.values \in [Params -> Value]
    BY DEF TypeOK
  <2> QED
    BY <2>1, <2>2
<1>10. /\ statement' \in [count : 0 .. NumParams, values : [Params -> Value]]
       /\ statement'.count = statement.count /\ statement'.values = values
  <2> HIDE DEF values
  <2> QED
    BY <1>1, <1>9 DEF TypeOK
<1>11. given \in [Params -> Value]
  <2> HIDE DEF direct, value
  <2> QED
    BY <1>5, ValueType
<1>12. /\ app' \in [turn : Turns, indicator : [Params -> Int], given : [Params -> Value],
                    complete : SUBSET Params]
       /\ app'.indicator = ind /\ app'.given = given /\ app'.complete = complete
  <2>1. ind \in [Params -> Int] /\ complete \in SUBSET Params
    BY ChoiceType
  <2> HIDE DEF turn, given, complete
  <2> QED
    BY <1>1, <1>2, <1>11, <2>1
<1>13. inputs' = inputs
  <2> HIDE DEF after
  <2> QED
    BY <1>6, <1>7, <1>8, <1>10, InputsSame
<1>14. \A n \in DOMAIN parameters :
         /\ parameters'[n].type = parameters[n].type
         /\ n \notin inputs => parameters'[n].dataAtExecLength = 0
  <2> HIDE DEF after
  <2> QED
    BY <1>6, <1>7
<1>15. ASSUME refused(ind) = {}, NEW n \in inputs
       PROVE  /\ ~AtExec(n, ind[n]) =>
                   /\ parameters'[n].dataAtExecLength = 0
                   /\ app'.given[n] # Unset /\ statement'.values[n] = app'.given[n]
                   /\ n \in app'.complete
              /\ AtExec(n, ind[n]) =>
                   /\ parameters'[n].dataAtExecLength = dataAtExecLength(n, ind[n])
                   /\ parameters'[n].count = 0
                   /\ app'.given[n] = Unset
  <2>1. n \in reached(ind) /\ n \in Params /\ n \in DOMAIN parameters
    BY <1>15, InputsType DEF reached
  <2>2. parameters'[n] = after(n)
    BY <1>7, <2>1
  <2>3. CASE ~AtExec(n, ind[n])
    <3>1. n \in direct
      BY <2>1, <2>3
    <3> HIDE DEF direct, value, after
    <3>2. valueSet(n, parameters[n], value(n), TRUE) = value(n)
      BY <1>5, <2>1, <3>1, InputsType, AccumulatedType
    <3>3. values[n] = value(n) /\ given[n] = value(n)
      BY <2>1, <3>1, <3>2
    <3>4. n \in complete
      BY <2>1, <2>3
    <3> HIDE DEF values, given, complete
    <3> QED
      BY <1>5, <1>6, <1>10, <1>12, <2>1, <2>2, <2>3, <3>1, <3>3, <3>4
  <2>4. CASE AtExec(n, ind[n])
    <3>1. n \notin direct
      BY <2>4
    <3> HIDE DEF direct, value, after
    <3>2. given[n] = Unset
      BY <2>1, <3>1
    <3> HIDE DEF given
    <3> QED
      BY <1>6, <1>12, <2>1, <2>2, <2>4, <3>1, <3>2
  <2> QED
    BY <2>3, <2>4
<1> HIDE DEF turn, value, direct, after, values, given, complete
<1> QED
  BY <1>1, <1>8, <1>10, <1>12, <1>13, <1>14, <1>15

-----------------------------------------------------------------------------
(***************************************************************************)
(* Types.                                                                  *)
(***************************************************************************)
\* While data is owed there is a binding where SQLParamData stands, and the indicators
\* are those of the application.
Owing ==
  ~Idle => /\ currentPutDataParam \in 1 .. Len(parameters)
           /\ \A n \in Params : app.indicator[n] \in Indicators[n]

TypeInv == TypeOK /\ Owing

Calls == {"SQLPrepare", "SQLBindParameter", "SQLFreeStmt", "SQLExecute",
          "SQLParamData", "SQLPutData", "SQLCancel"}
Codes == {"SQL_SUCCESS", "SQL_SUCCESS_WITH_INFO", "SQL_NEED_DATA", "SQL_ERROR"}

LEMMA ReturnType ==
  ASSUME NEW call \in Calls, NEW code \in Codes, NEW executed \in BOOLEAN,
         Return(call, code, executed)
  PROVE  /\ ret' \in [call : Calls, code : Codes, executed : BOOLEAN]
         /\ ret'.executed = executed
BY DEF Return

LEMMA NothingGivenType ==
  ASSUME NEW turn \in Turns
  PROVE  NothingGiven(turn) \in [turn : Turns, indicator : [Params -> Int],
                                 given : [Params -> Value], complete : SUBSET Params]
BY ValueType DEF NothingGiven

LEMMA TypeInit == Init => TypeInv
<1> SUFFICES ASSUME Init PROVE TypeInv
  OBVIOUS
<1>1. parameters \in Seq(Binding) /\ Len(parameters) <= NumParams
  BY ConstantsType DEF Init
<1>2. currentPutDataParam \in 0 .. NumParams + 1
  BY ConstantsType DEF Init
<1>3. statement \in [count : 0 .. NumParams, values : [Params -> Value]]
  BY ConstantsType, ValueType DEF Init
<1>4. app \in [turn : Turns, indicator : [Params -> Int], given : [Params -> Value],
               complete : SUBSET Params]
  BY NothingGivenType DEF Init, Turns
<1>5. ret \in [call : Calls, code : Codes, executed : BOOLEAN]
  BY DEF Init, Calls, Codes
<1>6. phase = "idle"
  BY DEF Init
<1> QED
  BY <1>1, <1>2, <1>3, <1>4, <1>5, <1>6
  DEF TypeInv, TypeOK, Owing, Idle, Calls, Codes

LEMMA PrepareType ==
  ASSUME TypeInv, NEW n \in 0 .. NumParams, SQLPrepare(n)
  PROVE  TypeInv'
<1>1. statement' \in [count : 0 .. NumParams, values : [Params -> Value]]
  BY ValueType DEF SQLPrepare
<1>2. app' \in [turn : Turns, indicator : [Params -> Int], given : [Params -> Value],
                complete : SUBSET Params]
  BY NothingGivenType DEF SQLPrepare, TypeInv, TypeOK
<1>3. ret' \in [call : Calls, code : Codes, executed : BOOLEAN]
  BY ReturnType DEF SQLPrepare, Calls, Codes
<1>4. phase = "idle" /\ phase' = "idle"
  BY DEF SQLPrepare, Idle
<1> QED
  BY <1>1, <1>2, <1>3, <1>4
  DEF SQLPrepare, TypeInv, TypeOK, Owing, Idle, Calls, Codes

LEMMA BindParameterType ==
  ASSUME TypeInv, NEW n \in Params, NEW type \in {"input", "output"},
         SQLBindParameter(n, type)
  PROVE  TypeInv'
<1> DEFINE needed == IF n > Len(parameters) THEN Greater(n, statement.count)
                     ELSE Len(parameters)
           old(m) == IF m <= Len(parameters) THEN parameters[m] ELSE NoBinding
           new(m) == IF m = n THEN [old(m) EXCEPT !.type = type] ELSE old(m)
<1>1. /\ Len(parameters) \in 0 .. NumParams /\ statement.count \in 0 .. NumParams
      /\ n \in 1 .. NumParams
  BY InputsType, ConstantsType DEF TypeInv, TypeOK
<1>2. needed \in 0 .. NumParams
  <2>1. Greater(n, statement.count) \in {n, statement.count}
    BY DEF Greater
  <2> QED
    BY <1>1, <2>1, ConstantsType
<1>3. ASSUME NEW m \in 1 .. needed
      PROVE  new(m) \in Binding
  <2>1. old(m) \in Binding
    <3>1. CASE m <= Len(parameters)
      <4>1. m \in DOMAIN parameters
        BY <1>1, <1>2, <3>1, InputsType DEF TypeInv
      <4> QED
        BY <3>1, <4>1, InputsType DEF TypeInv
    <3>2. CASE ~(m <= Len(parameters))
      BY <3>2, ValueType DEF NoBinding, Binding
    <3> QED
      BY <3>1, <3>2
  <2> HIDE DEF old
  <2> QED
    BY <2>1 DEF Binding
<1>4. parameters' = [m \in 1 .. needed |-> new(m)]
  BY DEF SQLBindParameter
<1>5. parameters' \in Seq(Binding) /\ Len(parameters') <= NumParams
  <2> HIDE DEF needed, new
  <2>1. parameters' \in [1 .. needed -> Binding] /\ needed \in Nat
    BY <1>2, <1>3, <1>4
  <2>2. parameters' \in Seq(Binding) /\ Len(parameters') = needed
    BY <2>1, FunctionSeq
  <2> QED
    BY <1>2, <2>2, ConstantsType
<1>6. app' \in [turn : Turns, indicator : [Params -> Int], given : [Params -> Value],
                complete : SUBSET Params]
  BY NothingGivenType DEF SQLBindParameter, TypeInv, TypeOK
<1>7. ret' \in [call : Calls, code : Codes, executed : BOOLEAN]
  BY ReturnType DEF SQLBindParameter, Calls, Codes
<1>8. phase = "idle" /\ phase' = "idle"
  BY DEF SQLBindParameter, Idle
<1> QED
  BY <1>5, <1>6, <1>7, <1>8
  DEF SQLBindParameter, TypeInv, TypeOK, Owing, Idle, Calls, Codes

LEMMA ResetParamsType ==
  ASSUME TypeInv, ResetParams
  PROVE  TypeInv'
<1>1. parameters' \in Seq(Binding) /\ Len(parameters') <= NumParams
  BY ConstantsType DEF ResetParams
<1>2. app' \in [turn : Turns, indicator : [Params -> Int], given : [Params -> Value],
                complete : SUBSET Params]
  BY NothingGivenType DEF ResetParams, TypeInv, TypeOK
<1>3. ret' \in [call : Calls, code : Codes, executed : BOOLEAN]
  BY ReturnType DEF ResetParams, Calls, Codes
<1>4. phase = "idle" /\ phase' = "idle"
  BY DEF ResetParams, Idle
<1> QED
  BY <1>1, <1>2, <1>3, <1>4
  DEF ResetParams, TypeInv, TypeOK, Owing, Idle, Calls, Codes

LEMMA ExecuteType ==
  ASSUME TypeInv, NEW ind \in IndicatorChoices,
         SQLExecuteRefused(ind) \/ SQLExecuteNeedsData(ind) \/ SQLExecute(ind)
  PROVE  TypeInv'
<1>1. setParameters(ind) /\ TypeOK
  BY DEF SQLExecuteRefused, SQLExecuteNeedsData, SQLExecute, TypeInv
<1>2. /\ parameters' \in Seq(Binding) /\ Len(parameters') = Len(parameters)
      /\ statement' \in [count : 0 .. NumParams, values : [Params -> Value]]
      /\ app' \in [turn : Turns, indicator : [Params -> Int], given : [Params -> Value],
                   complete : SUBSET Params]
      /\ app'.indicator = ind
      /\ currentPutDataParam' = 1
  BY <1>1, SetParametersResult
<1>3. ret' \in [call : Calls, code : Codes, executed : BOOLEAN]
  BY ReturnType
  DEF SQLExecuteRefused, SQLExecuteNeedsData, SQLExecute, doExecuteStatement, Results,
      Calls, Codes
<1>4. phase' \in {"idle", "need"}
  BY DEF SQLExecuteRefused, SQLExecuteNeedsData, SQLExecute, doExecuteStatement, Idle
<1>5. phase' = "need" => currentPutDataParam' \in 1 .. Len(parameters')
  <2>1. phase' = "need" => \E n \in inputs : TRUE
    BY DEF SQLExecuteRefused, SQLExecuteNeedsData, SQLExecute, doExecuteStatement, Idle
  <2> QED
    BY <1>1, <1>2, <2>1, InputsType
<1>6. currentPutDataParam' \in 0 .. NumParams + 1 /\ Len(parameters') <= NumParams
  BY <1>1, <1>2, ConstantsType DEF TypeOK
<1>7. \A n \in Params : app'.indicator[n] \in Indicators[n]
  BY <1>2, ChoiceType
<1> QED
  BY <1>2, <1>3, <1>4, <1>5, <1>6, <1>7
  DEF TypeInv, TypeOK, Owing, Idle, Calls, Codes

LEMMA ParamDataType ==
  ASSUME TypeInv, SQLParamDataAsks \/ SQLParamDataExecutes
  PROVE  TypeInv'
<1>1. Len(parameters) \in 0 .. NumParams /\ currentPutDataParam \in 1 .. Len(parameters)
  <2>1. ~Idle
    BY DEF Idle, SQLParamDataAsks, SQLParamDataExecutes
  <2>2. Len(parameters) \in Nat /\ Len(parameters) <= NumParams
    BY InputsType DEF TypeInv, TypeOK
  <2> QED
    BY <2>1, <2>2, ConstantsType DEF TypeInv, Owing
<1>2. ret' \in [call : Calls, code : Codes, executed : BOOLEAN]
  BY ReturnType
  DEF SQLParamDataAsks, SQLParamDataExecutes, doExecuteStatement, Results, Calls, Codes
<1>3. CASE SQLParamDataAsks
  <2>1. currentPutDataParam' \in 1 .. Len(parameters) /\ phase' = "must" /\ phase # "idle"
    BY <1>1, <1>3 DEF SQLParamDataAsks, Waiting
  <2>2. currentPutDataParam' \in 0 .. NumParams + 1
    BY <1>1, <2>1, ConstantsType
  <2> QED
    BY <1>2, <1>3, <2>1, <2>2
    DEF SQLParamDataAsks, TypeInv, TypeOK, Owing, Idle, Calls, Codes
<1>4. CASE SQLParamDataExecutes
  <2>1. currentPutDataParam' \in {currentPutDataParam, Len(parameters) + 1}
    BY <1>4 DEF SQLParamDataExecutes, Greater
  <2>2. currentPutDataParam' \in 0 .. NumParams + 1
    BY <1>1, <2>1, ConstantsType
  <2>3. phase' = "idle"
    BY <1>4 DEF SQLParamDataExecutes, doExecuteStatement
  <2> QED
    BY <1>2, <1>4, <2>2, <2>3
    DEF SQLParamDataExecutes, TypeInv, TypeOK, Owing, Idle, Calls, Codes
<1> QED
  BY <1>3, <1>4

\* The lengths SQLPutData works with, for a binding that waits for k bytes.
LEMMA LengthsType ==
  ASSUME NEW b \in Binding, NEW length \in Nat \cup {-1, -3}
  PROVE  LET k == b.dataAtExecLength
             copied == setParamLength(b, length)
         IN  /\ copied \in Nat \cup {-1, -3} /\ lengthLeft(b, length) \in Nat
             /\ length \in {-1, -3} => copied = length
             /\ k = -2 => copied = length /\ lengthLeft(b, length) = 0
             /\ length = -3 => lengthLeft(b, length) = 0
             /\ k \in Nat /\ length \in Nat =>
                  /\ copied \in Nat /\ copied \in {k, length}
                  /\ copied <= k /\ copied <= length
                  /\ lengthLeft(b, length) = k - copied
<1> DEFINE k == b.dataAtExecLength
           copied == setParamLength(b, length)
           left == lengthLeft(b, length)
<1>1. k \in Nat \cup {-2}
  BY BindingType
<1>2. remainingLength(b, length) = IF k = -2 THEN length ELSE k
  BY ConstantsType DEF remainingLength
<1>3. copied = IF length = -3 THEN -3 ELSE Lesser(remainingLength(b, length), length)
  BY ConstantsType DEF setParamLength
<1>4. left = IF length = -3 THEN 0 ELSE remainingLength(b, length) - copied
  BY ConstantsType DEF lengthLeft
<1> HIDE DEF k, copied, left
<1>5. /\ copied \in Nat \cup {-1, -3} /\ left \in Nat
      /\ length \in {-1, -3} => copied = length
      /\ k = -2 => copied = length /\ left = 0
      /\ length = -3 => left = 0
      /\ k \in Nat /\ length \in Nat =>
           /\ copied \in Nat /\ copied \in {k, length}
           /\ copied <= k /\ copied <= length
           /\ left = k - copied
  <2>1. CASE length = -3
    BY <1>1, <1>3, <1>4, <2>1
  <2>2. CASE length # -3 /\ k = -2
    <3>1. copied = length
      BY <1>2, <1>3, <2>2 DEF Lesser
    <3>2. left = 0
      BY <1>2, <1>4, <2>2, <3>1
    <3> QED
      BY <2>2, <3>1, <3>2
  <2>3. CASE length # -3 /\ k \in Nat
    <3>1. copied = IF k <= length THEN k ELSE length
      BY <1>2, <1>3, <2>3 DEF Lesser
    <3>2. left = k - copied
      BY <1>2, <1>4, <2>3
    <3>3. CASE length = -1
      BY <2>3, <3>1, <3>2, <3>3
    <3>4. CASE length \in Nat
      BY <2>3, <3>1, <3>2, <3>4
    <3> QED
      BY <2>3, <3>3, <3>4
  <2> QED
    BY <1>1, <2>1, <2>2, <2>3
<1> QED
  BY <1>5 DEF k, copied, left

LEMMA PieceType ==
  ASSUME TypeOK, NEW length \in Nat \cup {-1, -3}
  PROVE  /\ pieceValue(length) \in Value /\ pieceValue(length) # Unset
         /\ length = -1 <=> pieceValue(length).null
         /\ length # -1 => pieceValue(length) = Data(app.turn, IF length = -3
                                                               THEN StringLength ELSE length)
<1>1. app.turn \in Turns
  BY DEF TypeOK
<1>2. CASE length = -1
  BY <1>2, ValueType, ConstantsType DEF pieceValue
<1>3. CASE length # -1
  <2>1. (IF length = -3 THEN StringLength ELSE length) \in Nat
    BY <1>3, ConstantsType
  <2>2. pieceValue(length) = Data(app.turn, IF length = -3 THEN StringLength ELSE length)
    BY <1>3, ConstantsType DEF pieceValue
  <2> QED
    BY <1>1, <1>3, <2>1, <2>2, ValueType
<1> QED
  BY <1>2, <1>3

\* What SQLPutData leaves, by name.
LEMMA PutDataResult ==
  ASSUME TypeInv, NEW length \in Pieces[currentPutDataParam], SQLPutData(length)
  PROVE  LET n == currentPutDataParam
             b == parameters[n]
             v == pieceValue(setParamLength(b, length))
         IN  /\ n \in DOMAIN parameters /\ n \in Params /\ b \in Binding
             /\ length \in Nat \cup {-1, -3} /\ v \in Value
             /\ waiting(n) /\ ~Idle
             /\ parameters' \in Seq(Binding) /\ Len(parameters') = Len(parameters)
             /\ \A m \in DOMAIN parameters : m # n => parameters'[m] = parameters[m]
             /\ parameters'[n].type = b.type
             /\ parameters'[n].count = 1
             /\ parameters'[n].dataAtExecLength = lengthLeft(b, length)
             /\ parameters'[n].accumulator = accumulated(n, b, v, b.count = 0)
             /\ inputs' = inputs
<1> DEFINE n == currentPutDataParam
           b == parameters[n]
           v == pieceValue(setParamLength(b, length))
           stored == [b EXCEPT !.count = 1, !.dataAtExecLength = lengthLeft(b, length),
                               !.accumulator = accumulated(n, b, v, b.count = 0)]
<1>1. TypeOK /\ ~Idle /\ waiting(n)
  BY DEF TypeInv, SQLPutData, Idle
<1>2. n \in DOMAIN parameters /\ n \in Params /\ b \in Binding
  BY <1>1, InputsType DEF TypeInv, Owing
<1>3. length \in Nat \cup {-1, -3}
  BY <1>2, PiecesAssumption, ConstantsType
<1>4. v \in Value /\ lengthLeft(b, length) \in Nat
  BY <1>1, <1>2, <1>3, LengthsType, PieceType
<1>5. accumulated(n, b, v, b.count = 0) \in Value
  BY <1>2, <1>4, AccumulatedType
<1>6. /\ stored \in Binding /\ stored.type = b.type /\ stored.count = 1
      /\ stored.dataAtExecLength = lengthLeft(b, length)
      /\ stored.accumulator = accumulated(n, b, v, b.count = 0)
  <2> DEFINE left == lengthLeft(b, length)
             acc == accumulated(n, b, v, b.count = 0)
  <2>1. stored = [b EXCEPT !.count = 1, !.dataAtExecLength = left, !.accumulator = acc]
    OBVIOUS
  <2>2. 1 \in 0 .. 1
    OBVIOUS
  <2> HIDE DEF left, acc, stored, b
  <2>3. /\ stored \in Binding /\ stored.type = b.type /\ stored.count = 1
        /\ stored.dataAtExecLength = left /\ stored.accumulator = acc
    BY <1>2, <1>4, <1>5, <2>1, <2>2 DEF Binding, left, acc
  <2> QED
    BY <2>3 DEF left, acc
<1>7. parameters' = [parameters EXCEPT ![n] = stored]
  BY DEF SQLPutData
<1>8. parameters \in Seq(Binding)
  BY <1>1 DEF TypeOK
<1> HIDE DEF stored
<1>9. /\ parameters' \in Seq(Binding) /\ Len(parameters') = Len(parameters)
      /\ \A m \in DOMAIN parameters : m # n => parameters'[m] = parameters[m]
      /\ parameters'[n] = stored
  BY <1>2, <1>6, <1>7, <1>8
<1>10. statement'.count = statement.count
  BY <1>1 DEF SQLPutData, TypeOK
<1>11. inputs' = inputs
  BY <1>1, <1>6, <1>9, <1>10, InputsSame
<1> QED
  BY <1>1, <1>2, <1>3, <1>4, <1>6, <1>9, <1>11

LEMMA PutDataType ==
  ASSUME TypeInv, NEW length \in Pieces[currentPutDataParam], SQLPutData(length)
  PROVE  TypeInv'
<1> DEFINE n == currentPutDataParam
           b == parameters[n]
           v == pieceValue(setParamLength(b, length))
<1>1. /\ n \in DOMAIN parameters /\ n \in Params /\ b \in Binding
      /\ length \in Nat \cup {-1, -3} /\ v \in Value /\ ~Idle
      /\ parameters' \in Seq(Binding) /\ Len(parameters') = Len(parameters)
  BY PutDataResult
<1>2. TypeOK
  BY DEF TypeInv
<1>3. statement' \in [count : 0 .. NumParams, values : [Params -> Value]]
  <2>1. valueSet(n, b, v, b.count = 0) \in Value
    BY <1>1, AccumulatedType
  <2>2. \/ statement' = statement
        \/ statement' = [statement EXCEPT !.values[n] = valueSet(n, b, v, b.count = 0)]
    BY DEF SQLPutData
  <2> HIDE DEF n, v, b
  <2> QED
    BY <1>1, <1>2, <2>1, <2>2 DEF TypeOK
<1>4. gave(n, length) \in Value
  <2> DEFINE all == IF length = SQL_NULL_DATA \/ CType[n] # "char" THEN pieceValue(length)
                    ELSE append(app.given[n], pieceValue(length))
             announced == SQL_LEN_DATA_AT_EXEC_OFFSET - app.indicator[n]
  <2>1. pieceValue(length) \in Value /\ app.given[n] \in Value /\ app.indicator[n] \in Int
    BY <1>1, <1>2, PieceType DEF TypeOK
  <2>2. all \in Value
    BY <2>1, AppendType
  <2>3. announced \in Int
    BY <2>1, ConstantsType
  <2>4. gave(n, length) = IF length = SQL_NTS \/ announced < 0 THEN all
                          ELSE [all EXCEPT !.bytes = Lesser(all.bytes, announced)]
    BY DEF gave
  <2> HIDE DEF all, announced
  <2>5. ASSUME ~(announced < 0)
        PROVE  [all EXCEPT !.bytes = Lesser(all.bytes, announced)] \in Value
    <3>1. all.bytes \in Nat /\ announced \in Nat
      BY <2>2, <2>3, <2>5 DEF Value
    <3>2. Lesser(all.bytes, announced) \in Nat
      BY <3>1 DEF Lesser
    <3> QED
      BY <2>2, <3>2 DEF Value
  <2> QED
    BY <2>2, <2>4, <2>5
<1>5. /\ app' \in [turn : Turns, indicator : [Params -> Int], given : [Params -> Value],
                   complete : SUBSET Params]
      /\ app'.indicator = app.indicator
  <2>1. \E S \in {app.complete, app.complete \cup {n}} :
          app' = [app EXCEPT !.given[n] = gave(n, length), !.complete = S]
    BY DEF SQLPutData
  <2>2. PICK S \in SUBSET Params :
          app' = [app EXCEPT !.given[n] = gave(n, length), !.complete = S]
    BY <1>1, <1>2, <2>1 DEF TypeOK
  <2> HIDE DEF n
  <2> QED
    BY <1>1, <1>2, <1>4, <2>2 DEF TypeOK
<1>6. ret' \in [call : Calls, code : Codes, executed : BOOLEAN]
  <2>1. \E code \in Codes : Return("SQLPutData", code, FALSE)
    BY DEF SQLPutData, Codes
  <2> QED
    BY <2>1, ReturnType DEF Calls
<1>7. phase' \in {"idle", "can"} /\ currentPutDataParam' = currentPutDataParam
  BY DEF SQLPutData
<1> QED
  BY <1>1, <1>3, <1>5, <1>6, <1>7 DEF TypeInv, TypeOK, Owing, Calls, Codes

LEMMA UnaskedCancelType ==
  ASSUME TypeInv, SQLPutDataUnasked \/ SQLCancel
  PROVE  TypeInv'
<1>1. app' \in [turn : Turns, indicator : [Params -> Int], given : [Params -> Value],
                complete : SUBSET Params]
  BY NothingGivenType DEF SQLPutDataUnasked, SQLCancel, TypeInv, TypeOK
<1>2. ret' \in [call : Calls, code : Codes, executed : BOOLEAN]
  BY ReturnType DEF SQLPutDataUnasked, SQLCancel, Calls, Codes
<1>3. phase' = "idle"
  BY DEF SQLPutDataUnasked, SQLCancel
<1> QED
  BY <1>1, <1>2, <1>3
  DEF SQLPutDataUnasked, SQLCancel, TypeInv, TypeOK, Owing, Idle, Calls, Codes

LEMMA TypeNext == TypeInv /\ [Next]_vars => TypeInv'
<1> SUFFICES ASSUME TypeInv, [Next]_vars PROVE TypeInv'
  OBVIOUS
<1>1. CASE BindOrPrepare
  BY <1>1, PrepareType, BindParameterType, ResetParamsType DEF BindOrPrepare
<1>2. ASSUME NEW ind \in IndicatorChoices,
             SQLExecuteRefused(ind) \/ SQLExecuteNeedsData(ind) \/ SQLExecute(ind)
      PROVE  TypeInv'
  BY <1>2, ExecuteType
<1>3. CASE SQLParamDataAsks \/ SQLParamDataExecutes
  BY <1>3, ParamDataType
<1>4. ASSUME NEW n \in Params, n = currentPutDataParam,
             NEW length \in Pieces[n], SQLPutData(length)
      PROVE  TypeInv'
  BY <1>4, PutDataType
<1>5. CASE SQLPutDataUnasked \/ SQLCancel
  BY <1>5, UnaskedCancelType
<1>6. CASE UNCHANGED vars
  BY <1>6 DEF vars, TypeInv, TypeOK, Owing, Idle
<1> QED
  BY <1>1, <1>2, <1>3, <1>4, <1>5, <1>6 DEF Next

\* Spec => []TypeOK: bindings, values and the place of SQLParamData keep their types.
THEOREM TypeCorrect == Spec => []TypeOK
<1>1. TypeInv => TypeOK
  BY DEF TypeInv
<1> QED
  BY <1>1, TypeInit, TypeNext, PTL DEF Spec

-----------------------------------------------------------------------------
(***************************************************************************)
(* What is given.                                                          *)
(***************************************************************************)
\* A parameter is given whole; or nothing of it is; or the first pieces of as many bytes
\* as were announced, in the accumulator and in the database alike.
Given(n) ==
  app.given[n] # Unset /\ statement.values[n] = app.given[n] /\ n \in app.complete

Untouched(n) ==
  /\ parameters[n].count = 0 /\ app.given[n] = Unset
  /\ AtExec(n, app.indicator[n])
  /\ parameters[n].dataAtExecLength = dataAtExecLength(n, app.indicator[n])

InParts(n) ==
  /\ parameters[n].count = 1 /\ app.indicator[n] < -100
  /\ app.given[n] # Unset /\ ~app.given[n].null
  /\ statement.values[n] = app.given[n] /\ parameters[n].accumulator = app.given[n]
  /\ parameters[n].dataAtExecLength \in Nat
  /\ parameters[n].dataAtExecLength = (-100 - app.indicator[n]) - app.given[n].bytes

\* While data is owed, only inputs are waited for, each input is in one of these states,
\* and those before the place of SQLParamData are given.
OwedInv ==
  ~Idle =>
    /\ \A n \in DOMAIN parameters : waiting(n) => n \in inputs
    /\ \A n \in inputs : IF waiting(n) THEN Untouched(n) \/ InParts(n) ELSE Given(n)
    /\ phase \in {"must", "can"} => currentPutDataParam \in inputs
    /\ \A n \in inputs : n < currentPutDataParam => ~waiting(n)

GivenWhenExecuted == ret.executed => \A n \in inputs : Given(n)

DataInv == TypeInv /\ OwedInv /\ GivenWhenExecuted

LEMMA DataInit == Init => DataInv
<1> SUFFICES ASSUME Init PROVE DataInv
  OBVIOUS
<1>1. phase = "idle" /\ ret.executed = FALSE
  BY DEF Init
<1> QED
  BY <1>1, TypeInit DEF DataInv, OwedInv, Idle, GivenWhenExecuted

\* Where nothing is owed and nothing was executed there is nothing to show.
LEMMA NothingOwed ==
  ASSUME phase' = "idle", ret'.executed = FALSE
  PROVE  OwedInv' /\ GivenWhenExecuted'
BY DEF OwedInv, GivenWhenExecuted, Idle

LEMMA ReturnExecuted ==
  ASSUME NEW call, NEW code, NEW executed, Return(call, code, executed)
  PROVE  ret'.executed = executed
BY DEF Return

LEMMA ExecuteGiven ==
  ASSUME TypeInv, NEW ind \in IndicatorChoices,
         SQLExecuteRefused(ind) \/ SQLExecuteNeedsData(ind) \/ SQLExecute(ind)
  PROVE  OwedInv' /\ GivenWhenExecuted'
<1>1. CASE SQLExecuteRefused(ind)
  <2>1. phase' = "idle" /\ ret'.executed = FALSE
    BY <1>1, ReturnExecuted DEF SQLExecuteRefused, Idle
  <2> QED
    BY <2>1, NothingOwed
<1>2. CASE SQLExecuteNeedsData(ind) \/ SQLExecute(ind)
  <2>1. TypeOK /\ setParameters(ind) /\ refused(ind) = {}
    BY <1>2 DEF SQLExecuteNeedsData, SQLExecute, TypeInv
  <2>2. /\ Len(parameters') = Len(parameters) /\ parameters' \in Seq(Binding)
        /\ inputs' = inputs /\ app'.indicator = ind /\ currentPutDataParam' = 1
        /\ \A n \in DOMAIN parameters :
             n \notin inputs => parameters'[n].dataAtExecLength = 0
        /\ \A n \in inputs :
             /\ ~AtExec(n, ind[n]) =>
                  /\ parameters'[n].dataAtExecLength = 0
                  /\ app'.given[n] # Unset /\ statement'.values[n] = app'.given[n]
                  /\ n \in app'.complete
             /\ AtExec(n, ind[n]) =>
                  /\ parameters'[n].dataAtExecLength = dataAtExecLength(n, ind[n])
                  /\ parameters'[n].count = 0
                  /\ app'.given[n] = Unset
    BY <2>1, SetParametersResult
  <2>3. \A n \in inputs : ~AtExec(n, ind[n]) => Given(n)' /\ ~waiting(n)'
    BY <2>2 DEF Given, waiting
  <2>4. CASE SQLExecuteNeedsData(ind)
    <3>1. phase' = "need" /\ ret'.executed = FALSE
      BY <2>4, ReturnExecuted DEF SQLExecuteNeedsData
    <3>2. DOMAIN parameters' = DOMAIN parameters
      BY <2>1, <2>2, InputsType
    <3>3. \A n \in DOMAIN parameters' : waiting(n)' => n \in inputs'
      BY <2>2, <3>2 DEF waiting
    <3>4. ASSUME NEW n \in inputs, AtExec(n, ind[n])
          PROVE  waiting(n)' /\ Untouched(n)'
      <4>1. dataAtExecLength(n, ind[n]) # 0
        BY <2>1, <3>4, BoundType, ChoiceType, InputsType DEF Turns
      <4>2. parameters'[n].type = parameters[n].type
        <5>1. n \in DOMAIN parameters
          BY <2>1, InputsType
        <5> QED
          BY <2>1, <5>1, SetParametersResult
      <4>3. AtExec(n, ind[n])' /\ dataAtExecLength(n, ind[n])' = dataAtExecLength(n, ind[n])
        BY <3>4, <4>2 DEF AtExec, dataAtExecLength
      <4> QED
        BY <2>2, <3>4, <4>1, <4>3 DEF waiting, Untouched
    <3>5. \A n \in inputs' : IF waiting(n)' THEN Untouched(n)' \/ InParts(n)' ELSE Given(n)'
      BY <2>2, <2>3, <3>4
    <3>6. \A n \in inputs' : ~(n < currentPutDataParam')
      <4>1. \A n \in inputs : n \in Params
        BY <2>1, InputsType
      <4> QED
        BY <2>2, <4>1, ConstantsType
    <3> QED
      BY <3>1, <3>3, <3>5, <3>6 DEF OwedInv, GivenWhenExecuted
  <2>5. CASE SQLExecute(ind)
    <3>1. phase' = "idle" /\ ~ \E n \in inputs : AtExec(n, ind[n])
      BY <2>5 DEF SQLExecute, doExecuteStatement
    <3> QED
      BY <2>2, <2>3, <3>1 DEF OwedInv, GivenWhenExecuted, Idle
  <2> QED
    BY <1>2, <2>4, <2>5
<1> QED
  BY <1>1, <1>2

LEMMA ParamDataGiven ==
  ASSUME DataInv, SQLParamDataAsks \/ SQLParamDataExecutes
  PROVE  OwedInv' /\ GivenWhenExecuted'
<1>1. /\ TypeOK /\ ~Idle /\ currentPutDataParam \in 1 .. Len(parameters)
      /\ \A n \in DOMAIN parameters : waiting(n) => n \in inputs
      /\ \A n \in inputs : IF waiting(n) THEN Untouched(n) \/ InParts(n) ELSE Given(n)
      /\ \A n \in inputs : n < currentPutDataParam => ~waiting(n)
  BY DEF DataInv, TypeInv, Owing, OwedInv, Idle, SQLParamDataAsks, SQLParamDataExecutes
<1>2. UNCHANGED <<parameters, statement, app>>
  BY DEF SQLParamDataAsks, SQLParamDataExecutes
<1>3. inputs' = inputs
  BY <1>2 DEF inputs
<1>4. ASSUME NEW n
      PROVE  /\ waiting(n)' <=> waiting(n)
             /\ Untouched(n)' <=> Untouched(n)
             /\ InParts(n)' <=> InParts(n)
             /\ Given(n)' <=> Given(n)
  BY <1>2 DEF waiting, Untouched, InParts, Given, AtExec, dataAtExecLength
<1>5. /\ Len(parameters) \in Nat /\ DOMAIN parameters = 1 .. Len(parameters)
      /\ \A n \in inputs : n \in DOMAIN parameters
  BY <1>1, InputsType
<1>6. CASE SQLParamDataAsks
  <2>1. PICK n \in Waiting : /\ \A m \in Waiting : n <= m
                             /\ currentPutDataParam' = n
    BY <1>6 DEF SQLParamDataAsks
  <2>2. n \in currentPutDataParam .. Len(parameters) /\ waiting(n)
    BY DEF Waiting
  <2>3. n \in inputs
    BY <1>1, <1>5, <2>2
  <2>4. ASSUME NEW m \in inputs, m < n
        PROVE  ~waiting(m)
    <3>1. CASE m < currentPutDataParam
      BY <1>1, <3>1
    <3>2. CASE ~(m < currentPutDataParam)
      <4>1. m \in currentPutDataParam .. Len(parameters)
        BY <1>1, <1>5, <3>2
      <4>2. m \notin Waiting
        BY <1>5, <2>1, <2>2, <2>4, <4>1
      <4> QED
        BY <4>1, <4>2 DEF Waiting
    <3> QED
      BY <3>1, <3>2
  <2>5. phase' = "must" /\ ret'.executed = FALSE
    BY <1>6, ReturnExecuted DEF SQLParamDataAsks
  <2> QED
    BY <1>1, <1>2, <1>3, <1>4, <2>1, <2>3, <2>4, <2>5 DEF OwedInv, GivenWhenExecuted
<1>7. CASE SQLParamDataExecutes
  <2>1. phase' = "idle" /\ Waiting = {}
    BY <1>7 DEF SQLParamDataExecutes, doExecuteStatement
  <2>2. ASSUME NEW n \in inputs
        PROVE  ~waiting(n)
    <3>1. CASE n < currentPutDataParam
      BY <1>1, <3>1
    <3>2. CASE ~(n < currentPutDataParam)
      <4>1. n \in currentPutDataParam .. Len(parameters)
        BY <1>1, <1>5, <3>2
      <4> QED
        BY <2>1, <4>1 DEF Waiting
    <3> QED
      BY <3>1, <3>2
  <2> QED
    BY <1>1, <1>3, <1>4, <2>1, <2>2 DEF OwedInv, GivenWhenExecuted, Idle
<1> QED
  BY <1>6, <1>7

\* A piece goes behind what was given before, in the accumulator as in the count of
\* the application.
LEMMA PieceAppended ==
  ASSUME NEW n \in Params, NEW b \in Binding, NEW v \in Value, NEW g \in Value,
         CType[n] = "char", ~v.null,
         \/ b.count = 0 /\ g = Unset
         \/ b.count = 1 /\ b.accumulator = g
  PROVE  /\ valueSet(n, b, v, b.count = 0) = append(g, v)
         /\ accumulated(n, b, v, b.count = 0) = append(g, v)
<1>1. v.null = FALSE
  BY DEF Value
<1>2. CASE b.count = 0 /\ g = Unset
  <2>1. append(g, v) = v
    BY <1>1, <1>2, AppendType
  <2> QED
    BY <1>1, <1>2, <2>1 DEF valueSet, accumulated
<1>3. CASE b.count = 1 /\ b.accumulator = g
  <2>1. b.count # 0
    BY <1>3
  <2> QED
    BY <1>1, <1>3, <2>1 DEF valueSet, accumulated
<1> QED
  BY <1>2, <1>3

\* What SQLPutData makes of what was given.
LEMMA PutDataApp ==
  ASSUME TypeInv, NEW length \in Pieces[currentPutDataParam], SQLPutData(length)
  PROVE  LET n == currentPutDataParam
             b == parameters[n]
             v == pieceValue(setParamLength(b, length))
         IN  /\ app'.given = [app.given EXCEPT ![n] = gave(n, length)]
             /\ app'.complete = IF gaveAll(n, length) THEN app.complete \cup {n}
                                ELSE app.complete
             /\ app'.indicator = app.indicator
             /\ statement'.values = IF Refused(n, v) THEN statement.values
                                    ELSE [statement.values EXCEPT
                                            ![n] = valueSet(n, b, v, b.count = 0)]
             /\ ret'.executed = FALSE
             /\ phase' = IF ~(setParamLength(b, length) < length) /\ Refused(n, v)
                         THEN "idle" ELSE "can"
             /\ currentPutDataParam' = currentPutDataParam
<1> DEFINE n == currentPutDataParam
           b == parameters[n]
           v == pieceValue(setParamLength(b, length))
           all == IF gaveAll(n, length) THEN app.complete \cup {n} ELSE app.complete
           code == IF setParamLength(b, length) < length THEN "SQL_SUCCESS_WITH_INFO"
                   ELSE IF Refused(n, v) THEN "SQL_ERROR" ELSE "SQL_SUCCESS"
<1>1. TypeOK
  BY DEF TypeInv
<1>2. /\ app' = [app EXCEPT !.given[n] = gave(n, length), !.complete = all]
      /\ statement' = IF Refused(n, v) THEN statement
                      ELSE [statement EXCEPT !.values[n] = valueSet(n, b, v, b.count = 0)]
      /\ phase' = IF code = "SQL_ERROR" THEN "idle" ELSE "can"
      /\ Return("SQLPutData", code, FALSE)
      /\ currentPutDataParam' = currentPutDataParam
  BY DEF SQLPutData
<1> HIDE DEF n, b, v, all
<1>3. /\ app'.given = [app.given EXCEPT ![n] = gave(n, length)]
      /\ app'.complete = all /\ app'.indicator = app.indicator
  BY <1>1, <1>2 DEF TypeOK
<1>4. statement'.values = IF Refused(n, v) THEN statement.values
                          ELSE [statement.values EXCEPT
                                  ![n] = valueSet(n, b, v, b.count = 0)]
  BY <1>1, <1>2 DEF TypeOK
<1>5. ret'.executed = FALSE
  BY <1>2, ReturnExecuted
<1>6. phase' = IF ~(setParamLength(b, length) < length) /\ Refused(n, v)
               THEN "idle" ELSE "can"
  BY <1>2
<1> QED
  BY <1>2, <1>3, <1>4, <1>5, <1>6 DEF n, b, v, all

\* For a parameter whose data comes in one piece.
LEMMA PutWhole ==
  ASSUME TypeInv, NEW length \in Pieces[currentPutDataParam], SQLPutData(length),
         Untouched(currentPutDataParam), app.indicator[currentPutDataParam] = -2,
         currentPutDataParam \in inputs, phase' # "idle"
  PROVE  ~waiting(currentPutDataParam)' /\ Given(currentPutDataParam)'
<1> DEFINE n == currentPutDataParam
           b == parameters[n]
           v == pieceValue(setParamLength(b, length))
<1>1. /\ TypeOK /\ n \in Params /\ b \in Binding /\ length \in Nat \cup {-1, -3}
      /\ v \in Value /\ ~Idle
      /\ parameters'[n].dataAtExecLength = lengthLeft(b, length)
  BY PutDataResult DEF TypeInv
<1>2. b.dataAtExecLength = -2 /\ b.count = 0 /\ app.given[n] = Unset
  <2>1. app.turn \in Turns /\ app.indicator[n] \in Indicators[n]
    BY <1>1 DEF TypeInv, TypeOK, Owing
  <2>2. dataAtExecLength(n, app.indicator[n]) = -2
    BY <1>1, <2>1, BoundType DEF Untouched
  <2> QED
    BY <2>2 DEF Untouched
<1>3. setParamLength(b, length) = length /\ lengthLeft(b, length) = 0
  BY <1>1, <1>2, LengthsType
<1>4. v = pieceValue(length) /\ v # Unset
  BY <1>1, <1>3, PieceType
<1>5. ~Refused(n, v)
  <2>1. ~(setParamLength(b, length) < length)
    BY <1>1, <1>3
  <2> QED
    BY <2>1, PutDataApp
<1>6. statement'.values[n] = v
  <2>1. statement'.values = [statement.values EXCEPT ![n] = valueSet(n, b, v, b.count = 0)]
    BY <1>5, PutDataApp
  <2>2. valueSet(n, b, v, b.count = 0) = v
    BY <1>1, <1>2, AccumulatedType
  <2>3. statement.values \in [Params -> Value]
    BY <1>1 DEF TypeOK
  <2> HIDE DEF n, b, v
  <2> QED
    BY <1>1, <2>1, <2>2, <2>3
<1>7. gave(n, length) = v /\ gaveAll(n, length)
  <2>1. -100 - app.indicator[n] < 0
    OBVIOUS
  <2>2. gave(n, length) = IF length = -1 \/ CType[n] # "char" THEN pieceValue(length)
                          ELSE append(app.given[n], pieceValue(length))
    BY <2>1, ConstantsType DEF gave
  <2>3. length # -1 => append(app.given[n], v) = v
    <3>1. length # -1 => v.null = FALSE
      BY <1>1, <1>4, PieceType DEF Value
    <3> QED
      BY <1>1, <1>2, <3>1, ValueType, AppendType
  <2>4. gaveAll(n, length)
    BY ConstantsType DEF gaveAll
  <2> QED
    BY <1>4, <2>2, <2>3, <2>4
<1>8. app'.given[n] = v /\ n \in app'.complete
  <2>1. app'.given = [app.given EXCEPT ![n] = v] /\ app'.complete = app.complete \cup {n}
    BY <1>7, PutDataApp
  <2>2. app.given \in [Params -> Value]
    BY <1>1 DEF TypeOK
  <2> HIDE DEF n, v
  <2> QED
    BY <1>1, <2>1, <2>2
<1>9. currentPutDataParam' = currentPutDataParam
  BY PutDataApp
<1> HIDE DEF v, b
<1> QED
  BY <1>1, <1>3, <1>4, <1>6, <1>8, <1>9 DEF waiting, Given

\* For a parameter whose length was announced.
LEMMA PutPart ==
  ASSUME TypeInv, Announcing,
         NEW length \in Pieces[currentPutDataParam], SQLPutData(length),
         Untouched(currentPutDataParam) \/ InParts(currentPutDataParam),
         app.indicator[currentPutDataParam] # -2,
         currentPutDataParam \in inputs
  PROVE  IF waiting(currentPutDataParam)' THEN InParts(currentPutDataParam)'
         ELSE Given(currentPutDataParam)'
<1> DEFINE n == currentPutDataParam
           b == parameters[n]
           g == app.given[n]
           announced == -100 - app.indicator[n]
           copied == setParamLength(b, length)
           left == lengthLeft(b, length)
           v == pieceValue(copied)
<1>1. /\ TypeOK /\ n \in Params /\ b \in Binding /\ length \in Nat \cup {-1, -3}
      /\ v \in Value /\ waiting(n) /\ ~Idle
      /\ parameters'[n].count = 1
      /\ parameters'[n].dataAtExecLength = left
      /\ parameters'[n].accumulator = accumulated(n, b, v, b.count = 0)
  BY PutDataResult DEF TypeInv
<1>2. g \in Value /\ app.turn \in Turns /\ app.indicator[n] \in Indicators[n]
  BY <1>1 DEF TypeInv, TypeOK, Owing
<1>3. app.indicator[n] \in Int /\ app.indicator[n] < -100
  <2>1. app.indicator[n] \in Int
    BY <1>1, <1>2, IndicatorType
  <2>2. CASE Untouched(n)
    BY <1>1, <1>2, <2>1, <2>2, BoundType DEF Untouched, Turns
  <2>3. CASE InParts(n)
    BY <2>1, <2>3 DEF InParts
  <2> QED
    BY <2>1, <2>2, <2>3
<1>4. CType[n] = "char" /\ length # -1
  BY <1>1, <1>2, <1>3, ConstantsType DEF Announcing
<1>5. /\ b.dataAtExecLength \in Nat
      /\ b.dataAtExecLength = announced - g.bytes
      /\ g.bytes \in Nat /\ announced \in Nat
  <2>1. CASE Untouched(n)
    <3>1. b.dataAtExecLength = announced /\ g = Unset
      BY <1>1, <1>2, <2>1, BoundType DEF Untouched, Turns
    <3>2. g.bytes = 0
      BY <3>1 DEF Unset
    <3> QED
      BY <1>3, <3>1, <3>2
  <2>2. CASE InParts(n)
    <3>1. g.bytes \in Nat
      BY <1>2 DEF Value
    <3> QED
      BY <1>3, <2>2, <3>1 DEF InParts
  <2> QED
    BY <2>1, <2>2
<1>6. \/ b.count = 0 /\ g = Unset
      \/ b.count = 1 /\ b.accumulator = g
  BY DEF Untouched, InParts
<1>7. /\ copied \in Nat \cup {-3} /\ left \in Nat
      /\ length = -3 => copied = -3 /\ left = 0
      /\ length # -3 => /\ copied = IF b.dataAtExecLength <= length
                                    THEN b.dataAtExecLength ELSE length
                        /\ left = b.dataAtExecLength - copied
  <2>1. CASE length = -3
    BY <1>1, <2>1, LengthsType
  <2>2. CASE length \in Nat
    <3>1. /\ copied \in Nat /\ copied \in {b.dataAtExecLength, length}
          /\ copied <= b.dataAtExecLength /\ copied <= length
          /\ left = b.dataAtExecLength - copied /\ left \in Nat
      BY <1>1, <1>5, <2>2, LengthsType
    <3> HIDE DEF copied, left, b
    <3> QED
      BY <1>5, <2>2, <3>1
  <2> QED
    BY <1>1, <1>4, <2>1, <2>2
<1> DEFINE size == IF copied = -3 THEN StringLength ELSE copied
<1>8. v = Data(app.turn, size) /\ size \in Nat /\ ~v.null /\ v.turns = {app.turn}
      /\ v.bytes = size
  <2>1. size \in Nat /\ copied # -1
    BY <1>7, ConstantsType
  <2>2. v = Data(app.turn, size)
    BY <1>1, <1>7, <2>1, PieceType
  <2> HIDE DEF size
  <2> QED
    BY <1>2, <2>1, <2>2, ValueType
<1> DEFINE after == append(g, v)
<1>9. /\ after \in Value /\ after.null = FALSE /\ after.turns = g.turns \cup {app.turn}
      /\ after.bytes = g.bytes + size
  <2>1. /\ after \in Value /\ after.null = FALSE /\ after.turns = g.turns \cup v.turns
        /\ after.bytes = g.bytes + v.bytes
    BY <1>1, <1>2, AppendType
  <2> HIDE DEF after, g, v, size
  <2> QED
    BY <1>8, <2>1
<1>10. /\ valueSet(n, b, v, b.count = 0) = after
       /\ accumulated(n, b, v, b.count = 0) = after
  BY <1>1, <1>2, <1>4, <1>6, <1>8, PieceAppended
<1>11. statement'.values[n] = after
  <2>1. ~Refused(n, v)
    BY <1>4 DEF Refused
  <2>2. statement'.values = [statement.values EXCEPT ![n] = valueSet(n, b, v, b.count = 0)]
    BY <2>1, PutDataApp
  <2>3. statement.values \in [Params -> Value]
    BY <1>1 DEF TypeOK
  <2> HIDE DEF n, b, v, after
  <2> QED
    BY <1>1, <1>10, <2>2, <2>3
<1>12. after # Unset
  BY <1>9 DEF Unset
<1>13. gave(n, length) = after
  <2>1. pieceValue(length) = Data(app.turn, IF length = -3 THEN StringLength ELSE length)
    BY <1>1, <1>4, PieceType
  <2>2. CASE length = -3
    <3>1. gave(n, length) = append(g, pieceValue(length))
      BY <1>4, <2>2, ConstantsType DEF gave
    <3>2. pieceValue(length) = v
      BY <1>7, <1>8, <2>1, <2>2
    <3> QED
      BY <3>1, <3>2
  <2>3. CASE length # -3
    <3>1. length \in Nat
      BY <1>1, <1>4, <2>3
    <3> DEFINE all == append(g, Data(app.turn, length))
    <3>2. gave(n, length) = [all EXCEPT !.bytes = Lesser(all.bytes, announced)]
      <4>1. ~(announced < 0) /\ pieceValue(length) = Data(app.turn, length)
        BY <1>5, <2>1, <2>3
      <4> QED
        BY <1>4, <2>3, <4>1, ConstantsType DEF gave
    <3>3. /\ all \in Value /\ all.null = FALSE /\ all.turns = g.turns \cup {app.turn}
          /\ all.bytes = g.bytes + length
      <4>1. /\ Data(app.turn, length) \in Value
            /\ Data(app.turn, length).turns = {app.turn}
            /\ Data(app.turn, length).bytes = length
        BY <1>2, <3>1, ValueType
      <4> DEFINE w == Data(app.turn, length)
      <4>2. /\ all \in Value /\ all.null = FALSE /\ all.turns = g.turns \cup w.turns
            /\ all.bytes = g.bytes + w.bytes
        BY <1>2, <4>1, AppendType
      <4> HIDE DEF all, g, w
      <4> QED
        BY <4>1, <4>2 DEF w
    <3> HIDE DEF all
    <3>4. Lesser(all.bytes, announced) = after.bytes
      <4>1. size = IF b.dataAtExecLength <= length THEN b.dataAtExecLength ELSE length
        BY <1>7, <2>3, <3>1, <1>5
      <4> HIDE DEF announced, size, b, g
      <4>2. after.bytes = IF announced <= g.bytes + length THEN announced
                          ELSE g.bytes + length
        BY <1>5, <1>9, <3>1, <4>1
      <4>3. Lesser(all.bytes, announced) = IF g.bytes + length <= announced
                                           THEN g.bytes + length ELSE announced
        BY <3>3 DEF Lesser
      <4> QED
        BY <1>5, <3>1, <4>2, <4>3
    <3>5. [all EXCEPT !.bytes = after.bytes]
            = [turns |-> all.turns, bytes |-> after.bytes, null |-> all.null]
      <4>1. all = [turns |-> all.turns, bytes |-> all.bytes, null |-> all.null]
        BY <3>3 DEF Value
      <4> DEFINE t == all.turns
                 c == all.bytes
                 z == all.null
                 d == after.bytes
      <4>2. all = [turns |-> t, bytes |-> c, null |-> z]
        BY <4>1
      <4> HIDE DEF t, c, z, d
      <4>3. [all EXCEPT !.bytes = d] = [turns |-> t, bytes |-> d, null |-> z]
        BY <4>2
      <4> QED
        BY <4>3 DEF t, z, d
    <3>6. after = [turns |-> after.turns, bytes |-> after.bytes, null |-> after.null]
      BY <1>9 DEF Value
    <3> HIDE DEF after
    <3> QED
      BY <1>9, <3>2, <3>3, <3>4, <3>5, <3>6
  <2> QED
    BY <2>2, <2>3
<1>14. app'.given[n] = after
  <2>1. app'.given = [app.given EXCEPT ![n] = after]
    BY <1>13, PutDataApp
  <2>2. app.given \in [Params -> Value]
    BY <1>1 DEF TypeOK
  <2> HIDE DEF n, after
  <2> QED
    BY <1>1, <2>1, <2>2
<1>15. left = 0 => n \in app'.complete
  <2>1. left = 0 => gaveAll(n, length)
    <3>1. CASE length = -3
      BY <3>1, ConstantsType DEF gaveAll
    <3>2. CASE length # -3 /\ left = 0
      <4>1. length \in Nat
        BY <1>1, <1>4, <3>2
      <4> HIDE DEF left, copied, b, g, announced
      <4>2. b.dataAtExecLength <= length
        BY <1>5, <1>7, <3>2, <4>1
      <4>3. g.bytes + length >= announced
        BY <1>5, <4>1, <4>2
      <4> QED
        BY <4>3, ConstantsType DEF gaveAll, g, announced
    <3> QED
      BY <3>1, <3>2
  <2> QED
    BY <2>1, PutDataApp
<1>16. left # 0 => left = announced - after.bytes
  <2>1. SUFFICES ASSUME left # 0 PROVE left = announced - after.bytes
    OBVIOUS
  <2>2. length # -3
    BY <1>7, <2>1
  <2>3. copied \in Nat /\ size = copied
    <3>1. length \in Nat
      BY <1>1, <1>4, <2>2
    <3> HIDE DEF left, copied, b, g, announced
    <3> QED
      BY <1>5, <1>7, <2>2, <3>1
  <2> HIDE DEF left, copied, b, g, announced, after, size
  <2> QED
    BY <1>5, <1>7, <1>9, <2>2, <2>3
<1>17. app'.indicator = app.indicator /\ currentPutDataParam' = currentPutDataParam
  BY PutDataApp
<1>18. CASE left = 0
  <2> HIDE DEF left, after, v, b
  <2> QED
    BY <1>1, <1>11, <1>12, <1>14, <1>15, <1>17, <1>18 DEF waiting, Given
<1>19. CASE left # 0
  <2> HIDE DEF left, after, v, b
  <2> QED
    BY <1>1, <1>3, <1>7, <1>9, <1>10, <1>11, <1>12, <1>14, <1>16, <1>17, <1>19
    DEF waiting, InParts
<1> QED
  BY <1>18, <1>19

\* SQLPutData changes the parameter SQLParamData is at, and no other.
LEMMA PutDataOthers ==
  ASSUME TypeInv, NEW length \in Pieces[currentPutDataParam], SQLPutData(length),
         NEW m \in DOMAIN parameters, m # currentPutDataParam
  PROVE  /\ waiting(m)' <=> waiting(m)
         /\ Untouched(m) => Untouched(m)'
         /\ InParts(m) => InParts(m)'
         /\ Given(m) => Given(m)'
<1> DEFINE n == currentPutDataParam
<1>1. /\ TypeOK /\ n \in Params /\ m \in Params
      /\ parameters'[m] = parameters[m]
  BY PutDataResult, InputsType DEF TypeInv
<1>2. /\ \E g : app'.given = [app.given EXCEPT ![n] = g]
      /\ app.complete \subseteq app'.complete
      /\ app'.indicator = app.indicator
      /\ \/ statement'.values = statement.values
         \/ \E v : statement'.values = [statement.values EXCEPT ![n] = v]
  BY PutDataApp
<1>3. app.given \in [Params -> Value] /\ statement.values \in [Params -> Value]
  BY <1>1 DEF TypeOK
<1> HIDE DEF n
<1>4. app'.given[m] = app.given[m] /\ statement'.values[m] = statement.values[m]
  BY <1>1, <1>2, <1>3 DEF n
<1>5. waiting(m)' <=> waiting(m)
  BY <1>1 DEF waiting
<1>6. Untouched(m) => Untouched(m)'
  BY <1>1, <1>2, <1>4 DEF Untouched, AtExec, dataAtExecLength
<1>7. InParts(m) => InParts(m)'
  BY <1>1, <1>2, <1>4 DEF InParts
<1>8. Given(m) => Given(m)'
  BY <1>2, <1>4 DEF Given
<1> QED
  BY <1>5, <1>6, <1>7, <1>8

LEMMA PutDataGiven ==
  ASSUME DataInv, Announcing,
         NEW length \in Pieces[currentPutDataParam], SQLPutData(length)
  PROVE  OwedInv' /\ GivenWhenExecuted'
<1> DEFINE n == currentPutDataParam
<1>1. TypeInv /\ TypeOK /\ OwedInv
  BY DEF DataInv, TypeInv
<1>2. /\ n \in DOMAIN parameters /\ waiting(n) /\ ~Idle
      /\ parameters' \in Seq(Binding) /\ Len(parameters') = Len(parameters)
      /\ inputs' = inputs
  BY <1>1, PutDataResult
<1>3. ret'.executed = FALSE /\ n' = n /\ phase' \in {"idle", "can"}
  BY <1>1, PutDataApp
<1>4. /\ n \in inputs
      /\ \A m \in DOMAIN parameters : waiting(m) => m \in inputs
      /\ \A m \in inputs : IF waiting(m) THEN Untouched(m) \/ InParts(m) ELSE Given(m)
      /\ \A m \in inputs : m < n => ~waiting(m)
  BY <1>1, <1>2 DEF OwedInv
<1>5. CASE phase' = "idle"
  BY <1>3, <1>5, NothingOwed
<1>6. CASE phase' # "idle"
  <2>1. IF waiting(n)' THEN InParts(n)' ELSE Given(n)'
    <3>1. Untouched(n) \/ InParts(n)
      BY <1>2, <1>4
    <3>2. CASE app.indicator[n] = -2
      <4>1. ~InParts(n)
        BY <3>2 DEF InParts
      <4>2. ~waiting(n)' /\ Given(n)'
        BY <1>1, <1>4, <1>6, <3>1, <3>2, <4>1, PutWhole
      <4> QED
        BY <4>2
    <3>3. CASE app.indicator[n] # -2
      BY <1>1, <1>4, <3>1, <3>3, PutPart
    <3> QED
      BY <3>2, <3>3
  <2>2. /\ DOMAIN parameters' = DOMAIN parameters
        /\ \A m \in inputs : m \in DOMAIN parameters
        /\ Len(parameters) \in Nat /\ DOMAIN parameters = 1 .. Len(parameters)
    BY <1>1, <1>2, InputsType
  <2>3. \A m \in DOMAIN parameters : m # n =>
          /\ waiting(m)' <=> waiting(m)
          /\ Untouched(m) => Untouched(m)'
          /\ InParts(m) => InParts(m)'
          /\ Given(m) => Given(m)'
    BY <1>1, PutDataOthers
  <2> HIDE DEF n
  <2>4. \A m \in inputs : IF waiting(m)' THEN Untouched(m)' \/ InParts(m)' ELSE Given(m)'
    <3> TAKE m \in inputs
    <3>1. CASE m = n
      BY <2>1, <3>1, <1>3
    <3>2. CASE m # n
      BY <1>4, <2>2, <2>3, <3>2
    <3> QED
      BY <3>1, <3>2
  <2>5. \A m \in DOMAIN parameters : waiting(m)' => m \in inputs
    BY <1>4, <2>3
  <2>6. \A m \in inputs : m < n => ~waiting(m)'
    BY <1>4, <2>2, <2>3
  <2> QED
    BY <1>2, <1>3, <1>4, <2>2, <2>4, <2>5, <2>6 DEF OwedInv, GivenWhenExecuted, n
<1> QED
  BY <1>5, <1>6

LEMMA DataNext ==
  ASSUME Announcing
  PROVE  DataInv /\ [Next]_vars => DataInv'
<1> SUFFICES ASSUME DataInv, [Next]_vars PROVE DataInv'
  OBVIOUS
<1>1. TypeInv /\ TypeInv'
  BY TypeNext DEF DataInv
<1>2. CASE BindOrPrepare
  <2>1. phase' = "idle" /\ \E call : Return(call, "SQL_SUCCESS", FALSE)
    BY <1>2 DEF BindOrPrepare, SQLPrepare, SQLBindParameter, ResetParams, Idle
  <2> QED
    BY <1>1, <2>1, ReturnExecuted, NothingOwed DEF DataInv
<1>3. ASSUME NEW ind \in IndicatorChoices,
             SQLExecuteRefused(ind) \/ SQLExecuteNeedsData(ind) \/ SQLExecute(ind)
      PROVE  DataInv'
  BY <1>1, <1>3, ExecuteGiven DEF DataInv
<1>4. CASE SQLParamDataAsks \/ SQLParamDataExecutes
  BY <1>1, <1>4, ParamDataGiven DEF DataInv
<1>5. ASSUME NEW n \in Params, n = currentPutDataParam,
             NEW length \in Pieces[n], SQLPutData(length)
      PROVE  DataInv'
  BY <1>1, <1>5, PutDataGiven DEF DataInv
<1>6. CASE SQLPutDataUnasked \/ SQLCancel
  <2>1. phase' = "idle" /\ \E call, code : Return(call, code, FALSE)
    BY <1>6 DEF SQLPutDataUnasked, SQLCancel
  <2> QED
    BY <1>1, <2>1, ReturnExecuted, NothingOwed DEF DataInv
<1>7. CASE UNCHANGED vars
  <2>1. inputs' = inputs
    BY <1>7 DEF inputs, vars
  <2>2. ASSUME NEW n
        PROVE  /\ waiting(n)' <=> waiting(n)
               /\ Untouched(n)' <=> Untouched(n)
               /\ InParts(n)' <=> InParts(n)
               /\ Given(n)' <=> Given(n)
    BY <1>7 DEF vars, waiting, Untouched, InParts, Given, AtExec, dataAtExecLength
  <2>3. OwedInv' /\ GivenWhenExecuted'
    BY <1>7, <2>1, <2>2 DEF vars, DataInv, OwedInv, GivenWhenExecuted, Idle
  <2> QED
    BY <1>1, <2>3 DEF DataInv
<1> QED
  BY <1>2, <1>3, <1>4, <1>5, <1>6, <1>7 DEF Next

-----------------------------------------------------------------------------
(***************************************************************************)
(* What the database executes with.                                        *)
(***************************************************************************)
\* Spec => []ExecutedWithGiven: each bound input reaches the database as the application
\* gave it in this execution, with nothing missing between its pieces and nothing left
\* of an execution before.
THEOREM ExecutedWithGivenCorrect ==
  ASSUME Announcing
  PROVE  Spec => []ExecutedWithGiven
<1>1. DataInv => ExecutedWithGiven
  BY DEF DataInv, GivenWhenExecuted, Given, ExecutedWithGiven
<1> QED
  BY <1>1, DataInit, DataNext, PTL DEF Spec

\* Spec => []ExecutedWhenComplete: the statement is not executed before every parameter
\* has all the data that was announced for it.
THEOREM ExecutedWhenCompleteCorrect ==
  ASSUME Announcing
  PROVE  Spec => []ExecutedWhenComplete
<1>1. DataInv => ExecutedWhenComplete
  BY DEF DataInv, GivenWhenExecuted, Given, ExecutedWhenComplete
<1> QED
  BY <1>1, DataInit, DataNext, PTL DEF Spec

\* Spec => []PlaceOfParamData: while data is owed, SQLParamData stands at a binding, at an
\* input once it has named one, and every input before it is done.
THEOREM PlaceOfParamDataCorrect ==
  ASSUME Announcing
  PROVE  Spec => []PlaceOfParamData
<1>1. DataInv => PlaceOfParamData
  BY DEF DataInv, TypeInv, Owing, OwedInv, Given, Idle, PlaceOfParamData
<1> QED
  BY <1>1, DataInit, DataNext, PTL DEF Spec
-----------------------------------------------------------------------------
(***************************************************************************)
(* The loop of SQLParamData and SQLPutData.                                *)
(***************************************************************************)
\* How far the loop is from its end: the bindings behind the place, the bytes owed
\* at it, and whether SQLParamData has still to name it.
PlacesLeft == Len(parameters) - currentPutDataParam
BytesOwed ==
  LET length == parameters[currentPutDataParam].dataAtExecLength
  IN  IF length = SQL_DATA_AT_EXEC THEN 1 ELSE length
ToName == IF phase = "must" THEN 0 ELSE 1

OwingCounted == phase # "idle" => PlacesLeft \in Nat /\ BytesOwed \in Nat /\ ToName \in Nat

CloserToTheEnd ==
  \/ PlacesLeft' < PlacesLeft
  \/ PlacesLeft' = PlacesLeft /\ BytesOwed' < BytesOwed
  \/ PlacesLeft' = PlacesLeft /\ BytesOwed' = BytesOwed /\ ToName' < ToName

\* The loop of an application that brings data when it is asked, and asks again.
LoopStep == SQLParamDataAsks \/ SQLParamDataExecutes \/ PutSome

ParameterLoopForward == [][LoopStep => phase' = "idle" \/ CloserToTheEnd]_vars

LEMMA OwingBounded == TypeInv => OwingCounted
<1> SUFFICES ASSUME TypeInv, phase # "idle"
             PROVE  PlacesLeft \in Nat /\ BytesOwed \in Nat /\ ToName \in Nat
  BY DEF OwingCounted
<1>1. /\ parameters \in Seq(Binding) /\ Len(parameters) \in Nat
      /\ currentPutDataParam \in 1 .. Len(parameters)
  BY DEF TypeInv, TypeOK, Owing, Idle
<1>2. parameters[currentPutDataParam] \in Binding
  BY <1>1
<1>3. parameters[currentPutDataParam].dataAtExecLength \in Nat \cup {-2}
  BY <1>2, BindingType
<1> QED
  BY <1>1, <1>3 DEF PlacesLeft, BytesOwed, ToName, SQL_DATA_AT_EXEC

\* SQLParamData names the place it stands at once, or goes on to the right.
LEMMA AsksForward ==
  ASSUME TypeInv, SQLParamDataAsks
  PROVE  CloserToTheEnd
<1>1. /\ Len(parameters) \in Nat /\ currentPutDataParam \in 1 .. Len(parameters)
      /\ parameters' = parameters /\ phase \in {"need", "can"} /\ phase' = "must"
  BY DEF TypeInv, TypeOK, Owing, Idle, SQLParamDataAsks
<1>2. currentPutDataParam' \in currentPutDataParam .. Len(parameters)
  BY DEF SQLParamDataAsks, Waiting
<1>3. CASE currentPutDataParam' = currentPutDataParam
  BY <1>1, <1>3 DEF CloserToTheEnd, PlacesLeft, BytesOwed, ToName
<1>4. CASE currentPutDataParam' # currentPutDataParam
  BY <1>1, <1>2, <1>4 DEF CloserToTheEnd, PlacesLeft
<1> QED
  BY <1>3, <1>4

\* A piece that brings something lowers what is owed.
LEMMA PutSomeForward ==
  ASSUME TypeInv, PutSome
  PROVE  CloserToTheEnd
<1>1. PICK length \in Pieces[currentPutDataParam] : length > 0 /\ SQLPutData(length)
  BY DEF PutSome
<1> DEFINE n == currentPutDataParam
           b == parameters[n]
<1>2. /\ b \in Binding /\ length \in Nat \cup {-1, -3} /\ waiting(n)
      /\ Len(parameters') = Len(parameters)
      /\ parameters'[n].dataAtExecLength = lengthLeft(b, length)
  BY <1>1, PutDataResult
<1>3. currentPutDataParam' = n
  BY <1>1 DEF SQLPutData
<1>4. b.dataAtExecLength \in Nat \cup {-2} /\ b.dataAtExecLength # 0
  BY <1>2, BindingType DEF waiting
<1>5. length \in Nat \ {0}
  BY <1>1, <1>2
<1>6. b.dataAtExecLength = -2 => lengthLeft(b, length) = 0
  BY <1>2, LengthsType
<1>7. b.dataAtExecLength \in Nat =>
        /\ lengthLeft(b, length) \in Nat
        /\ lengthLeft(b, length) < b.dataAtExecLength
  <2> DEFINE copied == setParamLength(b, length)
  <2>1. b.dataAtExecLength \in Nat =>
          /\ copied \in Nat /\ copied \in {b.dataAtExecLength, length}
          /\ lengthLeft(b, length) = b.dataAtExecLength - copied
          /\ copied <= b.dataAtExecLength
    BY <1>2, <1>5, LengthsType
  <2> HIDE DEF copied, b
  <2> QED
    BY <1>4, <1>5, <2>1
<1>8. PlacesLeft' = PlacesLeft
  BY <1>2, <1>3 DEF PlacesLeft
<1>9. BytesOwed' = IF lengthLeft(b, length) = -2 THEN 1 ELSE lengthLeft(b, length)
  BY <1>2, <1>3 DEF BytesOwed, SQL_DATA_AT_EXEC
<1>10. BytesOwed = IF b.dataAtExecLength = -2 THEN 1 ELSE b.dataAtExecLength
  BY DEF BytesOwed, SQL_DATA_AT_EXEC
<1> HIDE DEF b, n
<1> QED
  BY <1>4, <1>6, <1>7, <1>8, <1>9, <1>10 DEF CloserToTheEnd

\* Every step of the loop ends it or brings it closer to its end, in an order in which
\* no such steps go on for ever; a piece of no bytes is no step of it, and may bring nothing.
\* It needs no assumption about what the application announces.
THEOREM ParameterLoopForwardCorrect == Spec => ParameterLoopForward /\ []OwingCounted
<1>1. TypeInv => (LoopStep => phase' = "idle" \/ CloserToTheEnd)
  BY AsksForward, PutSomeForward
  DEF LoopStep, SQLParamDataExecutes, doExecuteStatement
<1> QED
  BY <1>1, OwingBounded, TypeInit, TypeNext, PTL DEF Spec, ParameterLoopForward
=============================================================================
