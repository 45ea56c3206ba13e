----------------------------- MODULE OdbcConnect -----------------------------
(***************************************************************************)
(* How a connection handle comes by its parameters and its session:        *)
(* SQLConnect, SQLDriverConnect, and SQLBrowseConnect, a conversation of   *)
(* several calls; the isolation level set before or after; and the         *)
(* diagnostics these calls leave, to be read record by record.             *)
(*                                                                         *)
(* A connection string is a sequence of pairs, a keyword and its value; a  *)
(* value is a sequence of words, the empty one being no value.  phase is   *)
(* the driver manager's state of the handle; it frees the driver's         *)
(* connection after a failed connect and after SQLDisconnect, so that      *)
(* another attempt starts from a new object.                               *)
(***************************************************************************)
EXTENDS Integers, FiniteSets, SequencesExt

CONSTANTS
  Words,      \* what values are made of
  Strings,    \* the connection strings of the application
  Answer,     \* its answers to SQLBrowseConnect: a string for what it is asked for
  Names,      \* the users and passwords it connects with by SQLConnect
  Sources,    \* odbc.ini: the entries of each data source
  Isolations, \* the isolation levels
  MaxCalls    \* bound on the calls of one conversation, the answers not counted

Value == Seq(Words)
Empty == << >>

Keywords == {"DSN", "DBNAME", "DATABASE", "UID", "UIC", "PWD", "DRIVER", "SCHEMA", "other"}
Pair == [name : Keywords, value : Value]
Entries == {"Dbname", "Database", "ServerName", "Port", "User", "Password", "Schema"}

ASSUME WordsAssumption == {"@", ":", "NuoDB ODBC Driver"} \subseteq Words
ASSUME StringsAssumption == Strings \subseteq Seq(Pair) /\ Names \subseteq Value
ASSUME SourcesAssumption ==
  /\ DOMAIN Sources \subseteq Value
  /\ \A dsn \in DOMAIN Sources : Sources[dsn] \in [Entries -> Value]
ASSUME IsolationsAssumption == "serializable" \in Isolations
ASSUME BoundsAssumption == MaxCalls \in Nat

VARIABLES
  h,     \* the OdbcConnection object
  db,    \* the session of the database
  phase, \* what the driver manager lets through
  app,   \* what the application said in this attempt, and what it has read
  ret    \* the last call that returned

vars == <<h, db, phase, app, ret>>

-----------------------------------------------------------------------------
(***************************************************************************)
(* Connection strings and data sources.                                    *)
(***************************************************************************)
Parameters == {"dsn", "databaseName", "account", "password", "driver", "schema"}

\* Mutant of naming: the user goes by one keyword, and not by that which
\* SQLBrowseConnect asks for it with.
namingUser == [dsn |-> {"DSN"}, databaseName |-> {"DBNAME", "DATABASE"}, account |-> {"UID"},
               password |-> {"PWD"}, driver |-> {"DRIVER"}, schema |-> {"SCHEMA"}]

\* The keywords of a parameter.
naming == [dsn |-> {"DSN"}, databaseName |-> {"DBNAME", "DATABASE"},
           account |-> {"UID", "UIC"}, password |-> {"PWD"},
           driver |-> {"DRIVER"}, schema |-> {"SCHEMA"}]

\* The value without the braces around it.
trim(v) ==
  LET first == SelectInSeq(v, LAMBDA w : w \notin {"{", "}"})
      last == SelectLastInSeq(v, LAMBDA w : w \notin {"{", "}"})
  IN  IF first = 0 THEN Empty ELSE SubSeq(v, first, last)

\* The place of the last pair that names the parameter; 0 if none does.
lastNaming(string, p) == SelectLastInSeq(string, LAMBDA pair : pair.name \in naming[p])

\* A value as the parameter takes it.
taken(p, v) == IF p \in {"databaseName", "driver"} THEN trim(v) ELSE v

\* What a string says of a parameter, or else the value it has.
said(string, p, v) ==
  LET i == lastNaming(string, p) IN IF i = 0 THEN v ELSE taken(p, string[i].value)

\* Mutant of assign: a string that does not name a parameter takes it away.
assignAnew(param, string) == [p \in Parameters |-> said(string, p, Empty)]

\* The loop over a connection string, which assigns pair by pair.
assign(param, string) == [p \in Parameters |-> said(string, p, param[p])]

\* How many keywords of a string the driver does not know.
unknown(string) ==
  Cardinality({i \in DOMAIN string : \A p \in Parameters : string[i].name \notin naming[p]})

readAttribute(dsn, entry) == IF dsn \in DOMAIN Sources THEN Sources[dsn][entry] ELSE Empty

\* The address of the database: as such, or put together from other entries.
address(dsn) ==
  LET read(entry) == readAttribute(dsn, entry)
      server == IF read("ServerName") = Empty THEN Empty
                ELSE <<"@">> \o read("ServerName") \o
                     (IF read("Port") = Empty THEN Empty ELSE <<":">> \o read("Port"))
  IN  IF read("Dbname") # Empty THEN read("Dbname")
      ELSE IF read("Database") = Empty THEN Empty
      ELSE read("Database") \o server

sourceValue(dsn, p) ==
  CASE p = "databaseName" -> address(dsn)
    [] p = "account" -> readAttribute(dsn, "User")
    [] p = "password" -> readAttribute(dsn, "Password")
    [] p = "schema" -> readAttribute(dsn, "Schema")
    [] OTHER -> Empty

\* Mutant of expandConnectParameters: the data source has the last word.
expandOverrides(param) ==
  IF param["dsn"] = Empty THEN param
  ELSE [p \in Parameters |-> LET v == sourceValue(param["dsn"], p)
                             IN  IF v = Empty THEN param[p] ELSE v]

\* The data source fills in what has no value.
expandConnectParameters(param) ==
  IF param["dsn"] = Empty THEN param
  ELSE [p \in Parameters |-> IF param[p] # Empty THEN param[p]
                             ELSE sourceValue(param["dsn"], p)]

\* Mutant of completeString: it names no schema.
completeStringWithoutSchema(param) ==
  <<[name |-> "DSN", value |-> param["dsn"]], [name |-> "UIC", value |-> param["account"]],
    [name |-> "PWD", value |-> param["password"]], [name |-> "DRIVER", value |-> param["driver"]]>>

\* The string that is handed back.
completeString(param) ==
  <<[name |-> "DSN", value |-> param["dsn"]],
    [name |-> "UIC", value |-> param["account"]],
    [name |-> "PWD", value |-> param["password"]],
    [name |-> "SCHEMA", value |-> param["schema"]],
    [name |-> "DRIVER", value |-> param["driver"]]>>

-----------------------------------------------------------------------------
(***************************************************************************)
(* The handle, its session, its diagnostics.                               *)
(***************************************************************************)
SqlStates == {"01004", "01S00", "08003", "08004", "HY092", "HY096", "08000"}
Records(n, state) == [i \in 1 .. n |-> state]

NewParameters == [p \in Parameters |-> IF p = "driver" THEN <<"NuoDB ODBC Driver">> ELSE Empty]
NewHandle ==
  [param |-> NewParameters, isolation |-> "serializable", connected |-> FALSE,
   errors |-> << >>, infoPosted |-> FALSE]

NoSession == [open |-> FALSE, param |-> NewParameters, isolation |-> "serializable"]

\* Mutant of clearErrors: the records go, the flag that there are some stays.
clearErrorsOnly(o) == [o EXCEPT !.errors = << >>]
clearErrors(o) == [o EXCEPT !.errors = << >>, !.infoPosted = FALSE]

postErrors(o, records) ==
  [o EXCEPT !.errors = @ \o records, !.infoPosted = @ \/ records # << >>]

sqlSuccess(o) == IF o.infoPosted THEN "SQL_SUCCESS_WITH_INFO" ELSE "SQL_SUCCESS"

Buffers == {"fits", "short", "none"}

\* Mutant of truncation: another state is posted.
truncationOther(buffer) == IF buffer = "fits" THEN << >> ELSE <<"01S02">>

\* What is posted over a string that is handed back, into a buffer that holds
\* it, one that does not, or none: setString answers TRUE for both of the last,
\* and its caller posts a record for that.
truncation(buffer) ==
  CASE buffer = "fits" -> << >>
    [] buffer = "short" -> <<"01004", "01004">>
    [] buffer = "none" -> <<"01004">>

\* A call returns: out is what it handed back, missing what it asks for, posted
\* the records it added.
Return(call, code, out, missing, posted) ==
  ret' = [call |-> call, code |-> code, out |-> out, missing |-> missing, posted |-> posted]

\* What the application said; nothing read yet of what there is to read.
Said(string, isolation) ==
  app' = [said |-> app.said \o string, calls |-> app.calls + 1, isolation |-> isolation,
          next |-> 1, seen |-> << >>, due |-> h'.errors]
NothingSaid ==
  [said |-> << >>, calls |-> 0, isolation |-> "serializable",
   next |-> 1, seen |-> << >>, due |-> << >>]

Init ==
  /\ h = NewHandle
  /\ db = NoSession
  /\ phase = "allocated"
  /\ app = NothingSaid
  /\ ret = [call |-> "SQLAllocHandle", code |-> "SQL_SUCCESS", out |-> << >>,
            missing |-> {}, posted |-> << >>]

-----------------------------------------------------------------------------
(***************************************************************************)
(* Connecting.                                                             *)
(***************************************************************************)
\* Mutant of opened: the session keeps the isolation level it is born with.
openedAsBorn(o) == [open |-> TRUE, param |-> o.param, isolation |-> "serializable"]

\* What openDatabase is given, and the isolation level afterwards.
opened(o) == [open |-> TRUE, param |-> o.param, isolation |-> o.isolation]

\* connect(), from the handle o, with the records posted so far: the database
\* opens, or throws.
connect(call, o, string, out, posted) ==
  \/ /\ h' = [o EXCEPT !.connected = TRUE]
     /\ db' = opened(o)
     /\ phase' = "connected"
     /\ Said(string, app.isolation)
     /\ Return(call, sqlSuccess(o), out, {}, posted)
  \/ /\ h' = postErrors(o, <<"08004">>)
     /\ db' = NoSession
     /\ phase' = "released"
     /\ Said(string, app.isolation)
     /\ Return(call, "SQL_ERROR", out, {}, posted \o <<"08004">>)

\* SQLConnect, whose arguments are given here as a string.
Arguments(dsn, uid, passwd) ==
  <<[name |-> "DSN", value |-> dsn], [name |-> "UID", value |-> uid],
    [name |-> "PWD", value |-> passwd]>>
SQLConnect(dsn, uid, passwd) ==
  LET o == clearErrors(h)
      string == Arguments(dsn, uid, passwd)
  IN  /\ phase = "allocated"
      /\ connect("SQLConnect",
                 [o EXCEPT !.param = expandConnectParameters(assign(@, string))],
                 string, << >>, << >>)

\* The handle after a connection string, and what it posts.
parsed(string) ==
  LET o == [clearErrors(h) EXCEPT !.param = assign(@, string)]
  IN  postErrors(o, Records(unknown(string), "01S00"))

\* From a string that is complete to the session: the parameters are expanded,
\* handed back and used.
connectWith(call, string, buffer) ==
  \E o \in {[parsed(string) EXCEPT !.param = expandConnectParameters(@)]} :
    connect(call, postErrors(o, truncation(buffer)), string,
            IF buffer = "fits" THEN completeString(o.param) ELSE << >>,
            Records(unknown(string), "01S00") \o truncation(buffer))

SQLDriverConnect(string, buffer) ==
  /\ phase = "allocated"
  /\ connectWith("SQLDriverConnect", string, buffer)

\* SQL_DRIVER_PROMPT without a window.
SQLDriverConnectRefused ==
  /\ phase = "allocated"
  /\ h' = postErrors(clearErrors(h), <<"HY092">>)
  /\ phase' = "released"
  /\ Said(<< >>, app.isolation)
  /\ Return("SQLDriverConnect", "SQL_ERROR", << >>, {}, <<"HY092">>)
  /\ UNCHANGED db

\* What must have a value, and the keyword it is asked for with.
askedAs == [dsn |-> "DSN", account |-> "UIC", password |-> "PWD", driver |-> "DRIVER"]

missing(param) == {p \in DOMAIN askedAs : param[p] = Empty}

\* SQLBrowseConnect asks for what has no value yet.
SQLBrowseConnectAsks(string, buffer) ==
  /\ phase \in {"allocated", "browsing"}
  /\ phase' = "browsing"
  /\ \E o \in {parsed(string)} :
       /\ missing(o.param) # {}
       /\ h' = postErrors(o, truncation(buffer))
       /\ Said(string, app.isolation)
       /\ Return("SQLBrowseConnect", "SQL_NEED_DATA", << >>, missing(o.param),
                 Records(unknown(string), "01S00") \o truncation(buffer))
  /\ UNCHANGED db

SQLBrowseConnect(string, buffer) ==
  /\ phase \in {"allocated", "browsing"}
  /\ missing(parsed(string).param) = {}
  /\ connectWith("SQLBrowseConnect", string, buffer)

-----------------------------------------------------------------------------
(***************************************************************************)
(* The other calls.                                                        *)
(***************************************************************************)
\* Bound: a call is left for the string to connect with.
MayCall == IF phase = "allocated" THEN app.calls + 1 < MaxCalls ELSE app.calls < MaxCalls

SetIsolation(level) ==
  /\ phase \in {"allocated", "connected"}
  /\ MayCall
  /\ h' = [clearErrors(h) EXCEPT !.isolation = level]
  /\ db' = [db EXCEPT !.isolation = IF db.open THEN level ELSE @]
  /\ Said(<< >>, level)
  /\ Return("SQLSetConnectAttr", "SQL_SUCCESS", << >>, {}, << >>)
  /\ UNCHANGED phase

\* The session refuses the level; the handle has it all the same.
SetIsolationThrows(level) ==
  /\ phase = "connected"
  /\ MayCall
  /\ h' = postErrors([clearErrors(h) EXCEPT !.isolation = level], <<"08000">>)
  /\ Said(<< >>, app.isolation)
  /\ Return("SQLSetConnectAttr", "SQL_ERROR", << >>, {}, <<"08000">>)
  /\ UNCHANGED <<db, phase>>

\* SQLGetInfo adds to the records of the calls before.  A string is handed over
\* with a code of its own,
SQLGetInfoString(buffer) ==
  LET posted == IF buffer = "short" THEN <<"01004">> ELSE << >>
  IN  /\ phase = "connected"
      /\ MayCall
      /\ h' = postErrors(h, posted)
      /\ Said(<< >>, app.isolation)
      /\ Return("SQLGetInfo", IF buffer = "fits" THEN "SQL_SUCCESS" ELSE "SQL_SUCCESS_WITH_INFO",
                << >>, {}, posted)
      /\ UNCHANGED <<db, phase>>

\* a number with the code of what is still posted.
SQLGetInfoNumber ==
  /\ phase = "connected"
  /\ MayCall
  /\ UNCHANGED <<h, db, phase>>
  /\ Said(<< >>, app.isolation)
  /\ Return("SQLGetInfo", sqlSuccess(h), << >>, {}, << >>)

\* A type that is out of range, no connection, a session that throws.
SQLGetInfoFails(state) ==
  /\ phase \in {"allocated", "connected"}
  /\ state \in {"HY096", IF h.connected THEN "08000" ELSE "08003"}
  /\ MayCall
  /\ h' = postErrors(h, <<state>>)
  /\ Said(<< >>, app.isolation)
  /\ Return("SQLGetInfo", "SQL_ERROR", << >>, {}, <<state>>)
  /\ UNCHANGED <<db, phase>>

\* SQLDisconnect, which also ends the conversation of SQLBrowseConnect.
SQLDisconnect ==
  /\ phase \in {"browsing", "connected"}
  /\ h' = [clearErrors(h) EXCEPT !.connected = FALSE]
  /\ db' = NoSession
  /\ phase' = "released"
  /\ Said(<< >>, app.isolation)
  /\ Return("SQLDisconnect", "SQL_SUCCESS", << >>, {}, << >>)

\* The driver manager frees the connection, and makes another for the next try.
Renew ==
  /\ phase = "released"
  /\ h' = NewHandle
  /\ phase' = "allocated"
  /\ app' = NothingSaid
  /\ Return("SQLAllocHandle", "SQL_SUCCESS", << >>, {}, << >>)
  /\ UNCHANGED db

-----------------------------------------------------------------------------
(***************************************************************************)
(* Reading the diagnostics.                                                *)
(***************************************************************************)
\* The record with the next number, whole or cut to the buffer.
SQLGetDiagRec ==
  /\ app.next \in DOMAIN h.errors
  /\ app' = [app EXCEPT !.seen = Append(@, h.errors[app.next]), !.next = @ + 1]
  /\ UNCHANGED <<h, db, phase, ret>>

\* Mutant of takenOff: what is read stays in the list.
takenOffNot(errors) == errors
takenOff(errors) == Tail(errors)

\* SQLError takes the first record off the list.  The flag that there are some
\* stays, even after the last.
SQLError ==
  /\ app.next = 1
  /\ h.errors # << >>
  /\ Len(app.seen) < Len(app.due)
  /\ app' = [app EXCEPT !.seen = Append(@, Head(h.errors))]
  /\ h' = [h EXCEPT !.errors = takenOff(@)]
  /\ UNCHANGED <<db, phase, ret>>

-----------------------------------------------------------------------------
\* The application answers some of what it was asked for, by the keyword it was
\* asked with; its last word on a parameter is a value, of the others too if it
\* says anything of them.
ASSUME AnswerAssumption ==
  /\ Answer \in [SUBSET DOMAIN askedAs -> Seq(Pair)]
  /\ \A asked \in SUBSET DOMAIN askedAs :
       /\ \A p \in asked : \E i \in DOMAIN Answer[asked] : Answer[asked][i].name = askedAs[p]
       /\ \A p \in DOMAIN askedAs :
            lastNaming(Answer[asked], p) # 0 => said(Answer[asked], p, Empty) # Empty

AnswerBrowse ==
  /\ phase = "browsing"
  /\ app.calls < MaxCalls + Cardinality(DOMAIN askedAs)
  /\ \E asked \in (SUBSET ret.missing) \ {{}} :
       \/ SQLBrowseConnectAsks(Answer[asked], "fits")
       \/ SQLBrowseConnect(Answer[asked], "fits")

Connecting ==
  /\ app.calls < MaxCalls
  /\ \/ \E dsn \in DOMAIN Sources, uid, passwd \in Names :
          SQLConnect(dsn, uid, passwd)
     \/ \E string \in Strings, buffer \in Buffers :
          \/ SQLDriverConnect(string, buffer)
          \/ SQLBrowseConnectAsks(string, buffer)
          \/ SQLBrowseConnect(string, buffer)
     \/ SQLDriverConnectRefused

Next ==
  \/ Connecting
  \/ AnswerBrowse
  \/ \E level \in Isolations : SetIsolation(level) \/ SetIsolationThrows(level)
  \/ \E buffer \in Buffers : SQLGetInfoString(buffer)
  \/ SQLGetInfoNumber
  \/ \E state \in SqlStates : SQLGetInfoFails(state)
  \/ SQLDisconnect
  \/ Renew
  \/ SQLGetDiagRec
  \/ SQLError

Spec == Init /\ [][Next]_vars

FairSpec == Spec /\ WF_vars(AnswerBrowse)

-----------------------------------------------------------------------------
(***************************************************************************)
(* Properties.                                                             *)
(***************************************************************************)
\* Every variable has its type.
TypeOK ==
  /\ h \in [param : [Parameters -> Value], isolation : Isolations, connected : BOOLEAN,
            errors : Seq(SqlStates), infoPosted : BOOLEAN]
  /\ db \in [open : BOOLEAN, param : [Parameters -> Value], isolation : Isolations]
  /\ phase \in {"allocated", "browsing", "connected", "released"}
  /\ app \in [said : Seq(Pair), calls : Nat, isolation : Isolations,
              next : Nat \ {0}, seen : Seq(SqlStates), due : Seq(SqlStates)]
  /\ ret \in [call : {"SQLAllocHandle", "SQLConnect", "SQLDriverConnect", "SQLBrowseConnect",
                       "SQLSetConnectAttr", "SQLGetInfo", "SQLDisconnect"},
              code : {"SQL_SUCCESS", "SQL_SUCCESS_WITH_INFO", "SQL_NEED_DATA", "SQL_ERROR"},
              out : Seq(Pair), missing : SUBSET DOMAIN askedAs, posted : Seq(SqlStates)]

\* What the application said of a parameter in this attempt, the last word
\* counting; the data source it named has the word on what is left empty.
Given(p) == said(app.said, p, Empty)
Wanted(p) ==
  IF Given(p) # Empty \/ Given("dsn") = Empty THEN Given(p) ELSE sourceValue(Given("dsn"), p)

\* The session is opened with what the application asked for, over however many
\* calls of SQLBrowseConnect it said so: what is said later counts, what is not
\* said again still counts, the data source fills in the rest.
SessionAsAsked ==
  db.open =>
    \A p \in {"databaseName", "account", "password", "schema"} : db.param[p] = Wanted(p)

\* The session has the isolation level that the application set last with
\* success, before connecting or after.
IsolationAsSet == db.open => db.isolation = app.isolation

\* But for SQLGetInfo, the records of a handle are those of the last call, and
\* its code tells whether there are any: the records and the flag infoPosted of
\* earlier calls are gone, also those the application did not read.
CodeTellsRecords ==
  ret.call # "SQLGetInfo" =>
    /\ app.due = ret.posted
    /\ ret.code = "SQL_SUCCESS" => ret.posted = << >>
    /\ ret.code \in {"SQL_SUCCESS_WITH_INFO", "SQL_ERROR"} => ret.posted # << >>

\* However the application reads them - by number, or taking them off the list,
\* or changing from this to that - it sees the records in their order, each once,
\* and has them all when there is no next one.
RecordsInOrder ==
  /\ Len(app.seen) <= Len(app.due)
  /\ app.seen = SubSeq(app.due, 1, Len(app.seen))
  /\ app.next \notin DOMAIN h.errors => app.seen = app.due

\* The string that is handed back opens the same session again, from a new
\* handle, unless the database itself was named in the connection string.
Reconnected == expandConnectParameters(assign(NewParameters, ret.out))
SameSession ==
  \A p \in {"databaseName", "account", "password", "schema"} : Reconnected[p] = db.param[p]
OutStringReconnects ==
  db.open /\ ret.out # << >> /\ Given("databaseName") = Empty => SameSession

\* An application that answers what SQLBrowseConnect asks for comes to the end of
\* the conversation.
BrowseLoopEnds == phase = "browsing" ~> phase # "browsing"
=============================================================================
