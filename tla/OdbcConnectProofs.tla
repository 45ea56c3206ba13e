-------------------------- MODULE OdbcConnectProofs --------------------------
(***************************************************************************)
(* That a connection gets the session it was asked for, over any number of *)
(* connection strings, and that its diagnostics are those of its calls.    *)
(***************************************************************************)
EXTENDS OdbcConnect, SequenceTheorems, FiniteSetTheorems, TLAPS

-----------------------------------------------------------------------------
(***************************************************************************)
(* Connection strings.                                                     *)
(***************************************************************************)
\* A set of places in a sequence has a first one and a last one.
LEMMA LeastNatural ==
  ASSUME NEW D \in SUBSET Nat, D # {}
  PROVE  \E m \in D : \A k \in D : m <= k
<1> DEFINE R == {ss \in Nat \X Nat : ss[1] < ss[2]}
<1>1. IsWellFoundedOn(R, Nat)  BY NatLessThanWellFounded DEF OpToRel
<1>2. \A k, m \in Nat : k < m => <<k, m>> \in R  OBVIOUS
<1> HIDE DEF R
<1>3. PICK m \in D : \A k \in D : ~ (<<k, m>> \in R)  BY <1>1, WFMin
<1>4. \A k \in D : ~ (k < m)  BY <1>2, <1>3
<1>5. m \in Nat /\ \A k \in D : k \in Nat  OBVIOUS
<1>6. \A k \in D : m <= k  BY <1>4, <1>5, SMT
<1> QED  BY <1>6

LEMMA FirstAndLast ==
  ASSUME NEW n \in Nat, NEW I \in SUBSET (1 .. n), I # {}
  PROVE  /\ Min(I) \in I /\ \A i \in I : Min(I) <= i
         /\ Max(I) \in I /\ \A i \in I : Max(I) >= i
<1> DEFINE D == {n - i : i \in I}
<1>1. PICK first \in I : \A i \in I : first <= i  BY LeastNatural
<1>2. PICK last \in I : \A i \in I : last >= i
  <2>1. PICK i \in I : TRUE  OBVIOUS
  <2>2. n - i \in D /\ \A d \in D : d \in Nat  OBVIOUS
  <2> HIDE DEF D
  <2>3. PICK m \in D : \A k \in D : m <= k  BY <2>2, LeastNatural
  <2> USE DEF D
  <2>4. PICK j \in I : m = n - j  OBVIOUS
  <2>5. \A k \in I : n - k \in D  OBVIOUS
  <2>6. \A k \in I : n - j <= n - k  BY <2>3, <2>4, <2>5
  <2>7. \A k \in I : j >= k  BY <2>6
  <2> QED  BY <2>7
<1>3. Min(I) \in I /\ \A i \in I : Min(I) <= i  BY <1>1 DEF Min
<1>4. Max(I) \in I /\ \A i \in I : Max(I) >= i  BY <1>2 DEF Max
<1> QED  BY <1>3, <1>4

\* The last place that names a parameter is one that does, and none does after it.
LEMMA LastNaming ==
  ASSUME NEW string \in Seq(Pair), NEW p \in Parameters
  PROVE  LET last == lastNaming(string, p)
         IN  /\ last \in 0 .. Len(string)
             /\ last # 0 => string[last].name \in naming[p]
             /\ \A i \in 1 .. Len(string) : string[i].name \in naming[p] => i <= last
<1> DEFINE I == {i \in 1 .. Len(string) : string[i].name \in naming[p]}
<1>1. lastNaming(string, p) = IF I # {} THEN Max(I) ELSE 0
  BY DEF lastNaming, SelectLastInSeq
<1>2. I \in SUBSET (1 .. Len(string)) /\ Len(string) \in Nat  OBVIOUS
<1>3. CASE I = {}  BY <1>1, <1>2, <1>3
<1>4. CASE I # {}
  <2> HIDE DEF I
  <2>1. Max(I) \in I /\ \A i \in I : Max(I) >= i  BY <1>2, <1>4, FirstAndLast
  <2>2. lastNaming(string, p) = Max(I)  BY <1>1, <1>4
  <2> QED  BY <1>2, <2>1, <2>2 DEF I
<1> QED  BY <1>3, <1>4

\* Of two strings the later one counts, if it names the parameter at all.
LEMMA LastNamingConcat ==
  ASSUME NEW s \in Seq(Pair), NEW t \in Seq(Pair), NEW p \in Parameters
  PROVE  lastNaming(s \o t, p) = IF lastNaming(t, p) = 0 THEN lastNaming(s, p)
                                 ELSE Len(s) + lastNaming(t, p)
<1> DEFINE st == s \o t
           ls == lastNaming(s, p)
           lt == lastNaming(t, p)
           lst == lastNaming(st, p)
<1>1. /\ st \in Seq(Pair) /\ Len(st) = Len(s) + Len(t)
      /\ Len(s) \in Nat /\ Len(t) \in Nat
      /\ \A i \in 1 .. Len(s) : st[i] = s[i]
      /\ \A i \in 1 .. Len(t) : st[Len(s) + i] = t[i]
  BY ConcatProperties
<1> HIDE DEF st
<1>2. /\ ls \in 0 .. Len(s)
      /\ ls # 0 => s[ls].name \in naming[p]
      /\ \A i \in 1 .. Len(s) : s[i].name \in naming[p] => i <= ls
  BY LastNaming
<1>3. /\ lt \in 0 .. Len(t)
      /\ lt # 0 => t[lt].name \in naming[p]
      /\ \A i \in 1 .. Len(t) : t[i].name \in naming[p] => i <= lt
  BY LastNaming
<1>4. /\ lst \in 0 .. Len(st)
      /\ lst # 0 => st[lst].name \in naming[p]
      /\ \A i \in 1 .. Len(st) : st[i].name \in naming[p] => i <= lst
  BY <1>1, LastNaming
<1> HIDE DEF ls, lt, lst
<1>5. CASE lt # 0
  <2>1. Len(s) + lt <= lst  BY <1>1, <1>3, <1>4, <1>5
  <2>2. lst - Len(s) \in 1 .. Len(t) /\ st[lst] = t[lst - Len(s)]
    BY <1>1, <1>3, <1>4, <1>5, <2>1
  <2>3. lst - Len(s) <= lt  BY <1>1, <1>3, <1>4, <1>5, <2>1, <2>2
  <2> QED  BY <1>1, <1>3, <1>4, <1>5, <2>1, <2>3 DEF st, ls, lt, lst
<1>6. CASE lt = 0
  <2>1. lst <= Len(s)
    <3> SUFFICES ASSUME lst > Len(s) PROVE FALSE  BY <1>1, <1>4
    <3>0. lst - Len(s) \in 1 .. Len(t) /\ lst = Len(s) + (lst - Len(s))  BY <1>1, <1>4
    <3>1. PICK i \in 1 .. Len(t) : lst = Len(s) + i  BY <3>0
    <3>2. t[i].name \in naming[p]  BY <1>1, <1>4, <3>1
    <3> QED  BY <1>3, <1>6, <3>2
  <2>2. ls <= lst
    <3>1. CASE ls = 0  BY <1>4, <1>1, <3>1
    <3>2. CASE ls # 0  BY <1>1, <1>2, <1>4, <3>2
    <3> QED  BY <3>1, <3>2
  <2>3. lst <= ls
    <3>1. CASE lst = 0  BY <1>2, <1>1, <3>1
    <3>2. CASE lst # 0  BY <1>1, <1>2, <1>4, <2>1, <3>2
    <3> QED  BY <3>1, <3>2
  <2>4. lst = ls  BY <1>1, <1>2, <1>4, <2>2, <2>3
  <2> QED  BY <2>4, <1>6 DEF st, ls, lt, lst
<1> QED  BY <1>5, <1>6

\* To read two strings one after the other is to read them as one.
LEMMA SaidConcat ==
  ASSUME NEW s \in Seq(Pair), NEW t \in Seq(Pair), NEW p \in Parameters, NEW v
  PROVE  said(s \o t, p, v) = said(t, p, said(s, p, v))
<1> DEFINE ls == lastNaming(s, p)
           lt == lastNaming(t, p)
<1>1. /\ Len(s) \in Nat /\ Len(t) \in Nat
      /\ \A i \in 1 .. Len(s) : (s \o t)[i] = s[i]
      /\ \A i \in 1 .. Len(t) : (s \o t)[Len(s) + i] = t[i]
  BY ConcatProperties
<1>2. ls \in 0 .. Len(s) /\ lt \in 0 .. Len(t)  BY LastNaming
<1>3. lastNaming(s \o t, p) = IF lt = 0 THEN ls ELSE Len(s) + lt  BY LastNamingConcat
<1> HIDE DEF ls, lt
<1>4. CASE lt # 0
  <2>1. lastNaming(s \o t, p) = Len(s) + lt /\ Len(s) + lt # 0  BY <1>1, <1>2, <1>3, <1>4
  <2>2. (s \o t)[Len(s) + lt] = t[lt]  BY <1>1, <1>2, <1>4
  <2> QED  BY <1>4, <2>1, <2>2 DEF said, lt
<1>5. CASE lt = 0 /\ ls # 0
  <2>1. (s \o t)[ls] = s[ls]  BY <1>1, <1>2, <1>5
  <2>2. lastNaming(s \o t, p) = ls  BY <1>3, <1>5
  <2>3. said(s \o t, p, v) = taken(p, s[ls].value)  BY <1>5, <2>1, <2>2 DEF said
  <2>4. said(s, p, v) = taken(p, s[ls].value)  BY <1>5 DEF said, ls
  <2>5. said(t, p, said(s, p, v)) = said(s, p, v)  BY <1>5 DEF said, lt
  <2> QED  BY <2>3, <2>4, <2>5
<1>6. CASE lt = 0 /\ ls = 0  BY <1>3, <1>6 DEF said, ls, lt
<1> QED  BY <1>4, <1>5, <1>6

-----------------------------------------------------------------------------
(***************************************************************************)
(* Types.                                                                  *)
(***************************************************************************)
LEMMA EmptyIsValue == Empty \in Value
BY DEF Empty, Value

LEMMA TrimType ==
  ASSUME NEW v \in Value
  PROVE  trim(v) \in Value
<1> DEFINE I == {i \in 1 .. Len(v) : v[i] \notin {"{", "}"}}
<1>1. trim(v) = IF (IF I # {} THEN Min(I) ELSE 0) = 0 THEN Empty
                ELSE SubSeq(v, IF I # {} THEN Min(I) ELSE 0, IF I # {} THEN Max(I) ELSE 0)
  BY DEF trim, SelectInSeq, SelectLastInSeq
<1>2. v \in Seq(Words) /\ Len(v) \in Nat  BY DEF Value
<1>3. CASE I = {}  BY <1>1, <1>3, EmptyIsValue
<1>4. CASE I # {}
  <2>1. I \in SUBSET (1 .. Len(v))  OBVIOUS
  <2> HIDE DEF I
  <2>2. Min(I) \in I /\ Max(I) \in I  BY <1>2, <1>4, <2>1, FirstAndLast
  <2>3. Min(I) \in 1 .. Len(v) /\ Max(I) \in 1 .. Len(v)  BY <2>1, <2>2
  <2>4. \A i \in Min(I) .. Max(I) : v[i] \in Words  BY <1>2, <2>3
  <2>5. SubSeq(v, Min(I), Max(I)) \in Seq(Words)  BY <2>3, <2>4, SubSeqProperties
  <2>6. trim(v) = SubSeq(v, Min(I), Max(I))  BY <1>1, <1>2, <1>4, <2>3
  <2> QED  BY <2>5, <2>6 DEF Value
<1> QED  BY <1>3, <1>4

LEMMA SaidType ==
  ASSUME NEW string \in Seq(Pair), NEW p \in Parameters, NEW v \in Value
  PROVE  said(string, p, v) \in Value
<1>1. lastNaming(string, p) \in 0 .. Len(string)  BY LastNaming
<1>2. CASE lastNaming(string, p) = 0  BY <1>2 DEF said
<1>3. CASE lastNaming(string, p) # 0
  <2>1. string[lastNaming(string, p)] \in Pair  BY <1>1, <1>3
  <2>2. string[lastNaming(string, p)].value \in Value  BY <2>1 DEF Pair
  <2> HIDE DEF Value
  <2> QED  BY <1>3, <2>2, TrimType DEF said, taken
<1> QED  BY <1>2, <1>3

\* A string that says nothing leaves every parameter as it is.
LEMMA NothingSaidOf ==
  ASSUME NEW p \in Parameters, NEW v
  PROVE  said(<< >>, p, v) = v
<1> DEFINE none == << >>
<1>1. none \in Seq(Pair) /\ Len(none) = 0  OBVIOUS
<1> HIDE DEF none
<1>2. lastNaming(none, p) \in 0 .. Len(none)  BY <1>1, LastNaming
<1>3. lastNaming(none, p) = 0  BY <1>1, <1>2
<1>4. said(none, p, v) = v  BY <1>3 DEF said
<1> QED  BY <1>4 DEF none

LEMMA AssignType ==
  ASSUME NEW string \in Seq(Pair), NEW param \in [Parameters -> Value]
  PROVE  assign(param, string) \in [Parameters -> Value]
BY SaidType DEF assign

LEMMA SourceValueType ==
  ASSUME NEW dsn \in Value, NEW p \in Parameters
  PROVE  sourceValue(dsn, p) \in Value
<1>1. \A entry \in Entries : readAttribute(dsn, entry) \in Value
  BY SourcesAssumption, EmptyIsValue DEF readAttribute
<1>2. address(dsn) \in Value
  <2>1. \A v, w \in Value : v \o w \in Value  BY ConcatProperties DEF Value
  <2>2. <<"@">> \in Value /\ <<":">> \in Value
    <3>1. \A w \in Words : <<w>> \in Seq(Words)  OBVIOUS
    <3>2. "@" \in Words /\ ":" \in Words  BY WordsAssumption
    <3> QED  BY <3>1, <3>2 DEF Value
  <2>3. {"ServerName", "Port", "Dbname", "Database"} \subseteq Entries  BY DEF Entries
  <2> QED  BY <1>1, <2>1, <2>2, <2>3, EmptyIsValue DEF address
<1>3. {"User", "Password", "Schema"} \subseteq Entries  BY DEF Entries
<1> QED  BY <1>1, <1>2, <1>3, EmptyIsValue DEF sourceValue, Parameters

LEMMA ExpandType ==
  ASSUME NEW param \in [Parameters -> Value]
  PROVE  expandConnectParameters(param) \in [Parameters -> Value]
<1>1. param["dsn"] \in Value  BY DEF Parameters
<1>2. \A p \in Parameters : sourceValue(param["dsn"], p) \in Value  BY <1>1, SourceValueType
<1> QED  BY <1>2 DEF expandConnectParameters

LEMMA CompleteStringType ==
  ASSUME NEW param \in [Parameters -> Value]
  PROVE  completeString(param) \in Seq(Pair) /\ completeString(param) # << >>
<1>1. {"dsn", "account", "password", "schema", "driver"} \subseteq Parameters
  BY DEF Parameters
<1>2. {"DSN", "UIC", "PWD", "SCHEMA", "DRIVER"} \subseteq Keywords  BY DEF Keywords
<1>3. \A name \in Keywords, value \in Value : [name |-> name, value |-> value] \in Pair
  BY DEF Pair
<1>4. \A a, b, c, d, e \in Pair : <<a, b, c, d, e>> \in Seq(Pair) /\ <<a, b, c, d, e>> # << >>
  OBVIOUS
<1> QED  BY <1>1, <1>2, <1>3, <1>4 DEF completeString

LEMMA UnknownType ==
  ASSUME NEW string \in Seq(Pair)
  PROVE  unknown(string) \in Nat
<1> DEFINE U == {i \in DOMAIN string : \A p \in Parameters : string[i].name \notin naming[p]}
<1>1. DOMAIN string = 1 .. Len(string) /\ Len(string) \in Nat  OBVIOUS
<1>2. IsFiniteSet(1 .. Len(string))  BY <1>1, FS_Interval
<1>3. U \in SUBSET (1 .. Len(string))  BY <1>1
<1>4. IsFiniteSet(U)  BY <1>2, <1>3, FS_Subset
<1>5. Cardinality(U) \in Nat  BY <1>4, FS_CardinalityType
<1> QED  BY <1>5 DEF unknown

LEMMA RecordsType ==
  ASSUME NEW n \in Nat, NEW state \in SqlStates
  PROVE  Records(n, state) \in Seq(SqlStates) /\ Len(Records(n, state)) = n
BY DEF Records

LEMMA TruncationType ==
  ASSUME NEW buffer \in Buffers
  PROVE  truncation(buffer) \in Seq(SqlStates)
<1>1. "01004" \in SqlStates  BY DEF SqlStates
<1>2. \A state \in SqlStates : /\ <<state>> \in Seq(SqlStates)
                                /\ <<state, state>> \in Seq(SqlStates)
                                /\ << >> \in Seq(SqlStates)
  OBVIOUS
<1> QED  BY <1>1, <1>2 DEF truncation, Buffers

-----------------------------------------------------------------------------
(***************************************************************************)
(* The steps, in the form the proofs need them.                            *)
(***************************************************************************)
Handle == [param : [Parameters -> Value], isolation : Isolations, connected : BOOLEAN,
           errors : Seq(SqlStates), infoPosted : BOOLEAN]
Calls == {"SQLConnect", "SQLDriverConnect", "SQLBrowseConnect"}

LEMMA PostErrors ==
  ASSUME NEW o \in Handle, NEW records \in Seq(SqlStates)
  PROVE  LET p == postErrors(o, records)
         IN  /\ p \in Handle
             /\ p.param = o.param /\ p.isolation = o.isolation /\ p.connected = o.connected
             /\ p.errors = o.errors \o records
             /\ p.infoPosted <=> o.infoPosted \/ records # << >>
<1>1. o.errors \o records \in Seq(SqlStates)  BY ConcatProperties DEF Handle
<1> QED  BY <1>1 DEF postErrors, Handle

LEMMA ClearErrors ==
  ASSUME NEW o \in Handle
  PROVE  LET p == clearErrors(o)
         IN  /\ p \in Handle
             /\ p.param = o.param /\ p.isolation = o.isolation /\ p.connected = o.connected
             /\ p.errors = << >> /\ p.infoPosted = FALSE
<1>1. << >> \in Seq(SqlStates)  OBVIOUS
<1> QED  BY <1>1 DEF clearErrors, Handle

\* The handle after the loop over a connection string.
LEMMA Parsed ==
  ASSUME h \in Handle, NEW string \in Seq(Pair)
  PROVE  LET o == parsed(string)
         IN  /\ o \in Handle
             /\ o.param = assign(h.param, string)
             /\ o.isolation = h.isolation /\ o.connected = h.connected
             /\ o.errors = Records(unknown(string), "01S00")
             /\ o.infoPosted <=> o.errors # << >>
             /\ Records(unknown(string), "01S00") \in Seq(SqlStates)
<1> DEFINE records == Records(unknown(string), "01S00")
           c == clearErrors(h)
           o == [c EXCEPT !.param = assign(@, string)]
<1>1. records \in Seq(SqlStates)  BY UnknownType, RecordsType DEF SqlStates
<1>2. /\ c \in Handle /\ c.param = h.param /\ c.isolation = h.isolation
      /\ c.connected = h.connected /\ c.errors = << >> /\ c.infoPosted = FALSE
  BY ClearErrors
<1>3. assign(c.param, string) \in [Parameters -> Value]  BY <1>2, AssignType DEF Handle
<1> HIDE DEF c
<1>4. /\ o \in Handle /\ o.param = assign(h.param, string) /\ o.isolation = h.isolation
      /\ o.connected = h.connected /\ o.errors = << >> /\ o.infoPosted = FALSE
  BY <1>2, <1>3 DEF Handle
<1>5. parsed(string) = postErrors(o, records)  BY DEF parsed, c
<1> HIDE DEF o, records
<1>6. << >> \o records = records  BY <1>1, ConcatEmptySeq
<1>7. /\ parsed(string) \in Handle
      /\ parsed(string).param = o.param
      /\ parsed(string).isolation = o.isolation
      /\ parsed(string).connected = o.connected
      /\ parsed(string).errors = o.errors \o records
      /\ parsed(string).infoPosted <=> o.infoPosted \/ records # << >>
  <2>1. o \in Handle  BY <1>4
  <2>2. parsed(string) \in Handle
    BY <1>1, <1>5, <2>1, PostErrors
  <2>3. parsed(string).param = o.param
    BY <1>1, <1>5, <2>1, PostErrors
  <2>4. parsed(string).isolation = o.isolation
    BY <1>1, <1>5, <2>1, PostErrors
  <2>5. parsed(string).connected = o.connected
    BY <1>1, <1>5, <2>1, PostErrors
  <2>6. parsed(string).errors = o.errors \o records
    BY <1>1, <1>5, <2>1, PostErrors
  <2>7. parsed(string).infoPosted <=> o.infoPosted \/ records # << >>
    BY <1>1, <1>5, <2>1, PostErrors
  <2> QED  BY <2>2, <2>3, <2>4, <2>5, <2>6, <2>7
<1> QED  BY <1>1, <1>4, <1>6, <1>7 DEF records

\* What the three ways to connect have in common.
ConnectStep(call, o, string, out, posted) ==
  /\ phase \in {"allocated", "browsing"}
  /\ o \in Handle
  /\ o.param = expandConnectParameters(assign(h.param, string))
  /\ o.isolation = h.isolation
  /\ o.errors = posted
  /\ o.infoPosted <=> posted # << >>
  /\ posted \in Seq(SqlStates)
  /\ out = << >> \/ out = completeString(o.param)
  /\ connect(call, o, string, out, posted)
AnyConnect ==
  \E call \in Calls, o \in Handle, string \in Seq(Pair), out \in Seq(Pair),
     posted \in Seq(SqlStates) : ConnectStep(call, o, string, out, posted)

LEMMA SQLConnectConnects ==
  ASSUME h \in Handle, NEW dsn \in Value, NEW uid \in Value, NEW passwd \in Value,
         SQLConnect(dsn, uid, passwd)
  PROVE  AnyConnect
<1> DEFINE string == Arguments(dsn, uid, passwd)
           c == clearErrors(h)
           o == [c EXCEPT !.param = expandConnectParameters(assign(@, string))]
<1>1. string \in Seq(Pair)
  <2>1. {"DSN", "UID", "PWD"} \subseteq Keywords  BY DEF Keywords
  <2>2. \A name \in Keywords, value \in Value : [name |-> name, value |-> value] \in Pair
    BY DEF Pair
  <2>3. \A a, b, d \in Pair : <<a, b, d>> \in Seq(Pair)  OBVIOUS
  <2> QED  BY <2>1, <2>2, <2>3 DEF Arguments
<1>2. /\ c \in Handle /\ c.param = h.param /\ c.isolation = h.isolation
      /\ c.errors = << >> /\ c.infoPosted = FALSE
  BY ClearErrors
<1>3. phase = "allocated" /\ connect("SQLConnect", o, string, << >>, << >>)
  BY DEF SQLConnect
<1> HIDE DEF c, string
<1>4. assign(h.param, string) \in [Parameters -> Value]  BY <1>1, AssignType DEF Handle
<1>5. expandConnectParameters(assign(h.param, string)) \in [Parameters -> Value]
  BY <1>4, ExpandType
<1>6. /\ o \in Handle /\ o.param = expandConnectParameters(assign(h.param, string))
      /\ o.isolation = h.isolation /\ o.errors = << >> /\ o.infoPosted = FALSE
  BY <1>2, <1>5 DEF Handle
<1> HIDE DEF o
<1>7. << >> \in Seq(SqlStates) /\ << >> \in Seq(Pair)  OBVIOUS
<1>8. ConnectStep("SQLConnect", o, string, << >>, << >>)  BY <1>3, <1>6, <1>7 DEF ConnectStep
<1> QED  BY <1>1, <1>6, <1>7, <1>8 DEF AnyConnect, Calls

LEMMA ConnectWithConnects ==
  ASSUME h \in Handle, NEW call \in Calls, NEW string \in Seq(Pair), NEW buffer \in Buffers,
         phase \in {"allocated", "browsing"}, connectWith(call, string, buffer)
  PROVE  AnyConnect
<1> DEFINE p == parsed(string)
           e == [p EXCEPT !.param = expandConnectParameters(@)]
           o == postErrors(e, truncation(buffer))
           records == Records(unknown(string), "01S00")
           posted == records \o truncation(buffer)
           out == IF buffer = "fits" THEN completeString(e.param) ELSE << >>
<1>1. /\ p \in Handle /\ p.param = assign(h.param, string) /\ p.isolation = h.isolation
      /\ p.errors = records
      /\ p.infoPosted <=> p.errors # << >>
      /\ records \in Seq(SqlStates)
  BY Parsed
<1>2. connect(call, o, string, out, posted)  BY DEF connectWith
<1> HIDE DEF p, records
<1>3. expandConnectParameters(p.param) \in [Parameters -> Value]  BY <1>1, ExpandType DEF Handle
<1>4. /\ e \in Handle /\ e.param = expandConnectParameters(assign(h.param, string))
      /\ e.isolation = h.isolation /\ e.errors = records
      /\ e.infoPosted <=> records # << >>
  BY <1>1, <1>3 DEF Handle
<1> HIDE DEF e
<1>5. truncation(buffer) \in Seq(SqlStates)  BY TruncationType
<1>6. /\ o \in Handle /\ o.param = e.param /\ o.isolation = h.isolation /\ o.errors = posted
      /\ o.infoPosted <=> records # << >> \/ truncation(buffer) # << >>
  BY <1>4, <1>5, PostErrors
<1>7. /\ posted \in Seq(SqlStates)
      /\ posted # << >> <=> records # << >> \/ truncation(buffer) # << >>
  BY <1>1, <1>5, ConcatProperties, ConcatEqualIffEmpty
<1>8. out \in Seq(Pair) /\ (out = << >> \/ out = completeString(o.param))
  <2>1. e.param \in [Parameters -> Value]  BY <1>4 DEF Handle
  <2>2. completeString(e.param) \in Seq(Pair)  BY <2>1, CompleteStringType
  <2> QED  BY <1>6, <2>2
<1> HIDE DEF o, out, posted
<1>9. ConnectStep(call, o, string, out, posted)
  BY <1>2, <1>4, <1>6, <1>7, <1>8 DEF ConnectStep
<1> QED  BY <1>6, <1>7, <1>8, <1>9 DEF AnyConnect

\* Every step, its arguments typed, whoever chose them.
LEMMA Steps ==
  ASSUME TypeOK, Next
  PROVE  \/ AnyConnect
         \/ \E string \in Seq(Pair), buffer \in Buffers : SQLBrowseConnectAsks(string, buffer)
         \/ SQLDriverConnectRefused
         \/ \E level \in Isolations : SetIsolation(level) \/ SetIsolationThrows(level)
         \/ \E buffer \in Buffers : SQLGetInfoString(buffer)
         \/ SQLGetInfoNumber
         \/ \E state \in SqlStates : SQLGetInfoFails(state)
         \/ SQLDisconnect \/ Renew \/ SQLGetDiagRec \/ SQLError
<1>0. h \in Handle  BY DEF TypeOK, Handle
<1>1. ASSUME NEW string \in Seq(Pair), NEW buffer \in Buffers, SQLDriverConnect(string, buffer)
      PROVE  AnyConnect
  <2>1. phase \in {"allocated", "browsing"} /\ connectWith("SQLDriverConnect", string, buffer)
    BY <1>1 DEF SQLDriverConnect
  <2> QED  BY <1>0, <2>1, ConnectWithConnects DEF Calls
<1>2. ASSUME NEW string \in Seq(Pair), NEW buffer \in Buffers, SQLBrowseConnect(string, buffer)
      PROVE  AnyConnect
  <2>1. phase \in {"allocated", "browsing"} /\ connectWith("SQLBrowseConnect", string, buffer)
    BY <1>2 DEF SQLBrowseConnect
  <2> QED  BY <1>0, <2>1, ConnectWithConnects DEF Calls
<1>3. CASE Connecting
  <2>1. ASSUME NEW dsn \in DOMAIN Sources, NEW uid \in Names, NEW passwd \in Names,
               SQLConnect(dsn, uid, passwd)
        PROVE  AnyConnect
    <3>1. dsn \in Value /\ uid \in Value /\ passwd \in Value
      BY SourcesAssumption, StringsAssumption
    <3> QED  BY <1>0, <2>1, <3>1, SQLConnectConnects
  <2>2. Strings \subseteq Seq(Pair)  BY StringsAssumption
  <2> QED  BY <1>1, <1>2, <1>3, <2>1, <2>2 DEF Connecting
<1>4. CASE AnswerBrowse
  <2>1. PICK asked \in (SUBSET ret.missing) \ {{}} :
          SQLBrowseConnectAsks(Answer[asked], "fits") \/ SQLBrowseConnect(Answer[asked], "fits")
    BY <1>4 DEF AnswerBrowse
  <2>2. ret.missing \in SUBSET DOMAIN askedAs  BY DEF TypeOK
  <2>3. asked \in SUBSET DOMAIN askedAs  BY <2>1, <2>2
  <2>4. Answer[asked] \in Seq(Pair) /\ "fits" \in Buffers
    BY <2>3, AnswerAssumption DEF Buffers
  <2> QED  BY <1>2, <2>1, <2>4
<1> QED  BY <1>3, <1>4 DEF Next

-----------------------------------------------------------------------------
(***************************************************************************)
(* Types.                                                                  *)
(***************************************************************************)
Sessions == [open : BOOLEAN, param : [Parameters -> Value], isolation : Isolations]
Phases == {"allocated", "browsing", "connected", "released"}
Apps == [said : Seq(Pair), calls : Nat, isolation : Isolations,
         next : Nat \ {0}, seen : Seq(SqlStates), due : Seq(SqlStates)]
CallNames == {"SQLAllocHandle", "SQLConnect", "SQLDriverConnect", "SQLBrowseConnect",
              "SQLSetConnectAttr", "SQLGetInfo", "SQLDisconnect"}
Codes == {"SQL_SUCCESS", "SQL_SUCCESS_WITH_INFO", "SQL_NEED_DATA", "SQL_ERROR"}
Rets == [call : CallNames, code : Codes, out : Seq(Pair),
         missing : SUBSET DOMAIN askedAs, posted : Seq(SqlStates)]

LEMMA TypeParts ==
  TypeOK <=> h \in Handle /\ db \in Sessions /\ phase \in Phases /\ app \in Apps /\ ret \in Rets
BY DEF TypeOK, Handle, Sessions, Phases, Apps, Rets, CallNames, Codes

LEMMA ReturnType ==
  ASSUME NEW call \in CallNames, NEW code \in Codes, NEW out \in Seq(Pair),
         NEW asked \in SUBSET DOMAIN askedAs, NEW posted \in Seq(SqlStates),
         Return(call, code, out, asked, posted)
  PROVE  ret' \in Rets
BY DEF Return, Rets

LEMMA SaidStepType ==
  ASSUME app \in Apps, h' \in Handle, NEW string \in Seq(Pair), NEW level \in Isolations,
         Said(string, level)
  PROVE  app' \in Apps
<1>1. app.said \o string \in Seq(Pair)  BY ConcatProperties DEF Apps
<1>2. << >> \in Seq(SqlStates) /\ h'.errors \in Seq(SqlStates)  BY DEF Handle
<1> QED  BY <1>1, <1>2 DEF Said, Apps

LEMMA NewTypes ==
  /\ NewHandle \in Handle
  /\ NoSession \in Sessions
  /\ NothingSaid \in Apps
<1>1. NewParameters \in [Parameters -> Value]
  <2>1. "NuoDB ODBC Driver" \in Words  BY WordsAssumption
  <2>2. \A w \in Words : <<w>> \in Value  BY DEF Value
  <2> QED  BY <2>1, <2>2, EmptyIsValue DEF NewParameters
<1>2. "serializable" \in Isolations  BY IsolationsAssumption
<1>3. << >> \in Seq(SqlStates) /\ << >> \in Seq(Pair)  OBVIOUS
<1> HIDE DEF Value
<1> QED  BY <1>1, <1>2, <1>3 DEF NewHandle, Handle, NoSession, Sessions, NothingSaid, Apps

\* Every variable keeps its type, for any words, strings, data sources and answers.
THEOREM TypeCorrect == Spec => []TypeOK
<1>1. Init => TypeOK
  <2>1. << >> \in Seq(SqlStates) /\ << >> \in Seq(Pair)  OBVIOUS
  <2>2. [call |-> "SQLAllocHandle", code |-> "SQL_SUCCESS", out |-> << >>,
         missing |-> {}, posted |-> << >>] \in Rets
    BY <2>1 DEF Rets, CallNames, Codes
  <2>3. "allocated" \in Phases  BY DEF Phases
  <2> QED  BY <2>2, <2>3, NewTypes, TypeParts DEF Init
<1>2. TypeOK /\ [Next]_vars => TypeOK'
  <2> SUFFICES ASSUME TypeOK, [Next]_vars PROVE TypeOK'
    OBVIOUS
  <2> DEFINE Typed == /\ h \in Handle /\ db \in Sessions
                      /\ phase \in Phases /\ app \in Apps /\ ret \in Rets
  <2>0. Typed /\ (TypeOK' <=> Typed')
    BY TypeParts DEF TypeOK, Handle, Sessions, Phases, Apps, Rets, CallNames, Codes
  <2>1. << >> \in Seq(SqlStates) /\ << >> \in Seq(Pair) /\ {} \in SUBSET DOMAIN askedAs
    OBVIOUS
  <2>2. app.isolation \in Isolations  BY <2>0 DEF Apps
  <2>3. \A state \in SqlStates : <<state>> \in Seq(SqlStates)  OBVIOUS
  <2>4. CASE UNCHANGED vars  BY <2>0, <2>4 DEF vars
  <2>5. ASSUME AnyConnect PROVE Typed'
    <3>1. PICK call \in Calls, o \in Handle, string \in Seq(Pair), out \in Seq(Pair),
               posted \in Seq(SqlStates) : ConnectStep(call, o, string, out, posted)
      BY <2>5 DEF AnyConnect
    <3>2. connect(call, o, string, out, posted)  BY <3>1 DEF ConnectStep
    <3>3. call \in CallNames  BY DEF Calls, CallNames
    <3>4. CASE /\ h' = [o EXCEPT !.connected = TRUE]
               /\ db' = opened(o)
               /\ phase' = "connected"
               /\ Said(string, app.isolation)
               /\ Return(call, sqlSuccess(o), out, {}, posted)
      <4>1. h' \in Handle  BY <3>4 DEF Handle
      <4>2. db' \in Sessions  BY <3>4 DEF opened, Handle, Sessions
      <4>3. app' \in Apps  BY <2>0, <2>2, <3>4, <4>1, SaidStepType
      <4>4. sqlSuccess(o) \in Codes  BY DEF sqlSuccess, Codes
      <4>5. ret' \in Rets  BY <2>1, <3>3, <3>4, <4>4, ReturnType
      <4> QED  BY <3>4, <4>1, <4>2, <4>3, <4>5 DEF Phases
    <3>5. CASE /\ h' = postErrors(o, <<"08004">>)
               /\ db' = NoSession
               /\ phase' = "released"
               /\ Said(string, app.isolation)
               /\ Return(call, "SQL_ERROR", out, {}, posted \o <<"08004">>)
      <4>1. <<"08004">> \in Seq(SqlStates)  BY <2>3 DEF SqlStates
      <4>2. h' \in Handle  BY <3>5, <4>1, PostErrors
      <4>3. app' \in Apps  BY <2>0, <2>2, <3>5, <4>2, SaidStepType
      <4>4. posted \o <<"08004">> \in Seq(SqlStates)  BY <4>1, ConcatProperties
      <4>5. "SQL_ERROR" \in Codes  BY DEF Codes
      <4>6. ret' \in Rets  BY <2>1, <3>3, <3>5, <4>4, <4>5, ReturnType
      <4> QED  BY <3>5, <4>2, <4>3, <4>6, NewTypes DEF Phases
    <3> QED  BY <3>2, <3>4, <3>5 DEF connect
  <2>6. ASSUME NEW string \in Seq(Pair), NEW buffer \in Buffers,
               SQLBrowseConnectAsks(string, buffer)
        PROVE  Typed'
    <3> DEFINE o == parsed(string)
               records == Records(unknown(string), "01S00")
    <3>1. o \in Handle /\ records \in Seq(SqlStates)  BY <2>0, Parsed
    <3>2. truncation(buffer) \in Seq(SqlStates)  BY TruncationType
    <3>3. missing(o.param) \in SUBSET DOMAIN askedAs  BY DEF missing
    <3>4. /\ h' = postErrors(o, truncation(buffer))
          /\ Said(string, app.isolation)
          /\ Return("SQLBrowseConnect", "SQL_NEED_DATA", << >>, missing(o.param),
                    records \o truncation(buffer))
          /\ phase' = "browsing" /\ db' = db
      BY <2>6 DEF SQLBrowseConnectAsks
    <3> HIDE DEF o, records
    <3>5. h' \in Handle  BY <3>1, <3>2, <3>4, PostErrors
    <3>6. app' \in Apps  BY <2>0, <2>2, <3>4, <3>5, SaidStepType
    <3>7. records \o truncation(buffer) \in Seq(SqlStates)  BY <3>1, <3>2, ConcatProperties
    <3>8. "SQLBrowseConnect" \in CallNames /\ "SQL_NEED_DATA" \in Codes  BY DEF CallNames, Codes
    <3>9. ret' \in Rets  BY <2>1, <3>3, <3>4, <3>7, <3>8, ReturnType
    <3> QED  BY <2>0, <3>4, <3>5, <3>6, <3>9 DEF Phases
  <2>7. {"SQL_SUCCESS", "SQL_SUCCESS_WITH_INFO", "SQL_ERROR"} \subseteq Codes
    BY DEF Codes
  <2>8. {"SQLAllocHandle", "SQLDriverConnect", "SQLSetConnectAttr", "SQLGetInfo",
         "SQLDisconnect"} \subseteq CallNames
    BY DEF CallNames
  <2>9. clearErrors(h) \in Handle  BY <2>0, ClearErrors
  <2>10. CASE SQLDriverConnectRefused
    <3>1. <<"HY092">> \in Seq(SqlStates)  BY <2>3 DEF SqlStates
    <3>2. h' \in Handle  BY <2>9, <2>10, <3>1, PostErrors DEF SQLDriverConnectRefused
    <3>3. app' \in Apps  BY <2>0, <2>1, <2>2, <2>10, <3>2, SaidStepType DEF SQLDriverConnectRefused
    <3>4. ret' \in Rets
      BY <2>1, <2>7, <2>8, <2>10, <3>1, ReturnType DEF SQLDriverConnectRefused
    <3> QED  BY <2>0, <2>10, <3>2, <3>3, <3>4 DEF SQLDriverConnectRefused, Phases
  <2>11. ASSUME NEW level \in Isolations, SetIsolation(level) PROVE Typed'
    <3>1. h' \in Handle  BY <2>9, <2>11 DEF SetIsolation, Handle
    <3>2. app' \in Apps  BY <2>0, <2>1, <2>11, <3>1, SaidStepType DEF SetIsolation
    <3>3. ret' \in Rets  BY <2>1, <2>7, <2>8, <2>11, ReturnType DEF SetIsolation
    <3>4. db' \in Sessions  BY <2>0, <2>11 DEF SetIsolation, Sessions
    <3> QED  BY <2>0, <2>11, <3>1, <3>2, <3>3, <3>4 DEF SetIsolation
  <2>12. ASSUME NEW level \in Isolations, SetIsolationThrows(level) PROVE Typed'
    <3>1. <<"08000">> \in Seq(SqlStates)  BY <2>3 DEF SqlStates
    <3>2. [clearErrors(h) EXCEPT !.isolation = level] \in Handle  BY <2>9 DEF Handle
    <3>3. h' \in Handle  BY <2>12, <3>1, <3>2, PostErrors DEF SetIsolationThrows
    <3>4. app' \in Apps  BY <2>0, <2>1, <2>2, <2>12, <3>3, SaidStepType DEF SetIsolationThrows
    <3>5. ret' \in Rets  BY <2>1, <2>7, <2>8, <2>12, <3>1, ReturnType DEF SetIsolationThrows
    <3> QED  BY <2>0, <2>12, <3>3, <3>4, <3>5 DEF SetIsolationThrows
  <2>13. ASSUME NEW buffer \in Buffers, SQLGetInfoString(buffer) PROVE Typed'
    <3> DEFINE posted == IF buffer = "short" THEN <<"01004">> ELSE << >>
               code == IF buffer = "fits" THEN "SQL_SUCCESS" ELSE "SQL_SUCCESS_WITH_INFO"
    <3>1. posted \in Seq(SqlStates) /\ code \in Codes  BY <2>1, <2>3, <2>7 DEF SqlStates
    <3>2. /\ h' = postErrors(h, posted)
          /\ Said(<< >>, app.isolation)
          /\ Return("SQLGetInfo", code, << >>, {}, posted)
          /\ UNCHANGED <<db, phase>>
      BY <2>13 DEF SQLGetInfoString
    <3> HIDE DEF posted, code
    <3>3. h' \in Handle  BY <2>0, <3>1, <3>2, PostErrors
    <3>4. app' \in Apps  BY <2>0, <2>1, <2>2, <3>2, <3>3, SaidStepType
    <3>5. ret' \in Rets  BY <2>1, <2>8, <3>1, <3>2, ReturnType
    <3> QED  BY <2>0, <3>2, <3>3, <3>4, <3>5
  <2>14. CASE SQLGetInfoNumber
    <3>1. sqlSuccess(h) \in Codes  BY <2>7 DEF sqlSuccess
    <3>2. h' \in Handle  BY <2>0, <2>14 DEF SQLGetInfoNumber
    <3>3. app' \in Apps  BY <2>0, <2>1, <2>2, <2>14, <3>2, SaidStepType DEF SQLGetInfoNumber
    <3>4. ret' \in Rets  BY <2>1, <2>8, <2>14, <3>1, ReturnType DEF SQLGetInfoNumber
    <3> QED  BY <2>0, <2>14, <3>2, <3>3, <3>4 DEF SQLGetInfoNumber
  <2>15. ASSUME NEW state \in SqlStates, SQLGetInfoFails(state) PROVE Typed'
    <3>1. <<state>> \in Seq(SqlStates)  BY <2>3
    <3>2. h' \in Handle  BY <2>0, <2>15, <3>1, PostErrors DEF SQLGetInfoFails
    <3>3. app' \in Apps  BY <2>0, <2>1, <2>2, <2>15, <3>2, SaidStepType DEF SQLGetInfoFails
    <3>4. ret' \in Rets  BY <2>1, <2>7, <2>8, <2>15, <3>1, ReturnType DEF SQLGetInfoFails
    <3> QED  BY <2>0, <2>15, <3>2, <3>3, <3>4 DEF SQLGetInfoFails
  <2>16. CASE SQLDisconnect
    <3>1. h' \in Handle  BY <2>9, <2>16 DEF SQLDisconnect, Handle
    <3>2. app' \in Apps  BY <2>0, <2>1, <2>2, <2>16, <3>1, SaidStepType DEF SQLDisconnect
    <3>3. ret' \in Rets  BY <2>1, <2>7, <2>8, <2>16, ReturnType DEF SQLDisconnect
    <3>4. db' \in Sessions /\ phase' \in Phases  BY <2>16, NewTypes DEF SQLDisconnect, Phases
    <3> QED  BY <2>0, <3>1, <3>2, <3>3, <3>4
  <2>17. CASE Renew
    <3>1. ret' \in Rets  BY <2>1, <2>7, <2>8, <2>17, ReturnType DEF Renew
    <3> QED  BY <2>0, <2>17, <3>1, NewTypes DEF Renew, Phases
  <2>18. CASE SQLGetDiagRec
    <3>1. h.errors \in Seq(SqlStates) /\ app.seen \in Seq(SqlStates)
      BY <2>0 DEF Handle, Apps
    <3>2. Append(app.seen, h.errors[app.next]) \in Seq(SqlStates)
      BY <2>18, <3>1 DEF SQLGetDiagRec
    <3>3. app' = [app EXCEPT !.seen = Append(app.seen, h.errors[app.next]), !.next = app.next + 1]
      BY <2>18 DEF SQLGetDiagRec
    <3>4. app.next \in Nat \ {0} /\ app.next + 1 \in Nat \ {0}  BY <2>0 DEF Apps
    <3>5. app' \in Apps
      <4> DEFINE seen == Append(app.seen, h.errors[app.next])
                 next == app.next + 1
      <4>1. seen \in Seq(SqlStates) /\ next \in Nat \ {0}  BY <3>2, <3>4
      <4>2. app' = [app EXCEPT !.seen = seen, !.next = next]  BY <3>3
      <4> HIDE DEF seen, next
      <4> QED  BY <2>0, <4>1, <4>2 DEF Apps
    <3> QED  BY <2>0, <2>18, <3>5 DEF SQLGetDiagRec
  <2>19. CASE SQLError
    <3>1. h.errors \in Seq(SqlStates) /\ h.errors # << >> /\ app.seen \in Seq(SqlStates)
      BY <2>0, <2>19 DEF SQLError, Handle, Apps
    <3>2. Head(h.errors) \in SqlStates /\ Tail(h.errors) \in Seq(SqlStates)
      BY <3>1, HeadTailProperties
    <3>3. Append(app.seen, Head(h.errors)) \in Seq(SqlStates)  BY <3>1, <3>2
    <3>4. h' \in Handle  BY <2>0, <2>19, <3>2 DEF SQLError, takenOff, Handle
    <3>5. app' \in Apps  BY <2>0, <2>19, <3>3 DEF SQLError, Apps
    <3> QED  BY <2>0, <2>19, <3>4, <3>5 DEF SQLError
  <2> HIDE DEF Typed
  <2>20. CASE Next
    BY <2>5, <2>6, <2>10, <2>11, <2>12, <2>13, <2>14, <2>15, <2>16, <2>17, <2>18, <2>19, <2>20,
       <2>0, Steps
  <2> QED  BY <2>0, <2>4, <2>20
<1> QED  BY <1>1, <1>2, PTL DEF Spec

-----------------------------------------------------------------------------
(***************************************************************************)
(* The isolation level.                                                    *)
(***************************************************************************)
\* Before there is a session, the handle remembers the level for it.
IsolationInv ==
  /\ db.open => phase = "connected"
  /\ phase = "connected" => db.open
  /\ phase \in {"allocated", "browsing"} => h.isolation = app.isolation
  /\ IsolationAsSet

\* The session has the level that was set last with success, in whatever order
\* the application sets it and connects.
THEOREM IsolationAsSetCorrect == Spec => []IsolationAsSet
<1>1. Init => IsolationInv
  BY DEF Init, IsolationInv, IsolationAsSet, NewHandle, NoSession, NothingSaid
<1>2. TypeOK /\ IsolationInv /\ [Next]_vars => IsolationInv'
  <2> SUFFICES ASSUME TypeOK, IsolationInv, [Next]_vars PROVE IsolationInv'
    OBVIOUS
  <2>0. h \in Handle /\ db \in Sessions /\ app \in Apps  BY TypeParts
  <2>1. CASE UNCHANGED vars  BY <2>1 DEF vars, IsolationInv, IsolationAsSet
  <2>2. ASSUME AnyConnect PROVE IsolationInv'
    <3>1. PICK call \in Calls, o \in Handle, string \in Seq(Pair), out \in Seq(Pair),
               posted \in Seq(SqlStates) : ConnectStep(call, o, string, out, posted)
      BY <2>2 DEF AnyConnect
    <3>2. o.isolation = app.isolation  BY <3>1 DEF ConnectStep, IsolationInv
    <3> QED
      BY <3>1, <3>2 DEF ConnectStep, connect, opened, Said, NoSession, IsolationInv, IsolationAsSet
  <2>3. ASSUME NEW string \in Seq(Pair), NEW buffer \in Buffers,
               SQLBrowseConnectAsks(string, buffer)
        PROVE  IsolationInv'
    <3>1. h'.isolation = h.isolation
      <4>1. parsed(string) \in Handle /\ parsed(string).isolation = h.isolation
        BY <2>0, Parsed
      <4>2. h' = postErrors(parsed(string), truncation(buffer))
        BY <2>3 DEF SQLBrowseConnectAsks
      <4> QED  BY <4>1, <4>2 DEF postErrors, Handle
    <3> QED  BY <2>3, <3>1 DEF SQLBrowseConnectAsks, Said, IsolationInv, IsolationAsSet
  <2>4. CASE SQLDriverConnectRefused
    BY <2>4 DEF SQLDriverConnectRefused, Said, IsolationInv, IsolationAsSet
  <2>5. ASSUME NEW level \in Isolations, SetIsolation(level) PROVE IsolationInv'
    <3>1. h'.isolation = level  BY <2>0, <2>5, ClearErrors DEF SetIsolation, Handle
    <3> QED  BY <2>0, <2>5, <3>1 DEF SetIsolation, Said, IsolationInv, IsolationAsSet, Sessions
  <2>6. ASSUME NEW level \in Isolations, SetIsolationThrows(level) PROVE IsolationInv'
    BY <2>6 DEF SetIsolationThrows, Said, IsolationInv, IsolationAsSet
  <2>7. ASSUME NEW buffer \in Buffers, SQLGetInfoString(buffer) PROVE IsolationInv'
    BY <2>7 DEF SQLGetInfoString, Said, IsolationInv, IsolationAsSet
  <2>8. CASE SQLGetInfoNumber
    BY <2>8 DEF SQLGetInfoNumber, Said, IsolationInv, IsolationAsSet
  <2>9. ASSUME NEW state \in SqlStates, SQLGetInfoFails(state) PROVE IsolationInv'
    <3>1. h'.isolation = h.isolation  BY <2>0, <2>9 DEF SQLGetInfoFails, postErrors, Handle
    <3> QED  BY <2>9, <3>1 DEF SQLGetInfoFails, Said, IsolationInv, IsolationAsSet
  <2>10. CASE SQLDisconnect
    BY <2>10 DEF SQLDisconnect, NoSession, IsolationInv, IsolationAsSet
  <2>11. CASE Renew
    BY <2>11 DEF Renew, NewHandle, NothingSaid, IsolationInv, IsolationAsSet
  <2>12. CASE SQLGetDiagRec
    BY <2>0, <2>12 DEF SQLGetDiagRec, IsolationInv, IsolationAsSet, Apps
  <2>13. CASE SQLError
    BY <2>0, <2>13 DEF SQLError, IsolationInv, IsolationAsSet, Apps, Handle
  <2> HIDE DEF IsolationInv
  <2> QED
    BY <2>1, <2>2, <2>3, <2>4, <2>5, <2>6, <2>7, <2>8, <2>9, <2>10, <2>11, <2>12, <2>13, Steps
<1>3. IsolationInv => IsolationAsSet  BY DEF IsolationInv
<1> QED  BY <1>1, <1>2, <1>3, TypeCorrect, PTL DEF Spec

-----------------------------------------------------------------------------
(***************************************************************************)
(* The diagnostics.                                                        *)
(***************************************************************************)
\* How many records SQLError took off the list.
Gone == Len(app.seen) - (app.next - 1)

\* What is left in the list are the records that are due, but for those that are
\* gone; what was read are the first of them.
ReadInv ==
  /\ Gone >= 0
  /\ app.next - 1 <= Len(h.errors)
  /\ Len(app.due) = Gone + Len(h.errors)
  /\ \A i \in 1 .. Len(h.errors) : app.due[Gone + i] = h.errors[i]
  /\ \A i \in 1 .. Len(app.seen) : app.seen[i] = app.due[i]

LEMMA NothingReadYet ==
  ASSUME h' \in Handle, app'.next = 1, app'.seen = << >>, app'.due = h'.errors
  PROVE  ReadInv'
<1>1. h'.errors \in Seq(SqlStates)  BY DEF Handle
<1>2. Len(h'.errors) \in Nat  BY <1>1
<1>3. Gone' = 0  BY DEF Gone
<1> QED  BY <1>2, <1>3 DEF ReadInv

LEMMA ReadInOrder ==
  ASSUME TypeOK, ReadInv
  PROVE  RecordsInOrder
<1> DEFINE seen == app.seen
           due == app.due
<1>0. /\ seen \in Seq(SqlStates) /\ due \in Seq(SqlStates) /\ h.errors \in Seq(SqlStates)
      /\ app.next \in Nat \ {0} /\ Len(seen) \in Nat /\ Len(due) \in Nat /\ Len(h.errors) \in Nat
  BY DEF TypeOK
<1>1. Len(seen) <= Len(due)  BY <1>0 DEF ReadInv, Gone
<1>2. seen = SubSeq(due, 1, Len(seen))
  <2>1. \A i \in 1 .. Len(seen) : due[i] \in SqlStates  BY <1>0, <1>1
  <2>2. /\ SubSeq(due, 1, Len(seen)) \in Seq(SqlStates)
        /\ Len(SubSeq(due, 1, Len(seen))) = Len(seen)
        /\ \A i \in 1 .. Len(seen) : SubSeq(due, 1, Len(seen))[i] = due[i]
    BY <1>0, <2>1, SubSeqProperties
  <2>3. \A i \in 1 .. Len(seen) : seen[i] = due[i]  BY DEF ReadInv
  <2> HIDE DEF seen, due
  <2> QED  BY <1>0, <2>2, <2>3, SeqEqual
<1>3. ASSUME app.next \notin DOMAIN h.errors PROVE seen = due
  <2>1. Len(seen) = Len(due)  BY <1>0, <1>3 DEF ReadInv, Gone
  <2>2. \A i \in 1 .. Len(seen) : seen[i] = due[i]  BY DEF ReadInv
  <2> HIDE DEF seen, due
  <2> QED  BY <1>0, <2>1, <2>2, SeqEqual
<1> QED  BY <1>1, <1>2, <1>3 DEF RecordsInOrder

\* The records that are there to be read are those of the last call but for
\* SQLGetInfo, and its code tells of them.
THEOREM CodeTellsRecordsCorrect == Spec => []CodeTellsRecords
<1>1. Init => CodeTellsRecords
  BY DEF Init, CodeTellsRecords, NothingSaid
<1>2. TypeOK /\ CodeTellsRecords /\ [Next]_vars => CodeTellsRecords'
  <2> SUFFICES ASSUME TypeOK, CodeTellsRecords, [Next]_vars PROVE CodeTellsRecords'
    OBVIOUS
  <2>0. h \in Handle /\ app \in Apps /\ clearErrors(h) \in Handle /\ clearErrors(h).errors = << >>
    BY TypeParts, ClearErrors
  <2>1. CASE UNCHANGED vars  BY <2>1 DEF vars, CodeTellsRecords
  <2>2. ASSUME AnyConnect PROVE CodeTellsRecords'
    <3>1. PICK call \in Calls, o \in Handle, string \in Seq(Pair), out \in Seq(Pair),
               posted \in Seq(SqlStates) : ConnectStep(call, o, string, out, posted)
      BY <2>2 DEF AnyConnect
    <3>2. o.errors = posted /\ (o.infoPosted <=> posted # << >>)  BY <3>1 DEF ConnectStep
    <3>3. CASE /\ h' = [o EXCEPT !.connected = TRUE]
               /\ Said(string, app.isolation)
               /\ Return(call, sqlSuccess(o), out, {}, posted)
      <4>1. h'.errors = posted  BY <3>2, <3>3 DEF Handle
      <4>2. app'.due = posted /\ ret'.posted = posted /\ ret'.code = sqlSuccess(o)
        BY <3>3, <4>1 DEF Said, Return
      <4>3. CASE posted = << >>
        <5>1. sqlSuccess(o) = "SQL_SUCCESS"  BY <3>2, <4>3 DEF sqlSuccess
        <5> QED  BY <4>2, <4>3, <5>1 DEF CodeTellsRecords
      <4>4. CASE posted # << >>
        <5>1. sqlSuccess(o) = "SQL_SUCCESS_WITH_INFO"  BY <3>2, <4>4 DEF sqlSuccess
        <5> QED  BY <4>2, <4>4, <5>1 DEF CodeTellsRecords
      <4> QED  BY <4>3, <4>4
    <3>4. CASE /\ h' = postErrors(o, <<"08004">>)
               /\ Said(string, app.isolation)
               /\ Return(call, "SQL_ERROR", out, {}, posted \o <<"08004">>)
      <4>1. <<"08004">> \in Seq(SqlStates) /\ <<"08004">> # << >>
        <5>1. "08004" \in SqlStates  BY DEF SqlStates
        <5>2. \A state \in SqlStates : <<state>> \in Seq(SqlStates) /\ <<state>> # << >>
          OBVIOUS
        <5> QED  BY <5>1, <5>2
      <4>2. h'.errors = posted \o <<"08004">>  BY <3>2, <3>4 DEF postErrors, Handle
      <4>3. posted \o <<"08004">> # << >>  BY <3>1, <4>1, ConcatEqualIffEmpty
      <4>4. /\ app'.due = posted \o <<"08004">> /\ ret'.posted = posted \o <<"08004">>
            /\ ret'.code = "SQL_ERROR"
        BY <3>4, <4>2 DEF Said, Return
      <4> QED  BY <4>3, <4>4 DEF CodeTellsRecords
    <3> QED  BY <3>1, <3>3, <3>4 DEF ConnectStep, connect
  <2>3. ASSUME NEW string \in Seq(Pair), NEW buffer \in Buffers,
               SQLBrowseConnectAsks(string, buffer)
        PROVE  CodeTellsRecords'
    <3> DEFINE records == Records(unknown(string), "01S00")
    <3>1. parsed(string) \in Handle /\ parsed(string).errors = records  BY <2>0, Parsed
    <3>2. h'.errors = records \o truncation(buffer)
      BY <2>3, <3>1 DEF SQLBrowseConnectAsks, postErrors, Handle
    <3>3. /\ app'.due = records \o truncation(buffer) /\ ret'.posted = records \o truncation(buffer)
          /\ ret'.code = "SQL_NEED_DATA"
      BY <2>3, <3>2 DEF SQLBrowseConnectAsks, Said, Return
    <3> QED  BY <3>3 DEF CodeTellsRecords
  <2>4. ASSUME NEW state, NEW o \in Handle, NEW call, NEW level, o.errors = << >>,
               h' = postErrors(o, <<state>>), Said(<< >>, level), state \in SqlStates,
               Return(call, "SQL_ERROR", << >>, {}, <<state>>)
        PROVE  CodeTellsRecords'
    <3>1. <<state>> \in Seq(SqlStates) /\ <<state>> # << >>  BY <2>4
    <3>2. << >> \o <<state>> = <<state>>  BY <3>1, ConcatEmptySeq
    <3>3. h'.errors = <<state>>  BY <2>4, <3>2 DEF postErrors, Handle
    <3>4. app'.due = <<state>> /\ ret'.posted = <<state>> /\ ret'.code = "SQL_ERROR"
      BY <2>4, <3>3 DEF Said, Return
    <3> QED  BY <3>1, <3>4 DEF CodeTellsRecords
  <2>5. CASE SQLDriverConnectRefused
    BY <2>0, <2>4, <2>5 DEF SQLDriverConnectRefused, SqlStates
  <2>6. ASSUME NEW level \in Isolations, SetIsolation(level) PROVE CodeTellsRecords'
    BY <2>0, <2>6 DEF SetIsolation, Said, Return, CodeTellsRecords, Handle
  <2>7. ASSUME NEW level \in Isolations, SetIsolationThrows(level) PROVE CodeTellsRecords'
    <3> DEFINE o == [clearErrors(h) EXCEPT !.isolation = level]
    <3>1. o \in Handle /\ o.errors = << >>  BY <2>0 DEF Handle
    <3>2. /\ h' = postErrors(o, <<"08000">>) /\ Said(<< >>, app.isolation)
          /\ Return("SQLSetConnectAttr", "SQL_ERROR", << >>, {}, <<"08000">>)
      BY <2>7 DEF SetIsolationThrows
    <3> HIDE DEF o
    <3> QED  BY <2>4, <3>1, <3>2 DEF SqlStates
  <2>8. ASSUME NEW buffer \in Buffers, SQLGetInfoString(buffer) PROVE CodeTellsRecords'
    BY <2>8 DEF SQLGetInfoString, Return, CodeTellsRecords
  <2>9. CASE SQLGetInfoNumber  BY <2>9 DEF SQLGetInfoNumber, Return, CodeTellsRecords
  <2>10. ASSUME NEW state \in SqlStates, SQLGetInfoFails(state) PROVE CodeTellsRecords'
    BY <2>10 DEF SQLGetInfoFails, Return, CodeTellsRecords
  <2>11. CASE SQLDisconnect
    BY <2>0, <2>11 DEF SQLDisconnect, Said, Return, CodeTellsRecords, Handle
  <2>12. CASE Renew  BY <2>12 DEF Renew, NothingSaid, Return, CodeTellsRecords
  <2>13. CASE SQLGetDiagRec  BY <2>0, <2>13 DEF SQLGetDiagRec, CodeTellsRecords, Apps
  <2>14. CASE SQLError  BY <2>0, <2>14 DEF SQLError, CodeTellsRecords, Apps
  <2> HIDE DEF CodeTellsRecords
  <2> QED
    BY <2>1, <2>2, <2>3, <2>5, <2>6, <2>7, <2>8, <2>9, <2>10, <2>11, <2>12, <2>13, <2>14, Steps
<1> QED  BY <1>1, <1>2, TypeCorrect, PTL DEF Spec

\* The application reads every record once and in order, whichever of the two
\* ways to read them it uses, and in whatever turns.
THEOREM RecordsInOrderCorrect == Spec => []RecordsInOrder
<1>1. Init => ReadInv
  BY DEF Init, ReadInv, Gone, NewHandle, NothingSaid
<1>2. TypeOK /\ TypeOK' /\ ReadInv /\ [Next]_vars => ReadInv'
  <2> SUFFICES ASSUME TypeOK, TypeOK', ReadInv, [Next]_vars PROVE ReadInv'
    OBVIOUS
  <2>0. h \in Handle /\ app \in Apps /\ h' \in Handle
    BY TypeParts DEF TypeOK, Handle
  <2>1. CASE UNCHANGED vars  BY <2>1 DEF vars, ReadInv, Gone
  <2>2. ASSUME NEW string, NEW level, Said(string, level) PROVE ReadInv'
    BY <2>0, <2>2, NothingReadYet DEF Said
  <2>3. ASSUME AnyConnect PROVE ReadInv'
    BY <2>2, <2>3 DEF AnyConnect, ConnectStep, connect
  <2>4. ASSUME NEW string \in Seq(Pair), NEW buffer \in Buffers,
               SQLBrowseConnectAsks(string, buffer)
        PROVE  ReadInv'
    BY <2>2, <2>4 DEF SQLBrowseConnectAsks
  <2>5. CASE SQLDriverConnectRefused  BY <2>2, <2>5 DEF SQLDriverConnectRefused
  <2>6. ASSUME NEW level \in Isolations, SetIsolation(level) \/ SetIsolationThrows(level)
        PROVE  ReadInv'
    BY <2>2, <2>6 DEF SetIsolation, SetIsolationThrows
  <2>7. ASSUME NEW buffer \in Buffers, SQLGetInfoString(buffer) PROVE ReadInv'
    BY <2>2, <2>7 DEF SQLGetInfoString
  <2>8. CASE SQLGetInfoNumber  BY <2>2, <2>8 DEF SQLGetInfoNumber
  <2>9. ASSUME NEW state \in SqlStates, SQLGetInfoFails(state) PROVE ReadInv'
    BY <2>2, <2>9 DEF SQLGetInfoFails
  <2>10. CASE SQLDisconnect  BY <2>2, <2>10 DEF SQLDisconnect
  <2>11. CASE Renew
    BY <2>0, <2>11, NothingReadYet DEF Renew, NewHandle, NothingSaid
  <2>12. ASSUME SQLGetDiagRec \/ SQLError PROVE Len(app.seen) \in Nat /\ Len(h.errors) \in Nat
    BY <2>0 DEF Apps, Handle
  <2>13. CASE SQLGetDiagRec
    <3> DEFINE record == h.errors[app.next]
               n == Len(app.seen)
    <3>1. /\ app.seen \in Seq(SqlStates) /\ h.errors \in Seq(SqlStates)
          /\ app.next \in 1 .. Len(h.errors) /\ n \in Nat /\ Len(h.errors) \in Nat
      BY <2>0, <2>13 DEF SQLGetDiagRec, Apps, Handle
    <3>2. record \in SqlStates  BY <3>1
    <3>3. /\ app'.seen = Append(app.seen, record) /\ app'.next = app.next + 1
          /\ app'.due = app.due /\ h' = h
      BY <2>0, <2>13 DEF SQLGetDiagRec, Apps
    <3>4. record = app.due[n + 1]
      <4>1. record = app.due[Gone + app.next]  BY <3>1 DEF ReadInv
      <4>2. Gone + app.next = n + 1  BY <3>1 DEF Gone
      <4> QED  BY <4>1, <4>2
    <3> HIDE DEF record
    <3>5. /\ Len(app'.seen) = n + 1 /\ app'.seen[n + 1] = record
          /\ \A i \in 1 .. n : app'.seen[i] = app.seen[i]
      BY <3>1, <3>2, <3>3, AppendProperties
    <3>6. Gone' = Gone  BY <3>1, <3>3, <3>5 DEF Gone
    <3>7. \A i \in 1 .. n + 1 : app'.seen[i] = app.due[i]  BY <3>1, <3>4, <3>5 DEF ReadInv
    <3> QED  BY <3>1, <3>3, <3>5, <3>6, <3>7 DEF ReadInv
  <2>14. CASE SQLError
    <3> DEFINE record == Head(h.errors)
               n == Len(app.seen)
    <3>1. /\ app.seen \in Seq(SqlStates) /\ h.errors \in Seq(SqlStates) /\ h.errors # << >>
          /\ app.next = 1 /\ n \in Nat /\ Len(h.errors) \in Nat
      BY <2>0, <2>14 DEF SQLError, Apps, Handle
    <3>2. /\ record \in SqlStates /\ record = h.errors[1] /\ Len(h.errors) >= 1
          /\ Len(Tail(h.errors)) = Len(h.errors) - 1
          /\ \A i \in 1 .. Len(h.errors) - 1 : Tail(h.errors)[i] = h.errors[i + 1]
      BY <3>1, HeadTailProperties
    <3>3. /\ app'.seen = Append(app.seen, record) /\ app'.next = app.next
          /\ app'.due = app.due /\ h'.errors = Tail(h.errors)
      BY <2>0, <2>14 DEF SQLError, takenOff, Apps, Handle
    <3>4. Gone = n  BY <3>1 DEF Gone
    <3>0. /\ Len(app.due) = n + Len(h.errors)
          /\ \A i \in 1 .. Len(h.errors) : app.due[n + i] = h.errors[i]
      BY <3>4 DEF ReadInv
    <3>5. record = app.due[n + 1]  BY <3>0, <3>1, <3>2
    <3> HIDE DEF record
    <3>6. /\ Len(app'.seen) = n + 1 /\ app'.seen[n + 1] = record
          /\ \A i \in 1 .. n : app'.seen[i] = app.seen[i]
      BY <3>1, <3>2, <3>3, AppendProperties
    <3>7. Gone' = n + 1  BY <3>1, <3>3, <3>6 DEF Gone
    <3>8. \A i \in 1 .. n + 1 : app'.seen[i] = app.due[i]  BY <3>1, <3>5, <3>6 DEF ReadInv
    <3>9. \A i \in 1 .. Len(h.errors) - 1 : app.due[n + 1 + i] = Tail(h.errors)[i]
      <4> SUFFICES ASSUME NEW i \in 1 .. Len(h.errors) - 1
                   PROVE  app.due[n + 1 + i] = Tail(h.errors)[i]
        OBVIOUS
      <4>0. i + 1 \in 1 .. Len(h.errors)  BY <3>1
      <4>1. app.due[n + (i + 1)] = h.errors[i + 1]  BY <3>0, <4>0
      <4>2. \A a, b \in Nat : a + (b + 1) = a + 1 + b  OBVIOUS
      <4>3. n \in Nat /\ i \in Nat  BY <3>1
      <4>4. n + (i + 1) = n + 1 + i  BY <4>2, <4>3
      <4> QED  BY <3>2, <4>1, <4>4
    <3>10. /\ Len(h'.errors) = Len(h.errors) - 1
           /\ Len(app'.due) = Gone' + Len(h'.errors)
      <4>1. Len(h'.errors) = Len(h.errors) - 1  BY <3>2, <3>3
      <4>2. Len(app'.due) = n + Len(h.errors)  BY <3>0, <3>3
      <4>3. \A a, b \in Nat : a + b = (a + 1) + (b - 1)  OBVIOUS
      <4> QED  BY <3>1, <3>7, <4>1, <4>2, <4>3
    <3>11. \A i \in 1 .. Len(h'.errors) : app'.due[Gone' + i] = h'.errors[i]
      BY <3>3, <3>7, <3>9, <3>10
    <3>12. Gone' >= 0 /\ app'.next - 1 <= Len(h'.errors)  BY <3>1, <3>2, <3>3, <3>7, <3>10
    <3>13. \A i \in 1 .. Len(app'.seen) : app'.seen[i] = app'.due[i]  BY <3>3, <3>6, <3>8
    <3> QED  BY <3>10, <3>11, <3>12, <3>13 DEF ReadInv
  <2> HIDE DEF ReadInv
  <2> QED
    BY <2>1, <2>3, <2>4, <2>5, <2>6, <2>7, <2>8, <2>9, <2>10, <2>11, <2>13, <2>14, Steps
<1>3. TypeOK /\ ReadInv => RecordsInOrder  BY ReadInOrder
<1> QED  BY <1>1, <1>2, <1>3, TypeCorrect, PTL DEF Spec

-----------------------------------------------------------------------------
(***************************************************************************)
(* The session.                                                            *)
(***************************************************************************)
Wants == {"databaseName", "account", "password", "schema"}

\* What is read back from the completed string.
LEMMA ReadBack ==
  ASSUME NEW param \in [Parameters -> Value], NEW v
  PROVE  /\ \A p \in {"dsn", "account", "password", "schema"} :
              said(completeString(param), p, v) = param[p]
         /\ said(completeString(param), "databaseName", v) = v
<1> DEFINE string == completeString(param)
<1>1. /\ string \in Seq(Pair) /\ Len(string) = 5
      /\ string[1] = [name |-> "DSN", value |-> param["dsn"]]
      /\ string[2] = [name |-> "UIC", value |-> param["account"]]
      /\ string[3] = [name |-> "PWD", value |-> param["password"]]
      /\ string[4] = [name |-> "SCHEMA", value |-> param["schema"]]
      /\ string[5] = [name |-> "DRIVER", value |-> param["driver"]]
  BY CompleteStringType DEF completeString
<1> HIDE DEF string
<1>2. /\ naming["dsn"] = {"DSN"} /\ naming["account"] = {"UID", "UIC"}
      /\ naming["password"] = {"PWD"} /\ naming["schema"] = {"SCHEMA"}
      /\ naming["databaseName"] = {"DBNAME", "DATABASE"}
  BY DEF naming
<1>3. ASSUME NEW p \in Parameters
      PROVE  LET last == lastNaming(string, p)
             IN  /\ last \in 0 .. 5
                 /\ last # 0 => string[last].name \in naming[p]
                 /\ \A i \in 1 .. 5 : string[i].name \in naming[p] => i <= last
  BY <1>1, LastNaming
<1>4. lastNaming(string, "dsn") = 1  BY <1>1, <1>2, <1>3 DEF Parameters
<1>5. lastNaming(string, "account") = 2  BY <1>1, <1>2, <1>3 DEF Parameters
<1>6. lastNaming(string, "password") = 3  BY <1>1, <1>2, <1>3 DEF Parameters
<1>7. lastNaming(string, "schema") = 4  BY <1>1, <1>2, <1>3 DEF Parameters
<1>8. lastNaming(string, "databaseName") = 0  BY <1>1, <1>2, <1>3 DEF Parameters
<1>9. /\ said(string, "dsn", v) = param["dsn"]
      /\ said(string, "account", v) = param["account"]
      /\ said(string, "password", v) = param["password"]
      /\ said(string, "schema", v) = param["schema"]
      /\ said(string, "databaseName", v) = v
  BY <1>1, <1>4, <1>5, <1>6, <1>7, <1>8 DEF said, taken
<1> QED  BY <1>9 DEF string

\* As long as there is no session, the handle has gathered what was said.
SessionInv ==
  /\ db.open => phase = "connected"
  /\ phase \in {"allocated", "browsing"} =>
       \A p \in Parameters : h.param[p] = said(app.said, p, NewParameters[p])
  /\ SessionAsAsked
  /\ OutStringReconnects

\* A string more, and the handle has gathered that, too.
LEMMA Gathered ==
  ASSUME TypeOK, SessionInv, phase \in {"allocated", "browsing"}, NEW string \in Seq(Pair),
         NEW p \in Parameters
  PROVE  assign(h.param, string)[p] = said(app.said \o string, p, NewParameters[p])
<1>1. app.said \in Seq(Pair)  BY DEF TypeOK
<1>2. h.param[p] = said(app.said, p, NewParameters[p])  BY DEF SessionInv
<1>3. assign(h.param, string)[p] = said(string, p, h.param[p])  BY DEF assign
<1> QED  BY <1>1, <1>2, <1>3, SaidConcat

\* The parameters of the session: what was given, or else what the source has.
LEMMA Expanded ==
  ASSUME NEW param \in [Parameters -> Value], NEW p \in Wants
  PROVE  /\ expandConnectParameters(param)[p] =
              IF param[p] # Empty \/ param["dsn"] = Empty THEN param[p]
              ELSE sourceValue(param["dsn"], p)
         /\ expandConnectParameters(param)["dsn"] = param["dsn"]
BY DEF expandConnectParameters, Wants, Parameters

\* The completed string opens a session with the same parameters, but for the
\* database if that was named.
LEMMA Reopens ==
  ASSUME NEW param \in [Parameters -> Value], param["databaseName"] = Empty, NEW p \in Wants
  PROVE  LET q == expandConnectParameters(param)
         IN  expandConnectParameters(assign(NewParameters, completeString(q)))[p] = q[p]
<1> DEFINE q == expandConnectParameters(param)
           r == assign(NewParameters, completeString(q))
<1>1. q \in [Parameters -> Value]  BY ExpandType
<1>2. completeString(q) \in Seq(Pair)  BY <1>1, CompleteStringType
<1>3. NewParameters \in [Parameters -> Value]  BY NewTypes DEF NewHandle, Handle
<1>4. r \in [Parameters -> Value]  BY <1>2, <1>3, AssignType
<1>5. /\ \A w \in {"dsn", "account", "password", "schema"} : r[w] = q[w]
      /\ r["databaseName"] = Empty
  <2>1. \A w \in Parameters : r[w] = said(completeString(q), w, NewParameters[w])
    BY DEF assign
  <2>2. NewParameters["databaseName"] = Empty  BY DEF NewParameters, Parameters
  <2> HIDE DEF q, r
  <2> QED  BY <1>1, <2>1, <2>2, ReadBack DEF Parameters
<1>6. /\ q[p] = IF param[p] # Empty \/ param["dsn"] = Empty THEN param[p]
                ELSE sourceValue(param["dsn"], p)
      /\ q["dsn"] = param["dsn"]
  BY Expanded
<1> HIDE DEF q, r
<1>7. expandConnectParameters(r)[p] = IF r[p] # Empty \/ r["dsn"] = Empty THEN r[p]
                                      ELSE sourceValue(r["dsn"], p)
  BY <1>4, Expanded
<1> QED  BY <1>5, <1>6, <1>7 DEF Wants, q, r

LEMMA SessionStep == TypeOK /\ TypeOK' /\ SessionInv /\ [Next]_vars => SessionInv'
<1> SUFFICES ASSUME TypeOK, TypeOK', SessionInv, [Next]_vars PROVE SessionInv'
  OBVIOUS
<1>0. h \in Handle /\ app \in Apps /\ h' \in Handle /\ app.said \in Seq(Pair)
  BY TypeParts DEF TypeOK, Handle, Apps
<1>1. CASE UNCHANGED <<h, db, phase, ret, app.said>>
  BY <1>1 DEF SessionInv, SessionAsAsked, OutStringReconnects, SameSession, Reconnected,
              Wanted, Given
<1>2. ASSUME NEW level, Said(<< >>, level) PROVE app'.said = app.said
  BY <1>0, <1>2, ConcatEmptySeq DEF Said
\* Calls that say nothing of the parameters.
<1>3. ASSUME app'.said = app.said, h'.param = h.param, phase' = phase,
             db'.open = db.open, db'.param = db.param, ret'.out = << >>
      PROVE  SessionInv'
  BY <1>3 DEF SessionInv, SessionAsAsked, OutStringReconnects, Wanted, Given
<1>4. CASE UNCHANGED vars  BY <1>1, <1>4 DEF vars
<1>5. ASSUME AnyConnect PROVE SessionInv'
  <2>1. PICK call \in Calls, o \in Handle, string \in Seq(Pair), out \in Seq(Pair),
             posted \in Seq(SqlStates) : ConnectStep(call, o, string, out, posted)
    BY <1>5 DEF AnyConnect
  <2> DEFINE param == assign(h.param, string)
  <2>2. /\ phase \in {"allocated", "browsing"} /\ o.param = expandConnectParameters(param)
        /\ out = << >> \/ out = completeString(o.param)
        /\ connect(call, o, string, out, posted)
    BY <2>1 DEF ConnectStep
  <2>3. param \in [Parameters -> Value]  BY <1>0, AssignType DEF Handle
  <2>4. app'.said = app.said \o string /\ ret'.out = out
    BY <2>2 DEF connect, Said, Return
  <2>5. \A p \in Wants \cup {"dsn"} : param[p] = said(app'.said, p, Empty)
    <3> SUFFICES ASSUME NEW p \in Wants \cup {"dsn"} PROVE param[p] = said(app'.said, p, Empty)
      OBVIOUS
    <3>1. p \in Parameters /\ NewParameters[p] = Empty  BY DEF Wants, Parameters, NewParameters
    <3> QED  BY <2>2, <2>4, <3>1, Gathered
  <2>6. CASE db' = opened(o) /\ phase' = "connected"
    <3>1. db'.open = TRUE /\ db'.param = expandConnectParameters(param)
      BY <2>2, <2>6 DEF opened
    <3> HIDE DEF param
    <3>2. SessionAsAsked'
      <4>1. \A p \in Wants : db'.param[p] = IF param[p] # Empty \/ param["dsn"] = Empty
                                            THEN param[p] ELSE sourceValue(param["dsn"], p)
        BY <2>3, <3>1, Expanded
      <4> QED  BY <2>5, <4>1 DEF SessionAsAsked, Wanted, Given, Wants
    <3>3. OutStringReconnects'
      <4> SUFFICES ASSUME ret'.out # << >>, Given("databaseName")' = Empty
                   PROVE  SameSession'
        BY DEF OutStringReconnects
      <4>1. param["databaseName"] = Empty  BY <2>5 DEF Given, Wants
      <4>2. ret'.out = completeString(expandConnectParameters(param))  BY <2>2, <2>4
      <4>3. \A p \in Wants :
              expandConnectParameters(assign(NewParameters, ret'.out))[p] = db'.param[p]
        BY <2>3, <3>1, <4>1, <4>2, Reopens
      <4> QED  BY <4>3 DEF SameSession, Reconnected, Wants
    <3> QED  BY <2>6, <3>2, <3>3 DEF SessionInv
  <2>7. CASE db' = NoSession /\ phase' = "released"
    BY <2>7 DEF SessionInv, NoSession, SessionAsAsked, OutStringReconnects
  <2> QED  BY <2>2, <2>6, <2>7 DEF connect
<1>6. ASSUME NEW string \in Seq(Pair), NEW buffer \in Buffers,
             SQLBrowseConnectAsks(string, buffer)
      PROVE  SessionInv'
  <2>1. /\ phase \in {"allocated", "browsing"} /\ phase' = "browsing" /\ db' = db
        /\ h' = postErrors(parsed(string), truncation(buffer))
        /\ app'.said = app.said \o string
    BY <1>6 DEF SQLBrowseConnectAsks, Said
  <2>2. h'.param = assign(h.param, string)
    <3>1. parsed(string) \in Handle /\ parsed(string).param = assign(h.param, string)
      BY <1>0, Parsed
    <3> QED  BY <2>1, <3>1 DEF postErrors, Handle
  <2>3. \A p \in Parameters : h'.param[p] = said(app'.said, p, NewParameters[p])
    BY <2>1, <2>2, Gathered
  <2>4. ~ db.open  BY <2>1 DEF SessionInv
  <2> QED  BY <2>1, <2>3, <2>4 DEF SessionInv, SessionAsAsked, OutStringReconnects
<1>7. CASE SQLDriverConnectRefused
  BY <1>7 DEF SQLDriverConnectRefused, SessionInv, SessionAsAsked, OutStringReconnects
<1>8. ASSUME NEW level \in Isolations, SetIsolation(level) PROVE SessionInv'
  <2>1. h'.param = h.param  BY <1>0, <1>8, ClearErrors DEF SetIsolation, Handle
  <2>2. db'.open = db.open /\ db'.param = db.param
    BY <1>8, TypeParts DEF SetIsolation, Sessions
  <2> QED  BY <1>2, <1>3, <1>8, <2>1, <2>2 DEF SetIsolation, Return
<1>9. ASSUME NEW level \in Isolations, SetIsolationThrows(level) PROVE SessionInv'
  <2>1. h'.param = h.param
    BY <1>0, <1>9, ClearErrors DEF SetIsolationThrows, postErrors, Handle
  <2> QED  BY <1>2, <1>3, <1>9, <2>1 DEF SetIsolationThrows, Return
<1>10. ASSUME NEW buffer \in Buffers, SQLGetInfoString(buffer) PROVE SessionInv'
  <2>1. h'.param = h.param  BY <1>0, <1>10 DEF SQLGetInfoString, postErrors, Handle
  <2> QED  BY <1>2, <1>3, <1>10, <2>1 DEF SQLGetInfoString, Return
<1>11. CASE SQLGetInfoNumber  BY <1>2, <1>3, <1>11 DEF SQLGetInfoNumber, Return
<1>12. ASSUME NEW state \in SqlStates, SQLGetInfoFails(state) PROVE SessionInv'
  <2>1. h'.param = h.param  BY <1>0, <1>12 DEF SQLGetInfoFails, postErrors, Handle
  <2> QED  BY <1>2, <1>3, <1>12, <2>1 DEF SQLGetInfoFails, Return
<1>13. CASE SQLDisconnect
  BY <1>13 DEF SQLDisconnect, NoSession, SessionInv, SessionAsAsked, OutStringReconnects
<1>14. CASE Renew
  <2>1. ~ db.open /\ db' = db  BY <1>14 DEF Renew, SessionInv
  <2>2. \A p \in Parameters : said(<< >>, p, NewParameters[p]) = NewParameters[p]
    BY NothingSaidOf
  <2>3. h'.param = NewParameters /\ app'.said = << >>
    BY <1>14 DEF Renew, NewHandle, NothingSaid
  <2> QED  BY <2>1, <2>2, <2>3 DEF SessionInv, SessionAsAsked, OutStringReconnects
<1>15. CASE SQLGetDiagRec
  <2>1. UNCHANGED <<h, db, phase, ret>> /\ app'.said = app.said
    BY <1>0, <1>15 DEF SQLGetDiagRec, Apps
  <2> QED  BY <1>1, <2>1
<1>16. CASE SQLError
  <2>1. UNCHANGED <<db, phase, ret>> /\ app'.said = app.said /\ h'.param = h.param
    BY <1>0, <1>16 DEF SQLError, Apps, Handle
  <2> QED
    BY <2>1 DEF SessionInv, SessionAsAsked, OutStringReconnects, SameSession, Reconnected,
                Wanted, Given
<1> HIDE DEF SessionInv
<1> QED
  BY <1>4, <1>5, <1>6, <1>7, <1>8, <1>9, <1>10, <1>11, <1>12, <1>13, <1>14, <1>15, <1>16, Steps

LEMMA SessionStart == Init => SessionInv
<1>1. \A p \in Parameters : said(<< >>, p, NewParameters[p]) = NewParameters[p]
  BY NothingSaidOf
<1> QED
  BY <1>1 DEF Init, SessionInv, SessionAsAsked, OutStringReconnects, NewHandle, NoSession,
              NothingSaid

\* The session is opened with what the application said, the last word on each
\* parameter counting, and with what its data source has where it said nothing.
THEOREM SessionAsAskedCorrect == Spec => []SessionAsAsked
<1>1. SessionInv => SessionAsAsked  BY DEF SessionInv
<1> QED  BY <1>1, SessionStart, SessionStep, TypeCorrect, PTL DEF Spec

\* The completed string opens the same session again, if the data source names
\* the database.
THEOREM OutStringReconnectsCorrect == Spec => []OutStringReconnects
<1>1. SessionInv => OutStringReconnects  BY DEF SessionInv
<1> QED  BY <1>1, SessionStart, SessionStep, TypeCorrect, PTL DEF Spec
-----------------------------------------------------------------------------
(***************************************************************************)
(* The conversation of SQLBrowseConnect.                                   *)
(***************************************************************************)
\* While it goes on, what was asked for is what the handle is missing.
AskedStill == phase = "browsing" => ret.missing = missing(h.param) /\ ret.missing # {}

\* The application answers a part of what it is asked for.
Answering(asked) ==
  /\ phase = "browsing"
  /\ \/ SQLBrowseConnectAsks(Answer[asked], "fits")
     \/ SQLBrowseConnect(Answer[asked], "fits")

\* What was answered is not asked for again, and once all of it is answered the
\* driver connects, or fails to.
BrowseForward ==
  [][\A asked \in SUBSET DOMAIN askedAs :
       asked \subseteq ret.missing /\ Answering(asked) =>
         IF asked = ret.missing THEN phase' \in {"connected", "released"}
         ELSE phase' = "browsing" => ret'.missing \subseteq ret.missing \ asked]_vars

\* A string that gives a parameter a value, or says nothing of one that has one.
LEMMA SaidValue ==
  ASSUME NEW string, NEW p, NEW v,
         IF lastNaming(string, p) = 0 THEN v # Empty ELSE said(string, p, Empty) # Empty
  PROVE  said(string, p, v) # Empty
BY DEF said

LEMMA AnswerNames ==
  ASSUME NEW asked \in SUBSET DOMAIN askedAs, NEW p \in asked
  PROVE  lastNaming(Answer[asked], p) # 0
<1>1. Answer[asked] \in Seq(Pair)
  BY AnswerAssumption
<1>2. PICK i \in DOMAIN Answer[asked] : Answer[asked][i].name = askedAs[p]
  BY AnswerAssumption
<1>3. i \in 1 .. Len(Answer[asked])
  BY <1>1
<1>4. p \in Parameters /\ askedAs[p] \in naming[p]
  BY DEF askedAs, naming, Parameters
<1>5. /\ i <= lastNaming(Answer[asked], p)
      /\ lastNaming(Answer[asked], p) \in 0 .. Len(Answer[asked])
  BY <1>1, <1>2, <1>3, <1>4, LastNaming
<1> QED
  BY <1>3, <1>5

\* An answer leaves missing what it does not give.
LEMMA AnswerGives ==
  ASSUME TypeOK, AskedStill, phase = "browsing",
         NEW asked \in SUBSET DOMAIN askedAs, asked \subseteq ret.missing
  PROVE  missing(parsed(Answer[asked]).param) \subseteq ret.missing \ asked
<1> DEFINE string == Answer[asked]
<1>1. string \in Seq(Pair)
  BY AnswerAssumption
<1>2. h \in Handle /\ h.param \in [Parameters -> Value]
  BY DEF TypeOK, Handle
<1>3. parsed(string).param = assign(h.param, string)
  BY <1>1, <1>2, Parsed
<1>4. \A p \in DOMAIN askedAs : lastNaming(string, p) # 0 => said(string, p, Empty) # Empty
  BY AnswerAssumption
<1>5. ret.missing = missing(h.param)
  BY DEF AskedStill
<1>6. ASSUME NEW p \in DOMAIN askedAs, p \in asked \/ p \notin ret.missing
      PROVE  p \notin missing(parsed(string).param)
  <2>1. p \in Parameters
    BY DEF askedAs, Parameters
  <2>2. IF lastNaming(string, p) = 0 THEN h.param[p] # Empty ELSE said(string, p, Empty) # Empty
    <3>1. CASE p \in asked
      BY <1>4, <3>1, AnswerNames
    <3>2. CASE p \notin ret.missing
      BY <1>4, <1>5, <3>2 DEF missing
    <3> QED
      BY <1>6, <3>1, <3>2
  <2>3. said(string, p, h.param[p]) # Empty
    BY <2>2, SaidValue
  <2>4. parsed(string).param[p] = said(string, p, h.param[p])
    BY <1>3, <2>1 DEF assign
  <2> QED
    BY <2>3, <2>4 DEF missing
<1>7. missing(parsed(string).param) \subseteq DOMAIN askedAs
  BY DEF missing
<1> HIDE DEF string
<1> QED
  BY <1>6, <1>7 DEF string

\* SQLBrowseConnect asks for what is missing after the string it was given.
LEMMA AsksForMissing ==
  ASSUME TypeOK, NEW string \in Seq(Pair), NEW buffer \in Buffers,
         SQLBrowseConnectAsks(string, buffer)
  PROVE  /\ phase' = "browsing"
         /\ h'.param = parsed(string).param
         /\ ret'.missing = missing(parsed(string).param) /\ ret'.missing # {}
<1>1. parsed(string) \in Handle
  BY Parsed DEF TypeOK, Handle
<1>2. truncation(buffer) \in Seq(SqlStates)
  BY TruncationType
<1>3. postErrors(parsed(string), truncation(buffer)).param = parsed(string).param
  BY <1>1, <1>2, PostErrors
<1> QED
  BY <1>3 DEF SQLBrowseConnectAsks, Return

LEMMA AskedStillStep == TypeOK /\ AskedStill /\ [Next]_vars => AskedStill'
<1> SUFFICES ASSUME TypeOK, AskedStill, [Next]_vars PROVE AskedStill'
  OBVIOUS
<1>1. CASE UNCHANGED vars
  BY <1>1 DEF vars, AskedStill
<1>2. CASE AnyConnect
  BY <1>2 DEF AnyConnect, ConnectStep, connect, AskedStill
<1>3. ASSUME NEW string \in Seq(Pair), NEW buffer \in Buffers, SQLBrowseConnectAsks(string, buffer)
      PROVE  AskedStill'
  BY <1>3, AsksForMissing DEF AskedStill
<1>4. CASE SQLDriverConnectRefused
  BY <1>4 DEF SQLDriverConnectRefused, AskedStill
<1>5. ASSUME NEW level \in Isolations, SetIsolation(level) \/ SetIsolationThrows(level)
      PROVE  AskedStill'
  BY <1>5 DEF SetIsolation, SetIsolationThrows, AskedStill
<1>6. ASSUME NEW buffer \in Buffers, SQLGetInfoString(buffer)
      PROVE  AskedStill'
  BY <1>6 DEF SQLGetInfoString, AskedStill
<1>7. CASE SQLGetInfoNumber
  BY <1>7 DEF SQLGetInfoNumber, AskedStill
<1>8. ASSUME NEW state \in SqlStates, SQLGetInfoFails(state)
      PROVE  AskedStill'
  BY <1>8 DEF SQLGetInfoFails, AskedStill
<1>9. CASE SQLDisconnect \/ Renew
  BY <1>9 DEF SQLDisconnect, Renew, AskedStill
<1>10. CASE SQLGetDiagRec
  BY <1>10 DEF SQLGetDiagRec, AskedStill
<1>11. CASE SQLError
  <2>1. h \in Handle
    BY DEF TypeOK, Handle
  <2>2. h'.param = h.param
    BY <1>11, <2>1 DEF SQLError, Handle
  <2> QED
    BY <1>11, <2>2 DEF SQLError, AskedStill
<1> QED
  BY <1>1, <1>2, <1>3, <1>4, <1>5, <1>6, <1>7, <1>8, <1>9, <1>10, <1>11, Steps

LEMMA AnswerForward ==
  ASSUME TypeOK, AskedStill, NEW asked \in SUBSET DOMAIN askedAs, asked \subseteq ret.missing,
         Answering(asked)
  PROVE  IF asked = ret.missing THEN phase' \in {"connected", "released"}
         ELSE phase' = "browsing" => ret'.missing \subseteq ret.missing \ asked
<1> DEFINE left == missing(parsed(Answer[asked]).param)
<1>1. left \subseteq ret.missing \ asked
  BY AnswerGives DEF Answering
<1>2. Answer[asked] \in Seq(Pair) /\ "fits" \in Buffers
  BY AnswerAssumption DEF Buffers
<1>3. CASE SQLBrowseConnectAsks(Answer[asked], "fits")
  <2>1. ret'.missing = left /\ left # {}
    BY <1>2, <1>3, AsksForMissing
  <2> HIDE DEF left
  <2> QED
    BY <1>1, <2>1
<1>4. CASE SQLBrowseConnect(Answer[asked], "fits")
  BY <1>4 DEF SQLBrowseConnect, connectWith, connect
<1> QED
  BY <1>3, <1>4 DEF Answering

\* Each answer to SQLBrowseConnect leaves less to be asked for, and the last one ends the
\* conversation: the driver understands an answer by the keyword it asked with, keeps it,
\* and does not take it back while it reads the next.
THEOREM BrowseForwardCorrect == Spec => BrowseForward /\ []AskedStill
<1>1. Init => AskedStill
  BY DEF Init, AskedStill
<1>2. TypeOK /\ AskedStill =>
        \A asked \in SUBSET DOMAIN askedAs :
          asked \subseteq ret.missing /\ Answering(asked) =>
            IF asked = ret.missing THEN phase' \in {"connected", "released"}
            ELSE phase' = "browsing" => ret'.missing \subseteq ret.missing \ asked
  BY AnswerForward
<1> QED
  BY <1>1, <1>2, AskedStillStep, TypeCorrect, PTL DEF Spec, BrowseForward
=============================================================================
