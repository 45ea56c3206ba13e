-------------------------- MODULE OdbcHandlesProofs --------------------------
(***************************************************************************)
(* Theorems about OdbcHandles: its types, that every list holds exactly    *)
(* the objects that exist, that it implements ClientObjects, and that a    *)
(* call that deletes comes nearer to its end with every step.              *)
(***************************************************************************)
EXTENDS OdbcHandles, FiniteSetTheorems, SequenceTheorems, TLAPS

-----------------------------------------------------------------------------
(***************************************************************************)
(* Lists that hold the objects of a set, each once.                        *)
(***************************************************************************)
Holds(list, S) ==
  /\ list \in Seq(S)
  /\ \A i, j \in 1 .. Len(list) : list[i] = list[j] => i = j
  /\ \A x \in S : \E i \in 1 .. Len(list) : list[i] = x

LEMMA HoldsLists ==
  ASSUME NEW list, NEW S, Holds(list, S)
  PROVE  Lists(list, S)
<1>1. /\ list \in Seq(S) /\ Len(list) \in Nat /\ DOMAIN list = 1 .. Len(list)
      /\ list \in [1 .. Len(list) -> S]
  BY DEF Holds
<1>2. ToSet(list) = S
  BY <1>1 DEF Holds, ToSet
<1>3. list \in Bijection(1 .. Len(list), S)
  BY <1>1 DEF Holds, Bijection, Injection, IsInjective, Surjection
<1>4. Cardinality(S) = Len(list)
  BY <1>1, <1>3, FS_CountingElements DEF ExistsBijection
<1> QED
  BY <1>2, <1>4 DEF Lists

LEMMA HoldsNothing == Holds(<< >>, {})
BY DEF Holds

LEMMA HoldsEmpty ==
  ASSUME NEW list, NEW S, Holds(list, S)
  PROVE  list = << >> <=> S = {}
<1>1. list \in Seq(S)
  BY DEF Holds
<1>2. list = << >> => S = {}
  BY DEF Holds
<1>3. list # << >> => list[1] \in S
  BY <1>1
<1> QED
  BY <1>2, <1>3

LEMMA HoldsHead ==
  ASSUME NEW list, NEW S, Holds(list, S), list # << >>
  PROVE  Head(list) \in S
BY DEF Holds

LEMMA HoldsConcat ==
  ASSUME NEW a, NEW A, NEW b, NEW B, Holds(a, A), Holds(b, B), A \cap B = {}
  PROVE  Holds(a \o b, A \cup B)
<1> DEFINE T == A \cup B
           r == a \o b
           m == Len(a)
<1>1. a \in Seq(T) /\ b \in Seq(T) /\ m \in Nat /\ Len(b) \in Nat
  BY DEF Holds
<1>2. /\ r \in Seq(T) /\ Len(r) = m + Len(b)
      /\ \A i \in 1 .. m + Len(b) : r[i] = IF i <= m THEN a[i] ELSE b[i - m]
  BY <1>1, ConcatProperties
<1> HIDE DEF r, m
<1>3. \A i \in 1 .. Len(r) : i <= m => i \in 1 .. m /\ r[i] = a[i] /\ r[i] \in A
  <2>1. \A i \in 1 .. m : a[i] \in A
    BY DEF Holds, m
  <2> QED
    BY <1>1, <1>2, <2>1
<1>4. \A i \in 1 .. Len(r) :
        ~(i <= m) => i - m \in 1 .. Len(b) /\ r[i] = b[i - m] /\ r[i] \in B
  <2>1. \A i \in 1 .. Len(b) : b[i] \in B
    BY DEF Holds
  <2> QED
    BY <1>1, <1>2, <2>1
<1>5. ASSUME NEW i \in 1 .. Len(r), NEW j \in 1 .. Len(r), r[i] = r[j]
      PROVE  i = j
  <2>1. CASE i <= m /\ j <= m
    BY <1>3, <1>5, <2>1 DEF Holds, m
  <2>2. CASE ~(i <= m) /\ ~(j <= m)
    <3>1. /\ i - m \in 1 .. Len(b) /\ j - m \in 1 .. Len(b)
          /\ b[i - m] = b[j - m]
      BY <1>4, <1>5, <2>2
    <3>2. i - m = j - m
      BY <3>1 DEF Holds
    <3> QED
      BY <1>1, <1>2, <3>2
  <2>3. CASE (i <= m) # (j <= m)
    BY <1>3, <1>4, <1>5, <2>3
  <2> QED
    BY <2>1, <2>2, <2>3
<1>6. ASSUME NEW y \in T
      PROVE  \E i \in 1 .. Len(r) : r[i] = y
  <2>1. CASE y \in A
    <3>1. PICK i \in 1 .. m : a[i] = y
      BY <2>1 DEF Holds, m
    <3> QED
      BY <1>1, <1>2, <3>1
  <2>2. CASE y \in B
    <3>1. PICK i \in 1 .. Len(b) : b[i] = y
      BY <2>2 DEF Holds
    <3>2. i + m \in 1 .. Len(r) /\ r[i + m] = y
      BY <1>1, <1>2, <3>1
    <3> QED
      BY <3>2
  <2> QED
    BY <2>1, <2>2
<1> QED
  BY <1>2, <1>5, <1>6 DEF Holds, r

LEMMA HoldsPrepend ==
  ASSUME NEW list, NEW S, Holds(list, S), NEW x, x \notin S
  PROVE  Holds(<<x>> \o list, {x} \cup S)
<1>1. Holds(<<x>>, {x})
  BY DEF Holds
<1> QED
  BY <1>1, HoldsConcat

LEMMA HoldsPrependFour ==
  ASSUME NEW list, NEW S, Holds(list, S), NEW a, NEW b, NEW c, NEW d,
         a \notin S, b \notin S, c \notin S, d \notin S,
         a # b, a # c, a # d, b # c, b # d, c # d
  PROVE  Holds(<<a, b, c, d>> \o list, {a, b, c, d} \cup S)
<1> DEFINE four == <<a, b, c, d>>
<1>1. four \in Seq({a, b, c, d}) /\ Len(four) = 4
  OBVIOUS
<1>2. four[1] = a /\ four[2] = b /\ four[3] = c /\ four[4] = d
  OBVIOUS
<1> HIDE DEF four
<1>3. \A i \in 1 .. 4 : i \in {1, 2, 3, 4}
  OBVIOUS
<1>4. \A i, j \in 1 .. Len(four) : four[i] = four[j] => i = j
  BY <1>1, <1>2, <1>3
<1>5. \A x \in {a, b, c, d} : \E i \in 1 .. Len(four) : four[i] = x
  BY <1>1, <1>2
<1>6. Holds(four, {a, b, c, d})
  BY <1>1, <1>4, <1>5 DEF Holds
<1> QED
  BY <1>6, HoldsConcat DEF four

\* Without the element at one place the list holds the others.
LEMMA HoldsWithout ==
  ASSUME NEW list, NEW S, Holds(list, S), NEW k \in 1 .. Len(list), NEW r,
         r \in Seq(S), Len(r) = Len(list) - 1,
         \A i \in 1 .. Len(r) : r[i] = IF i < k THEN list[i] ELSE list[i + 1]
  PROVE  Holds(r, S \ {list[k]})
<1> DEFINE old(i) == IF i < k THEN i ELSE i + 1
<1>1. Len(list) \in Nat /\ Len(r) \in Nat /\ k \in Int
  BY DEF Holds
<1>2. \A i \in 1 .. Len(r) :
        old(i) \in 1 .. Len(list) /\ old(i) # k /\ r[i] = list[old(i)]
  BY <1>1
<1>3. \A i, j \in 1 .. Len(r) : old(i) = old(j) => i = j
  BY <1>1
<1> HIDE DEF old
<1>4. ASSUME NEW i \in 1 .. Len(r), NEW j \in 1 .. Len(r), r[i] = r[j]
      PROVE  i = j
  <2>1. /\ old(i) \in 1 .. Len(list) /\ old(j) \in 1 .. Len(list)
        /\ list[old(i)] = list[old(j)]
    BY <1>2, <1>4
  <2>2. old(i) = old(j)
    BY <2>1 DEF Holds
  <2> QED
    BY <1>3, <2>2
<1>5. ASSUME NEW i \in 1 .. Len(r)
      PROVE  r[i] \in S \ {list[k]}
  <2>1. old(i) \in 1 .. Len(list) /\ old(i) # k /\ r[i] = list[old(i)]
    BY <1>2
  <2>2. list[old(i)] # list[k]
    BY <2>1 DEF Holds
  <2>3. list[old(i)] \in S
    BY <2>1 DEF Holds
  <2> QED
    BY <2>1, <2>2, <2>3
<1>6. ASSUME NEW x \in S \ {list[k]}
      PROVE  \E i \in 1 .. Len(r) : r[i] = x
  <2>1. PICK j \in 1 .. Len(list) : list[j] = x
    BY DEF Holds
  <2>2. CASE j < k
    BY <1>1, <2>1, <2>2
  <2>3. CASE j > k
    <3>1. j - 1 \in 1 .. Len(r) /\ r[j - 1] = x
      BY <1>1, <2>1, <2>3
    <3> QED
      BY <3>1
  <2> QED
    BY <1>1, <1>6, <2>1, <2>2, <2>3
<1>7. r \in Seq(S \ {list[k]})
  BY <1>1, <1>5
<1> QED
  BY <1>4, <1>6, <1>7 DEF Holds

LEMMA HoldsTail ==
  ASSUME NEW list, NEW S, Holds(list, S), list # << >>
  PROVE  Holds(Tail(list), S \ {Head(list)})
<1>1. list \in Seq(S)
  BY DEF Holds
<1>2. /\ Tail(list) \in Seq(S) /\ Len(Tail(list)) = Len(list) - 1
      /\ \A i \in 1 .. Len(Tail(list)) : Tail(list)[i] = list[i + 1]
      /\ Len(list) \in Nat /\ Len(list) > 0 /\ Head(list) = list[1]
  BY <1>1, HeadTailProperties
<1>3. 1 \in 1 .. Len(list)
  BY <1>2
<1>4. \A i \in 1 .. Len(Tail(list)) :
        Tail(list)[i] = IF i < 1 THEN list[i] ELSE list[i + 1]
  BY <1>2
<1> QED
  BY <1>2, <1>3, <1>4, HoldsWithout

LEMMA HoldsRemove ==
  ASSUME NEW list, NEW S, Holds(list, S), NEW x \in S
  PROVE  /\ Holds(RemoveFirst(list, x), S \ {x})
         /\ Len(RemoveFirst(list, x)) = Len(list) - 1
<1>1. PICK k \in 1 .. Len(list) : list[k] = x
  BY DEF Holds
<1>2. list \in Seq(S) /\ Len(list) \in Nat /\ k \in Int
  BY DEF Holds
<1>3. {i \in 1 .. Len(list) : list[i] = x} = {k}
  BY <1>1 DEF Holds
<1>4. SelectInSeq(list, LAMBDA v : v = x) = k
  <2>1. Min({k}) = k
    BY <1>2 DEF Min
  <2> QED
    BY <1>3, <2>1 DEF SelectInSeq
<1>5. RemoveFirst(list, x) = SubSeq(list, 1, k - 1) \o SubSeq(list, k + 1, Len(list))
  BY <1>1, <1>4 DEF RemoveFirst, RemoveAt
<1> DEFINE a == SubSeq(list, 1, k - 1)
           b == SubSeq(list, k + 1, Len(list))
<1>6. /\ a \in Seq(S) /\ Len(a) = k - 1
      /\ \A i \in 1 .. k - 1 : a[i] = list[i]
  <2>1. \A i \in 1 .. k - 1 : list[i] \in S
    BY <1>2
  <2>2. /\ a \in Seq(S) /\ Len(a) = IF 1 <= k - 1 THEN k - 1 - 1 + 1 ELSE 0
        /\ \A i \in 1 .. k - 1 - 1 + 1 : a[i] = list[1 + i - 1]
    BY <1>2, <2>1, SubSeqProperties
  <2> HIDE DEF a
  <2> QED
    BY <1>1, <1>2, <2>2
<1>7. /\ b \in Seq(S) /\ Len(b) = Len(list) - k
      /\ \A i \in 1 .. Len(list) - k : b[i] = list[k + i]
  <2>1. \A i \in k + 1 .. Len(list) : list[i] \in S
    BY <1>2
  <2>2. /\ b \in Seq(S)
        /\ Len(b) = IF k + 1 <= Len(list) THEN Len(list) - (k + 1) + 1 ELSE 0
        /\ \A i \in 1 .. Len(list) - (k + 1) + 1 : b[i] = list[k + 1 + i - 1]
    BY <1>2, <2>1, SubSeqProperties
  <2> HIDE DEF b
  <2> QED
    BY <1>1, <1>2, <2>2
<1> HIDE DEF a, b
<1> DEFINE r == a \o b
<1>8. /\ r \in Seq(S) /\ Len(r) = Len(list) - 1
      /\ \A i \in 1 .. Len(r) : r[i] = IF i < k THEN list[i] ELSE list[i + 1]
  <2>1. /\ r \in Seq(S) /\ Len(r) = Len(a) + Len(b)
        /\ \A i \in 1 .. Len(a) + Len(b) : r[i] = IF i <= Len(a) THEN a[i] ELSE b[i - Len(a)]
    BY <1>6, <1>7, ConcatProperties
  <2> HIDE DEF r
  <2>2. Len(r) = Len(list) - 1
    BY <1>1, <1>2, <1>6, <1>7, <2>1
  <2>3. ASSUME NEW i \in 1 .. Len(r), i < k
        PROVE  r[i] = list[i]
    BY <1>1, <1>2, <1>6, <1>7, <2>1, <2>3
  <2>4. ASSUME NEW i \in 1 .. Len(r), ~(i < k)
        PROVE  r[i] = list[i + 1]
    <3>1. i - (k - 1) \in 1 .. Len(list) - k /\ r[i] = b[i - (k - 1)]
      BY <1>1, <1>2, <1>6, <1>7, <2>1, <2>2, <2>4
    <3>2. b[i - (k - 1)] = list[k + (i - (k - 1))]
      BY <1>7, <3>1
    <3>3. k + (i - (k - 1)) = i + 1
      BY <1>2
    <3> QED
      BY <3>1, <3>2, <3>3
  <2> QED
    BY <2>1, <2>2, <2>3, <2>4
<1> HIDE DEF r
<1>9. Holds(r, S \ {list[k]})
  BY <1>8, HoldsWithout
<1> QED
  BY <1>1, <1>5, <1>8, <1>9 DEF r, a, b

-----------------------------------------------------------------------------
(***************************************************************************)
(* The invariant.                                                          *)
(***************************************************************************)
Attached(c) == {s \in Stmts : stmt[s].connection = c}
DescsOf(c) == {d \in desc : stmt[d[1]].connection = c}
Registered == {c \in Conns : conn[c].env}

StatementSteps == {"~OdbcStatement", "releaseStatement", "~OdbcDesc"}

\* Where the call that deletes may be, and what is gone by then.
PlaceInv ==
  pc # Idle =>
    /\ pc.call = "SQLFreeStmt" => pc.step \in StatementSteps
    /\ dm[pc.conn] \in IF pc.call = "SQLFreeConnect" THEN {"allocated", "disconnected"}
                       ELSE {"connected"}
    /\ pc.call # "SQLFreeStmt" /\ pc.step # "close" => ~conn[pc.conn].env
    /\ pc.step \in StatementSteps => pc.stmt \in Attached(pc.conn)
    /\ pc.step = "~OdbcDesc" => ~stmt[pc.stmt].statement
    /\ pc.step # "~OdbcDesc" => pc.left = 4
    /\ pc.step \in {"descriptors", "connection"} => Attached(pc.conn) = {}

\* The lists hold what they are to hold.
RegisteredInv ==
  IF connections = Gone THEN Registered = {} ELSE Holds(connections, Registered)
AttachedInv == \A c \in Conns : Holds(conn[c].statements, Attached(c) \ HalfDeleted)
DescriptorsInv == \A c \in Conns : Holds(conn[c].descriptors, DescsOf(c))

\* A statement has its four descriptors, but for those its destructor deleted.
DescInv ==
  \A s \in Stmts, k \in Kinds :
    <<s, k>> \in desc <=> Exists(s) /\ ~(At("~OdbcDesc") /\ pc.stmt = s /\ k > pc.left)

\* What the driver manager knows of a handle is so.
HandleInv ==
  \A c \in Conns :
    /\ dm[c] = "free" => conn[c] = NoConnection
    /\ dm[c] \in {"free", "allocated"} => Attached(c) = {}
    /\ conn[c].connection <=> dm[c] = "connected"

\* The client library has the objects that are pointed to.
ClientInv ==
  /\ client.misused = FALSE
  /\ client.statements =
       {p \in Stmts \X Conns : stmt[p[1]].connection = p[2] /\ stmt[p[1]].statement}
  /\ \A c \in Conns :
       /\ client.session[c] = "open" <=> dm[c] = "connected"
       /\ Attached(c) # {} => client.session[c] \in {"open", "abandoned"}

HandlesInv ==
  /\ TypeOK /\ PlaceInv
  /\ RegisteredInv /\ AttachedInv /\ DescriptorsInv
  /\ DescInv /\ HandleInv /\ ClientInv

\* The types, by name.
Clients ==
  [session : [Conns -> {"none", "open", "closed", "abandoned"}],
   statements : SUBSET (Stmts \X Conns), misused : BOOLEAN]
Phases == {"free", "allocated", "connected", "disconnected"}
Deletions ==
  [call : {"SQLFreeStmt", "SQLDisconnect", "SQLFreeConnect"},
   conn : Conns, stmt : Stmts \cup {NoStmt}, left : Kinds,
   step : {"close", "statements", "~OdbcStatement", "releaseStatement", "~OdbcDesc",
           "descriptors", "connection"}]

LEMMA TypeNamed ==
  ASSUME TypeOK
  PROVE  /\ connections \in Seq(Conns) \cup {Gone}
         /\ conn \in [Conns -> Connections]
         /\ stmt \in [Stmts -> Statements]
         /\ desc \subseteq Stmts \X Kinds
         /\ client \in Clients /\ dm \in [Conns -> Phases]
         /\ pc = Idle \/ pc \in Deletions
BY DEF TypeOK, Clients, Phases, Deletions

LEMMA TypeAfter ==
  ASSUME connections' \in Seq(Conns) \cup {Gone},
         conn' \in [Conns -> Connections],
         stmt' \in [Stmts -> Statements],
         desc' \subseteq Stmts \X Kinds,
         client' \in Clients, dm' \in [Conns -> Phases],
         pc' = Idle \/ pc' \in Deletions
  PROVE  TypeOK'
BY DEF TypeOK, Clients, Phases, Deletions

\* What a step leaves alone is as it was.
LEMMA RegisteredSame ==
  ASSUME RegisteredInv, connections' = connections,
         \A c \in Conns : conn'[c].env = conn[c].env
  PROVE  RegisteredInv'
<1>1. Registered' = Registered
  BY DEF Registered
<1> QED
  BY <1>1 DEF RegisteredInv

LEMMA AttachedSame ==
  ASSUME \A s \in Stmts : stmt'[s].connection = stmt[s].connection
  PROVE  \A c : Attached(c)' = Attached(c)
BY DEF Attached

LEMMA ListsSame ==
  ASSUME AttachedInv, HalfDeleted' = HalfDeleted,
         \A s \in Stmts : stmt'[s].connection = stmt[s].connection,
         \A c \in Conns : conn'[c].statements = conn[c].statements
  PROVE  AttachedInv'
<1>1. \A c : Attached(c)' = Attached(c)
  BY AttachedSame
<1> QED
  BY <1>1 DEF AttachedInv

LEMMA DescriptorsSame ==
  ASSUME TypeOK, DescriptorsInv, desc' = desc,
         \A s \in Stmts : stmt'[s].connection = stmt[s].connection,
         \A c \in Conns : conn'[c].descriptors = conn[c].descriptors
  PROVE  DescriptorsInv'
<1>1. \A d \in desc : d[1] \in Stmts
  BY DEF TypeOK
<1>2. \A c : DescsOf(c)' = DescsOf(c)
  BY <1>1 DEF DescsOf
<1> QED
  BY <1>2 DEF DescriptorsInv

LEMMA DescSame ==
  ASSUME DescInv, desc' = desc, ~At("~OdbcDesc"), ~At("~OdbcDesc")',
         \A s \in Stmts : stmt'[s].connection = stmt[s].connection
  PROVE  DescInv'
BY DEF DescInv, Exists

LEMMA ClientSame ==
  ASSUME ClientInv, client' = client,
         \A s \in Stmts : /\ stmt'[s].connection = stmt[s].connection
                          /\ stmt'[s].statement = stmt[s].statement,
         \A c \in Conns : dm[c] = "connected" <=> dm'[c] = "connected"
  PROVE  ClientInv'
<1>1. \A c : Attached(c)' = Attached(c)
  BY AttachedSame
<1>2. {p \in Stmts \X Conns : stmt[p[1]].connection = p[2] /\ stmt[p[1]].statement}'
        = {p \in Stmts \X Conns : stmt[p[1]].connection = p[2] /\ stmt[p[1]].statement}
  OBVIOUS
<1> QED
  BY <1>1, <1>2 DEF ClientInv

\* At rest nothing is half deleted.
LEMMA AtRest ==
  /\ pc = Idle => /\ HalfDeleted = {} /\ PlaceInv
                  /\ \A step : step # "none" => ~At(step)
  /\ pc' = Idle => /\ HalfDeleted' = {} /\ PlaceInv'
                   /\ \A step : step # "none" => ~At(step)'
BY DEF Idle, HalfDeleted, PlaceInv, At

-----------------------------------------------------------------------------
(***************************************************************************)
(* Allocating, and the calls that change who holds what.                   *)
(***************************************************************************)
LEMMA InitInv == Init => HandlesInv
<1> SUFFICES ASSUME Init PROVE HandlesInv
  OBVIOUS
<1>1. /\ connections = Gone /\ conn = [c \in Conns |-> NoConnection]
      /\ stmt = [s \in Stmts |-> NoStatement] /\ desc = {}
      /\ client = [session |-> [c \in Conns |-> "none"], statements |-> {}, misused |-> FALSE]
      /\ dm = [c \in Conns |-> "free"] /\ pc = Idle
  BY DEF Init
<1>2. NoConnection \in Connections /\ NoStatement \in Statements
  BY DEF NoConnection, Connections, NoStatement, Statements
<1>3. TypeOK
  BY <1>1, <1>2 DEF TypeOK
<1>4. \A s \in Stmts : stmt[s].connection \notin Conns /\ ~stmt[s].statement /\ ~Exists(s)
  BY <1>1, NamesAssumption DEF NoStatement, Exists
<1>5. \A c \in Conns : Attached(c) = {} /\ DescsOf(c) = {}
  BY <1>1, <1>4 DEF Attached, DescsOf
<1>6. Registered = {} /\ HalfDeleted = {}
  BY <1>1, AtRest DEF Registered, NoConnection
<1>7. AttachedInv /\ DescriptorsInv
  BY <1>1, <1>5, <1>6, HoldsNothing DEF AttachedInv, DescriptorsInv, NoConnection
<1>8. DescInv
  BY <1>1, <1>4 DEF DescInv
<1>9. HandleInv
  BY <1>1, <1>5 DEF HandleInv, NoConnection
<1>10. ClientInv
  BY <1>1, <1>4, <1>5 DEF ClientInv
<1> QED
  BY <1>1, <1>3, <1>6, <1>7, <1>8, <1>9, <1>10, AtRest DEF HandlesInv, RegisteredInv

LEMMA EnvInv ==
  ASSUME HandlesInv, AllocEnv \/ FreeEnv
  PROVE  HandlesInv'
<1> USE DEF HandlesInv
<1>1. pc = Idle /\ pc' = Idle /\ UNCHANGED <<conn, stmt, desc, client, dm>>
  BY DEF AllocEnv, FreeEnv
<1>2. RegisteredInv'
  <2>1. Registered = {}
    <3>1. CASE AllocEnv
      BY <3>1 DEF AllocEnv, RegisteredInv
    <3>2. CASE FreeEnv
      BY <3>2 DEF FreeEnv, HandleInv, NoConnection, Registered
    <3> QED
      BY <3>1, <3>2
  <2>2. Registered' = {}
    BY <1>1, <2>1 DEF Registered
  <2>3. connections' \in {Gone, << >>} /\ Gone # << >>
    BY DEF AllocEnv, FreeEnv, Gone
  <2> QED
    BY <2>2, <2>3, HoldsNothing DEF RegisteredInv
<1>3. TypeOK'
  <2>1. connections' = << >> \/ connections' = Gone
    BY DEF AllocEnv, FreeEnv
  <2>2. << >> \in Seq(Conns)
    OBVIOUS
  <2> QED
    BY <1>1, <2>1, <2>2, TypeNamed, TypeAfter
<1>4. AttachedInv' /\ DescriptorsInv' /\ DescInv' /\ ClientInv'
  BY <1>1, AtRest, ListsSame, DescriptorsSame, DescSame, ClientSame
<1>5. HandleInv'
  BY <1>1, AttachedSame DEF HandleInv
<1> QED
  BY <1>1, <1>2, <1>3, <1>4, <1>5, AtRest

\* The members of a connection that has its type.
LEMMA ConnectionType ==
  ASSUME NEW h \in Connections
  PROVE  /\ h.exists \in BOOLEAN /\ h.env \in BOOLEAN /\ h.connection \in BOOLEAN
         /\ h.transactionPending \in BOOLEAN
         /\ h.statements \in Seq(Stmts) /\ h.descriptors \in Seq(Stmts \X Kinds)
BY DEF Connections

LEMMA AllocConnectionInv ==
  ASSUME HandlesInv, NEW c \in Conns, AllocConnection(c)
  PROVE  HandlesInv'
<1> USE DEF HandlesInv
<1> DEFINE new == [NoConnection EXCEPT !.exists = TRUE, !.env = TRUE]
<1>1. /\ pc = Idle /\ pc' = Idle /\ UNCHANGED <<stmt, desc, client>>
      /\ conn' = [conn EXCEPT ![c] = new] /\ dm' = [dm EXCEPT ![c] = "allocated"]
      /\ connections # Gone /\ connections' = <<c>> \o connections
      /\ dm[c] = "free" /\ conn[c] = NoConnection
  BY DEF AllocConnection, HandleInv
<1>2. /\ new \in Connections /\ new.env = TRUE /\ new.connection = FALSE
      /\ new.statements = NoConnection.statements
      /\ new.descriptors = NoConnection.descriptors
      /\ NoConnection.env = FALSE /\ NoConnection.connection = FALSE
  <2>1. NoConnection \in Connections
    BY DEF NoConnection, Connections
  <2>2. NoConnection.env = FALSE /\ NoConnection.connection = FALSE
    BY DEF NoConnection
  <2>3. /\ new \in Connections /\ new.env = TRUE
        /\ new.connection = NoConnection.connection
        /\ new.statements = NoConnection.statements
        /\ new.descriptors = NoConnection.descriptors
    BY <2>1 DEF Connections
  <2> QED
    BY <2>2, <2>3
<1>3. conn \in [Conns -> Connections] /\ dm \in [Conns -> Phases]
  BY TypeNamed
<1> HIDE DEF new
<1>4. /\ conn' \in [Conns -> Connections] /\ conn'[c] = new /\ dm'[c] = "allocated"
      /\ dm' \in [Conns -> Phases]
      /\ \A d \in Conns : d # c => conn'[d] = conn[d] /\ dm'[d] = dm[d]
  BY <1>1, <1>2, <1>3 DEF Phases
<1>5. RegisteredInv' /\ connections' \in Seq(Conns)
  <2>1. c \notin Registered /\ Registered' = {c} \cup Registered
    BY <1>1, <1>2, <1>4 DEF Registered
  <2>2. Holds(connections', Registered')
    BY <1>1, <2>1, HoldsPrepend DEF RegisteredInv
  <2>3. connections' \in Seq(Conns)
    BY <2>2 DEF Holds, Registered
  <2>4. connections' # Gone
    BY <2>3, NamesAssumption
  <2> QED
    BY <2>2, <2>3, <2>4 DEF RegisteredInv
<1>6. TypeOK'
  BY <1>1, <1>4, <1>5, TypeNamed, TypeAfter
<1>7. /\ \A d \in Conns : /\ conn'[d].statements = conn[d].statements
                          /\ conn'[d].descriptors = conn[d].descriptors
      /\ \A d \in Conns : dm[d] = "connected" <=> dm'[d] = "connected"
  BY <1>1, <1>2, <1>4
<1>8. AttachedInv' /\ DescriptorsInv' /\ DescInv' /\ ClientInv'
  BY <1>1, <1>7, AtRest, ListsSame, DescriptorsSame, DescSame, ClientSame
<1>9. HandleInv'
  <2>1. \A d : Attached(d)' = Attached(d)
    BY <1>1, AttachedSame
  <2> QED
    BY <1>1, <1>2, <1>4, <2>1 DEF HandleInv
<1> QED
  BY <1>1, <1>5, <1>6, <1>8, <1>9, AtRest

LEMMA ConnectInv ==
  ASSUME HandlesInv, NEW c \in Conns, Connect(c)
  PROVE  HandlesInv'
<1> USE DEF HandlesInv
<1>1. /\ pc = Idle /\ pc' = Idle /\ UNCHANGED <<connections, stmt, desc>>
      /\ conn' = [conn EXCEPT ![c].connection = TRUE]
      /\ dm' = [dm EXCEPT ![c] = "connected"]
      /\ client' = [client EXCEPT !.session[c] = "open"]
      /\ dm[c] = "allocated"
  BY DEF Connect
<1>2. conn \in [Conns -> Connections] /\ dm \in [Conns -> Phases] /\ client \in Clients
  BY TypeNamed
<1>3. /\ conn' \in [Conns -> Connections] /\ conn'[c].connection = TRUE
      /\ dm' \in [Conns -> Phases] /\ dm'[c] = "connected"
      /\ \A d \in Conns : d # c => conn'[d] = conn[d] /\ dm'[d] = dm[d]
  BY <1>1, <1>2 DEF Phases, Connections
<1>4. /\ \A d \in Conns : /\ conn'[d].statements = conn[d].statements
                          /\ conn'[d].descriptors = conn[d].descriptors
                          /\ conn'[d].env = conn[d].env
  BY <1>1, <1>2 DEF Connections
<1>5. /\ client' \in Clients /\ client'.session[c] = "open"
      /\ client'.misused = client.misused /\ client'.statements = client.statements
      /\ \A d \in Conns : d # c => client'.session[d] = client.session[d]
  BY <1>1, <1>2 DEF Clients
<1>6. TypeOK'
  BY <1>1, <1>3, <1>5, TypeNamed, TypeAfter
<1>7. RegisteredInv' /\ AttachedInv' /\ DescriptorsInv' /\ DescInv'
  BY <1>1, <1>4, AtRest, RegisteredSame, ListsSame, DescriptorsSame, DescSame
<1>8. \A d : Attached(d)' = Attached(d)
  BY <1>1, AttachedSame
<1>9. HandleInv'
  BY <1>1, <1>3, <1>8 DEF HandleInv
<1>10. ClientInv'
  BY <1>1, <1>3, <1>5, <1>8 DEF ClientInv
<1> QED
  BY <1>1, <1>6, <1>7, <1>9, <1>10, AtRest

\* Whether a transaction is pending is all that SQLExecute and SQLEndTran change.
LEMMA PendingInv ==
  ASSUME HandlesInv, NEW c \in Conns,
         SQLEndTran(c) \/ \E s \in Stmts : SQLExecute(s, c)
  PROVE  HandlesInv'
<1> USE DEF HandlesInv
<1>1. PICK pending \in BOOLEAN : conn' = [conn EXCEPT ![c].transactionPending = pending]
  BY DEF SQLEndTran, SQLExecute
<1>2. pc = Idle /\ pc' = Idle /\ UNCHANGED <<connections, stmt, desc, client, dm>>
  BY DEF SQLEndTran, SQLExecute
<1>3. conn \in [Conns -> Connections] /\ dm[c] = "connected"
  BY TypeNamed DEF SQLEndTran, SQLExecute
<1>4. /\ conn' \in [Conns -> Connections]
      /\ \A d \in Conns : /\ conn'[d].statements = conn[d].statements
                          /\ conn'[d].descriptors = conn[d].descriptors
                          /\ conn'[d].env = conn[d].env
                          /\ conn'[d].connection = conn[d].connection
                          /\ d # c => conn'[d] = conn[d]
  BY <1>1, <1>3 DEF Connections
<1>5. TypeOK'
  BY <1>2, <1>4, TypeNamed, TypeAfter
<1>6. RegisteredInv' /\ AttachedInv' /\ DescriptorsInv' /\ DescInv' /\ ClientInv'
  BY <1>2, <1>4, AtRest, RegisteredSame, ListsSame, DescriptorsSame, DescSame, ClientSame
<1>7. HandleInv'
  <2>1. \A d : Attached(d)' = Attached(d)
    BY <1>2, AttachedSame
  <2> QED
    BY <1>2, <1>3, <1>4, <2>1 DEF HandleInv
<1> QED
  BY <1>2, <1>5, <1>6, <1>7, AtRest

LEMMA StatementType ==
  ASSUME NEW b \in Statements
  PROVE  /\ b.connection \in Conns \cup {NoConn} /\ b.statement \in BOOLEAN
         /\ b.records \in Seq(Slots)
         /\ \A p \in BOOLEAN : /\ [b EXCEPT !.statement = p] \in Statements
                               /\ [b EXCEPT !.statement = p].connection = b.connection
                               /\ [b EXCEPT !.statement = p].statement = p
BY DEF Statements

\* What changes of a statement that stays with its connection is no matter for the lists.
LEMMA StatementChanged ==
  ASSUME HandlesInv, pc = Idle, pc' = Idle, UNCHANGED <<connections, conn, desc, dm>>,
         NEW s \in Stmts, NEW b \in Statements, b.connection = stmt[s].connection,
         stmt' = [stmt EXCEPT ![s] = b],
         client' \in Clients, ClientInv'
  PROVE  HandlesInv'
<1> USE DEF HandlesInv
<1>1. stmt \in [Stmts -> Statements]
  BY TypeNamed
<1>2. /\ stmt' \in [Stmts -> Statements]
      /\ \A t \in Stmts : stmt'[t].connection = stmt[t].connection
  BY <1>1
<1>3. TypeOK'
  BY <1>2, TypeNamed, TypeAfter
<1>4. RegisteredInv' /\ AttachedInv' /\ DescriptorsInv' /\ DescInv'
  BY <1>2, AtRest, RegisteredSame, ListsSame, DescriptorsSame, DescSame
<1>5. HandleInv'
  BY <1>2, AttachedSame DEF HandleInv
<1> QED
  BY <1>3, <1>4, <1>5, AtRest

\* The statement the library has is closed, and no other.
LEMMA StatementClosedRight ==
  ASSUME HandlesInv, NEW s \in Stmts, NEW c \in Conns,
         stmt[s].connection = c, stmt[s].statement
  PROVE  /\ StatementClosed(s, c) = [client EXCEPT !.statements = @ \ {<<s, c>>}]
         /\ <<s, c>> \in client.statements
         /\ client.session[c] \in {"open", "abandoned"}
         /\ StatementClosed(s, c) \in Clients
         /\ StatementClosed(s, c).session = client.session
         /\ StatementClosed(s, c).misused = client.misused
         /\ StatementClosed(s, c).statements = client.statements \ {<<s, c>>}
<1> USE DEF HandlesInv
<1>1. <<s, c>> \in client.statements
  BY DEF ClientInv
<1>2. client.session[c] \in {"open", "abandoned"}
  BY DEF ClientInv, Attached
<1>3. StatementClosed(s, c) = [client EXCEPT !.statements = @ \ {<<s, c>>}]
  BY <1>1, <1>2 DEF StatementClosed
<1>4. client \in Clients
  BY TypeNamed
<1>5. /\ StatementClosed(s, c) \in Clients
      /\ StatementClosed(s, c).session = client.session
      /\ StatementClosed(s, c).misused = client.misused
      /\ StatementClosed(s, c).statements = client.statements \ {<<s, c>>}
  <2> DEFINE rest == client.statements \ {<<s, c>>}
  <2>1. rest \in SUBSET (Stmts \X Conns)
    BY <1>4 DEF Clients
  <2>2. StatementClosed(s, c) = [client EXCEPT !.statements = rest]
    BY <1>3
  <2> HIDE DEF rest
  <2>3. /\ StatementClosed(s, c) \in Clients
        /\ StatementClosed(s, c).session = client.session
        /\ StatementClosed(s, c).misused = client.misused
        /\ StatementClosed(s, c).statements = rest
    BY <1>4, <2>1, <2>2 DEF Clients
  <2> QED
    BY <2>3 DEF rest
<1> QED
  BY <1>1, <1>2, <1>3, <1>5

\* The objects of the library, when those of one statement have changed.
LEMMA ClientAfter ==
  ASSUME ClientInv, NEW s \in Stmts, NEW c \in Conns, stmt[s].connection = c,
         \A t \in Stmts : stmt'[t].connection = stmt[t].connection,
         \A t \in Stmts : t # s => stmt'[t].statement = stmt[t].statement,
         client'.session = client.session, client'.misused = client.misused,
         client'.statements = IF stmt'[s].statement THEN client.statements \cup {<<s, c>>}
                              ELSE client.statements \ {<<s, c>>},
         dm' = dm
  PROVE  ClientInv'
<1>1. \A d : Attached(d)' = Attached(d)
  BY AttachedSame
<1>2. client'.statements =
        {p \in Stmts \X Conns : stmt'[p[1]].connection = p[2] /\ stmt'[p[1]].statement}
  <2> DEFINE now == {p \in Stmts \X Conns : stmt'[p[1]].connection = p[2]
                                             /\ stmt'[p[1]].statement}
  <2>1. ASSUME NEW p \in now
        PROVE  p \in client'.statements
    <3>1. CASE p[1] = s
      BY <3>1
    <3>2. CASE p[1] # s
      BY <3>2 DEF ClientInv
    <3> QED
      BY <3>1, <3>2
  <2>2. ASSUME NEW p \in client'.statements
        PROVE  p \in now
    <3>1. CASE p = <<s, c>>
      BY <2>2, <3>1
    <3>2. CASE p # <<s, c>>
      <4>1. p \in client.statements
        BY <2>2, <3>2
      <4>2. /\ p \in Stmts \X Conns /\ p[1] \in Stmts
            /\ stmt[p[1]].connection = p[2] /\ stmt[p[1]].statement
        BY <4>1 DEF ClientInv
      <4>3. p[1] # s
        BY <3>2, <4>2
      <4> QED
        BY <4>2, <4>3
    <3> QED
      BY <3>1, <3>2
  <2> QED
    BY <2>1, <2>2
<1> QED
  BY <1>1, <1>2 DEF ClientInv

LEMMA PrepareInv ==
  ASSUME HandlesInv, NEW s \in Stmts, NEW c \in Conns, SQLPrepare(s, c)
  PROVE  HandlesInv'
<1> DEFINE closed == IF stmt[s].statement THEN StatementClosed(s, c) ELSE client
<1>1. /\ pc = Idle /\ pc' = Idle /\ UNCHANGED <<connections, conn, desc, dm>>
      /\ stmt[s].connection = c
      /\ \/ /\ client' = [closed EXCEPT !.statements = @ \cup {<<s, c>>}]
            /\ stmt' = [stmt EXCEPT ![s].statement = TRUE]
         \/ /\ client' = closed
            /\ stmt' = [stmt EXCEPT ![s].statement = FALSE]
  BY DEF SQLPrepare
<1>2. PICK p \in BOOLEAN :
        /\ stmt' = [stmt EXCEPT ![s].statement = p]
        /\ client' = IF p THEN [closed EXCEPT !.statements = @ \cup {<<s, c>>}] ELSE closed
  BY <1>1
<1>3. stmt \in [Stmts -> Statements] /\ client \in Clients /\ ClientInv
  BY TypeNamed DEF HandlesInv
<1>4. /\ closed \in Clients /\ closed.session = client.session
      /\ closed.misused = client.misused
      /\ closed.statements = client.statements \ {<<s, c>>}
  <2>1. CASE stmt[s].statement
    BY <1>1, <2>1, StatementClosedRight
  <2>2. CASE ~stmt[s].statement
    <3>1. <<s, c>> \notin client.statements
      BY <1>3, <2>2 DEF ClientInv
    <3> QED
      BY <1>3, <2>2, <3>1
  <2> QED
    BY <2>1, <2>2
<1> HIDE DEF closed
<1>5. /\ client' \in Clients /\ client'.session = client.session
      /\ client'.misused = client.misused
      /\ client'.statements = IF p THEN client.statements \cup {<<s, c>>}
                              ELSE client.statements \ {<<s, c>>}
  <2> DEFINE more == closed.statements \cup {<<s, c>>}
  <2>1. more \in SUBSET (Stmts \X Conns)
    BY <1>4 DEF Clients
  <2>2. more = client.statements \cup {<<s, c>>}
    BY <1>4
  <2>3. client' = IF p THEN [closed EXCEPT !.statements = more] ELSE closed
    BY <1>2
  <2> HIDE DEF more
  <2>4. CASE p
    <3>1. /\ client' \in Clients /\ client'.session = closed.session
          /\ client'.misused = closed.misused /\ client'.statements = more
      BY <1>4, <2>1, <2>3, <2>4 DEF Clients
    <3> QED
      BY <1>4, <2>2, <2>4, <3>1
  <2>5. CASE ~p
    BY <1>4, <2>3, <2>5
  <2> QED
    BY <2>4, <2>5
<1> DEFINE b == [stmt[s] EXCEPT !.statement = p]
<1>6. b \in Statements /\ b.connection = stmt[s].connection /\ b.statement = p
  BY <1>3, StatementType
<1>7. stmt' = [stmt EXCEPT ![s] = b]
  BY <1>2
<1> HIDE DEF b
<1>8. /\ stmt'[s].statement = p
      /\ \A t \in Stmts : /\ stmt'[t].connection = stmt[t].connection
                          /\ t # s => stmt'[t].statement = stmt[t].statement
  BY <1>3, <1>6, <1>7
<1>9. ClientInv'
  BY <1>1, <1>3, <1>5, <1>8, ClientAfter
<1> QED
  BY <1>1, <1>5, <1>6, <1>7, <1>9, StatementChanged

LEMMA SetDescFieldInv ==
  ASSUME HandlesInv, NEW s \in Stmts, NEW n \in 1 .. MaxRecord, SQLSetDescField(s, n)
  PROVE  HandlesInv'
<1>1. /\ pc = Idle /\ pc' = Idle /\ UNCHANGED <<connections, conn, desc, dm, client>>
  BY DEF SQLSetDescField
<1>2. PICK fresh \in Fresh : stmt' = [stmt EXCEPT ![s].records = getDescRecord(@, n, fresh)]
  BY DEF SQLSetDescField
<1>3. stmt \in [Stmts -> Statements] /\ client \in Clients /\ ClientInv
  BY TypeNamed DEF HandlesInv
<1> DEFINE old == stmt[s].records
           new == getDescRecord(old, n, fresh)
<1>4. new \in Seq(Slots)
  <2>1. old \in Seq(Slots) /\ fresh \in Slots /\ n \in Nat /\ Slack \in Nat \ {0}
    BY <1>3, StatementType, FreshAssumption, BoundsAssumption DEF Slots
  <2> DEFINE more == [k \in 1 .. n + Slack - Len(old) |-> fresh]
             g == grown(old, n, fresh)
  <2>2. g \in Seq(Slots) /\ n + 1 \in 1 .. Len(g)
    <3> HIDE DEF old
    <3>1. CASE n < Len(old)
      BY <2>1, <3>1 DEF grown
    <3>2. CASE ~(n < Len(old))
      <4>1. n + Slack - Len(old) \in Nat /\ Len(old) \in Nat
        BY <2>1, <3>2
      <4>2. more \in Seq(Slots) /\ Len(more) = n + Slack - Len(old)
        BY <2>1, <4>1
      <4>3. g = old \o more
        BY <3>2 DEF grown
      <4> HIDE DEF more, g
      <4>4. g \in Seq(Slots) /\ Len(g) = Len(old) + Len(more)
        BY <2>1, <4>2, <4>3, ConcatProperties
      <4> QED
        BY <2>1, <4>1, <4>2, <4>4
    <3> QED
      BY <3>1, <3>2
  <2>3. new = [g EXCEPT ![n + 1] = IF g[n + 1] = "null" THEN "record" ELSE g[n + 1]]
    BY DEF getDescRecord
  <2> HIDE DEF g, new
  <2> QED
    BY <2>2, <2>3 DEF Slots
<1> DEFINE b == [stmt[s] EXCEPT !.records = new]
<1>5. stmt' = [stmt EXCEPT ![s] = b]
  BY <1>2
<1>6. b \in Statements /\ b.connection = stmt[s].connection
      /\ b.statement = stmt[s].statement
  <2> HIDE DEF new
  <2> QED
    BY <1>3, <1>4 DEF Statements
<1> HIDE DEF b
<1>7. \A t \in Stmts : /\ stmt'[t].connection = stmt[t].connection
                       /\ stmt'[t].statement = stmt[t].statement
  BY <1>3, <1>5, <1>6
<1>8. ClientInv'
  BY <1>1, <1>3, <1>7, ClientSame
<1> QED
  BY <1>1, <1>3, <1>5, <1>6, <1>8, StatementChanged

\* A statement that there was not: its connection has it, and its four descriptors, at the
\* head of the lists.
LEMMA AllocStatementInv ==
  ASSUME HandlesInv, NEW s \in Stmts, NEW c \in Conns, AllocStatement(s, c)
  PROVE  HandlesInv'
<1> USE DEF HandlesInv
<1> DEFINE list == conn[c].descriptors
           four == <<<<s, 4>>, <<s, 3>>, <<s, 2>>, <<s, 1>>>>
           b == [NoStatement EXCEPT !.connection = c]
<1>1. /\ pc = Idle /\ pc' = Idle /\ UNCHANGED <<connections, client, dm>>
      /\ dm[c] = "connected" /\ ~Exists(s)
      /\ stmt' = [stmt EXCEPT ![s] = b]
      /\ desc' = desc \cup DescOf(s)
      /\ conn' = [conn EXCEPT ![c].statements = <<s>> \o @, ![c].descriptors = four \o @]
  BY DEF AllocStatement
<1>2. /\ conn \in [Conns -> Connections] /\ stmt \in [Stmts -> Statements]
      /\ desc \subseteq Stmts \X Kinds /\ Kinds = {1, 2, 3, 4}
      /\ conn[c].statements \in Seq(Stmts) /\ list \in Seq(Stmts \X Kinds)
  BY TypeNamed, ConnectionType DEF Kinds
<1>3. b \in Statements /\ b.connection = c /\ b.statement = FALSE
  <2>1. NoStatement \in Statements /\ NoStatement.statement = FALSE
    BY DEF NoStatement, Statements
  <2> QED
    BY <2>1 DEF Statements
<1> HIDE DEF b
<1>4. /\ stmt' \in [Stmts -> Statements] /\ stmt'[s].connection = c
      /\ stmt'[s].statement = FALSE
      /\ \A t \in Stmts : t # s => stmt'[t] = stmt[t]
      /\ stmt[s].connection = NoConn
  BY <1>1, <1>2, <1>3 DEF Exists
<1>5. /\ s \notin Attached(c) /\ Attached(c)' = {s} \cup Attached(c)
      /\ \A d \in Conns : d # c => Attached(d)' = Attached(d)
  BY <1>4, NamesAssumption DEF Attached
<1>6. \A k \in Kinds : <<s, k>> \notin desc
  BY <1>1 DEF DescInv
<1>7. /\ DescOf(s) = {<<s, 4>>, <<s, 3>>, <<s, 2>>, <<s, 1>>}
      /\ DescOf(s) \subseteq Stmts \X Kinds
  BY <1>2 DEF DescOf
<1>8. ASSUME NEW d \in desc
      PROVE  d[1] \in Stmts /\ d[1] # s
  BY <1>2, <1>6
<1>9. /\ DescsOf(c)' = DescOf(s) \cup DescsOf(c)
      /\ \A d \in Conns : d # c => DescsOf(d)' = DescsOf(d)
  <2>1. \A d \in DescOf(s) : d[1] = s
    BY DEF DescOf
  <2>2. \A d \in desc : stmt'[d[1]].connection = stmt[d[1]].connection
    BY <1>4, <1>8
  <2> QED
    BY <1>1, <1>4, <2>1, <2>2 DEF DescsOf
<1>10. Holds(<<s>> \o conn[c].statements, Attached(c)')
  <2>1. Holds(conn[c].statements, Attached(c))
    BY <1>1, AtRest DEF AttachedInv
  <2> QED
    BY <1>5, <2>1, HoldsPrepend
<1>11. Holds(four \o list, DescsOf(c)') /\ four \o list \in Seq(Stmts \X Kinds)
  <2>1. Holds(list, DescsOf(c))
    BY DEF DescriptorsInv
  <2>2. \A k \in Kinds : <<s, k>> \notin DescsOf(c)
    BY <1>6 DEF DescsOf
  <2>3. Holds(four \o list, DescOf(s) \cup DescsOf(c))
    <3> DEFINE d(k) == <<s, k>>
    <3>1. /\ d(4) \notin DescsOf(c) /\ d(3) \notin DescsOf(c)
          /\ d(2) \notin DescsOf(c) /\ d(1) \notin DescsOf(c)
      BY <1>2, <2>2
    <3>2. /\ d(4) # d(3) /\ d(4) # d(2) /\ d(4) # d(1)
          /\ d(3) # d(2) /\ d(3) # d(1) /\ d(2) # d(1)
      OBVIOUS
    <3>3. four = <<d(4), d(3), d(2), d(1)>> /\ DescOf(s) = {d(4), d(3), d(2), d(1)}
      BY <1>7
    <3> HIDE DEF four, list, d
    <3>4. Holds(<<d(4), d(3), d(2), d(1)>> \o list,
                {d(4), d(3), d(2), d(1)} \cup DescsOf(c))
      BY <2>1, <3>1, <3>2, HoldsPrependFour
    <3> QED
      BY <3>3, <3>4
  <2> HIDE DEF four, list
  <2>4. Holds(four \o list, DescsOf(c)')
    BY <1>9, <2>3
  <2>5. DescsOf(c)' \subseteq Stmts \X Kinds
    BY <1>1, <1>2, <1>7 DEF DescsOf
  <2>6. \A l : Holds(l, DescsOf(c)') => l \in Seq(Stmts \X Kinds)
    BY <2>5 DEF Holds
  <2> QED
    BY <2>4, <2>6
<1> DEFINE statements == <<s>> \o conn[c].statements
           descriptors == four \o list
<1>12. statements \in Seq(Stmts)
  BY <1>10 DEF Holds, Attached
<1>13. conn' = [conn EXCEPT ![c] = [conn[c] EXCEPT !.statements = statements,
                                                    !.descriptors = descriptors]]
  BY <1>1
<1> HIDE DEF statements, descriptors, list, four
<1>14. /\ conn' \in [Conns -> Connections]
       /\ conn'[c].statements = statements /\ conn'[c].descriptors = descriptors
       /\ conn'[c].env = conn[c].env /\ conn'[c].connection = conn[c].connection
       /\ \A d \in Conns : d # c => conn'[d] = conn[d]
  BY <1>2, <1>11, <1>12, <1>13 DEF Connections, descriptors
<1>15. TypeOK'
  BY <1>1, <1>2, <1>4, <1>7, <1>14, TypeNamed, TypeAfter
<1>16. RegisteredInv'
  BY <1>1, <1>14, RegisteredSame
<1>17. AttachedInv'
  <2>1. HalfDeleted = {} /\ HalfDeleted' = {}
    BY <1>1, AtRest
  <2> QED
    BY <1>5, <1>10, <1>14, <2>1 DEF AttachedInv, statements
<1>18. DescriptorsInv'
  BY <1>9, <1>11, <1>14 DEF DescriptorsInv, descriptors
<1>19. DescInv'
  <2>1. \A step : step # "none" => ~At(step) /\ ~At(step)'
    BY <1>1, AtRest
  <2>2. ASSUME NEW t \in Stmts, NEW k \in Kinds
        PROVE  <<t, k>> \in desc' <=> Exists(t)'
    <3>1. CASE t = s
      <4>1. Exists(s)'
        BY <1>4, NamesAssumption DEF Exists
      <4>2. <<s, k>> \in DescOf(s)
        BY DEF DescOf
      <4> QED
        BY <1>1, <3>1, <4>1, <4>2
    <3>2. CASE t # s
      <4>1. Exists(t)' <=> Exists(t)
        BY <1>4, <3>2 DEF Exists
      <4>2. <<t, k>> \notin DescOf(s)
        BY <3>2 DEF DescOf
      <4>3. <<t, k>> \in desc <=> Exists(t)
        BY <2>1 DEF DescInv
      <4> QED
        BY <1>1, <4>1, <4>2, <4>3
    <3> QED
      BY <3>1, <3>2
  <2> QED
    BY <2>1, <2>2 DEF DescInv
<1>20. HandleInv'
  BY <1>1, <1>5, <1>14 DEF HandleInv
<1>21. ClientInv'
  <2>1. {p \in Stmts \X Conns : stmt[p[1]].connection = p[2] /\ stmt[p[1]].statement}
          = {p \in Stmts \X Conns : stmt'[p[1]].connection = p[2] /\ stmt'[p[1]].statement}
    BY <1>4, NamesAssumption
  <2>2. client.session[c] = "open"
    BY <1>1 DEF ClientInv
  <2> QED
    BY <1>1, <1>5, <2>1, <2>2 DEF ClientInv
<1> QED
  BY <1>1, <1>15, <1>16, <1>17, <1>18, <1>19, <1>20, <1>21, AtRest

-----------------------------------------------------------------------------
(***************************************************************************)
(* Deleting: where a call is.                                              *)
(***************************************************************************)
Steps == {"close", "statements", "~OdbcStatement", "releaseStatement", "~OdbcDesc",
          "descriptors", "connection"}

LEMMA DeletingType ==
  ASSUME NEW call \in {"SQLFreeStmt", "SQLDisconnect", "SQLFreeConnect"}, NEW c \in Conns,
         NEW s \in Stmts \cup {NoStmt}, NEW step \in Steps
  PROVE  /\ Deleting(call, c, s, step) \in Deletions
         /\ Deleting(call, c, s, step) # Idle
         /\ Deleting(call, c, s, step).call = call /\ Deleting(call, c, s, step).conn = c
         /\ Deleting(call, c, s, step).stmt = s /\ Deleting(call, c, s, step).step = step
         /\ Deleting(call, c, s, step).left = 4
<1> DEFINE d == Deleting(call, c, s, step)
<1>1. d = [call |-> call, conn |-> c, stmt |-> s, step |-> step, left |-> 4]
  BY DEF Deleting
<1>2. 4 \in Kinds
  BY DEF Kinds
<1> HIDE DEF d
<1>3. /\ d \in Deletions /\ d.call = call /\ d.conn = c /\ d.stmt = s /\ d.step = step
      /\ d.left = 4
  BY <1>1, <1>2 DEF Deletions, Steps
<1>4. d.step # Idle.step
  BY <1>3 DEF Idle, Steps
<1> QED
  BY <1>3, <1>4 DEF d

LEMMA UnderWay ==
  ASSUME HandlesInv, NEW step \in Steps, At(step)
  PROVE  /\ pc # Idle /\ pc \in Deletions /\ pc.step = step
         /\ pc.conn \in Conns /\ pc.stmt \in Stmts \cup {NoStmt} /\ pc.left \in Kinds
         /\ pc.call \in {"SQLFreeStmt", "SQLDisconnect", "SQLFreeConnect"}
         /\ pc.call = "SQLFreeStmt" => step \in StatementSteps
         /\ dm[pc.conn] \in IF pc.call = "SQLFreeConnect" THEN {"allocated", "disconnected"}
                            ELSE {"connected"}
         /\ pc.call # "SQLFreeStmt" /\ step # "close" => ~conn[pc.conn].env
         /\ step \in StatementSteps => pc.stmt \in Attached(pc.conn)
         /\ step = "~OdbcDesc" => ~stmt[pc.stmt].statement
         /\ step # "~OdbcDesc" => pc.left = 4
         /\ step \in {"descriptors", "connection"} => Attached(pc.conn) = {}
<1>1. pc.step = step /\ pc # Idle
  BY DEF At, Idle, Steps
<1>2. pc \in Deletions
  BY <1>1, TypeNamed DEF HandlesInv
<1>3. /\ pc.conn \in Conns /\ pc.stmt \in Stmts \cup {NoStmt} /\ pc.left \in Kinds
      /\ pc.call \in {"SQLFreeStmt", "SQLDisconnect", "SQLFreeConnect"}
  BY <1>2 DEF Deletions
<1>4. PlaceInv
  BY DEF HandlesInv
<1> QED
  BY <1>1, <1>2, <1>3, <1>4 DEF PlaceInv

LEMMA GoToType ==
  ASSUME pc \in Deletions, NEW step \in Steps, GoTo(step)
  PROVE  /\ pc' \in Deletions /\ pc' # Idle /\ pc'.step = step
         /\ pc'.call = pc.call /\ pc'.conn = pc.conn /\ pc'.stmt = pc.stmt
         /\ pc'.left = pc.left
<1>1. pc' = [pc EXCEPT !.step = step]
  BY DEF GoTo
<1>2. /\ pc' \in Deletions /\ pc'.step = step
      /\ pc'.call = pc.call /\ pc'.conn = pc.conn /\ pc'.stmt = pc.stmt
      /\ pc'.left = pc.left
  BY <1>1 DEF Deletions, Steps
<1>3. pc'.step # Idle.step
  BY <1>2 DEF Idle, Steps
<1> QED
  BY <1>2, <1>3

\* A step that moves nothing but the place.
LEMMA MoveInv ==
  ASSUME HandlesInv, UNCHANGED <<connections, conn, stmt, desc, client, dm>>,
         pc' \in Deletions, HalfDeleted' = HalfDeleted,
         ~At("~OdbcDesc"), ~At("~OdbcDesc")', PlaceInv'
  PROVE  HandlesInv'
<1> USE DEF HandlesInv
<1>1. TypeOK'
  BY TypeNamed, TypeAfter
<1>2. /\ RegisteredInv' /\ AttachedInv' /\ DescriptorsInv' /\ DescInv' /\ ClientInv'
  BY RegisteredSame, ListsSame, DescriptorsSame, DescSame, ClientSame
<1>3. HandleInv'
  BY AttachedSame DEF HandleInv
<1> QED
  BY <1>1, <1>2, <1>3

\* A call that deletes begins.
LEMMA BeginInv ==
  ASSUME HandlesInv, pc = Idle,
         UNCHANGED <<connections, conn, stmt, desc, client, dm>>,
         \/ \E s \in Stmts : SQLFreeStmt(s)
         \/ \E c \in Conns : SQLDisconnect(c) \/ SQLFreeConnect(c),
         pc' # pc
  PROVE  HandlesInv'
<1>1. stmt \in [Stmts -> Statements] /\ dm \in [Conns -> Phases]
  BY TypeNamed DEF HandlesInv
<1>2. PICK call \in {"SQLFreeStmt", "SQLDisconnect", "SQLFreeConnect"}, c \in Conns,
           s \in Stmts \cup {NoStmt}, step \in {"~OdbcStatement", "close"} :
        /\ pc' = Deleting(call, c, s, step)
        /\ call = "SQLFreeStmt" => step = "~OdbcStatement"
        /\ step = "~OdbcStatement" => s \in Attached(c)
        /\ dm[c] \in IF call = "SQLFreeConnect" THEN {"allocated", "disconnected"}
                     ELSE {"connected"}
        /\ call # "SQLFreeStmt" => step = "close"
  <2>1. ASSUME NEW s \in Stmts, SQLFreeStmt(s)
        PROVE  /\ pc' = Deleting("SQLFreeStmt", stmt[s].connection, s, "~OdbcStatement")
               /\ stmt[s].connection \in Conns /\ s \in Attached(stmt[s].connection)
               /\ dm[stmt[s].connection] = "connected"
    BY <1>1, <2>1 DEF SQLFreeStmt, Exists, Statements, Attached
  <2>2. ASSUME NEW c \in Conns, SQLDisconnect(c)
        PROVE  pc' = Deleting("SQLDisconnect", c, NoStmt, "close") /\ dm[c] = "connected"
    BY <2>2 DEF SQLDisconnect
  <2>3. ASSUME NEW c \in Conns, SQLFreeConnect(c)
        PROVE  /\ pc' = Deleting("SQLFreeConnect", c, NoStmt, "close")
               /\ dm[c] \in {"allocated", "disconnected"}
    BY <2>3 DEF SQLFreeConnect
  <2> QED
    BY <2>1, <2>2, <2>3
<1>3. /\ pc' \in Deletions /\ pc' # Idle /\ pc'.call = call /\ pc'.conn = c
      /\ pc'.stmt = s /\ pc'.step = step /\ pc'.left = 4
  BY <1>2, DeletingType DEF Steps
<1>4. /\ HalfDeleted' = HalfDeleted /\ ~At("~OdbcDesc") /\ ~At("~OdbcDesc")'
  BY <1>2, <1>3, AtRest DEF At, HalfDeleted
<1>5. PlaceInv'
  <2>1. Attached(c)' = Attached(c)
    BY AttachedSame
  <2> QED
    BY <1>2, <1>3, <2>1 DEF PlaceInv, StatementSteps
<1> QED
  BY <1>3, <1>4, <1>5, MoveInv

\* A disconnect whose commit() throws leaves the session alone.
LEMMA AbandonInv ==
  ASSUME HandlesInv, NEW c \in Conns, pc = Idle, pc' = Idle, dm[c] = "connected",
         conn' = [conn EXCEPT ![c].connection = FALSE],
         client' = [client EXCEPT !.session[c] = "abandoned"],
         dm' = [dm EXCEPT ![c] = "disconnected"],
         UNCHANGED <<connections, stmt, desc>>
  PROVE  HandlesInv'
<1> USE DEF HandlesInv
<1>1. conn \in [Conns -> Connections] /\ dm \in [Conns -> Phases] /\ client \in Clients
  BY TypeNamed
<1>2. /\ conn' \in [Conns -> Connections] /\ conn'[c].connection = FALSE
      /\ dm' \in [Conns -> Phases] /\ dm'[c] = "disconnected"
      /\ \A d \in Conns : d # c => conn'[d] = conn[d] /\ dm'[d] = dm[d]
  BY <1>1 DEF Phases, Connections
<1>3. \A d \in Conns : /\ conn'[d].statements = conn[d].statements
                       /\ conn'[d].descriptors = conn[d].descriptors
                       /\ conn'[d].env = conn[d].env
  BY <1>1 DEF Connections
<1>4. /\ client' \in Clients /\ client'.session[c] = "abandoned"
      /\ client'.misused = client.misused /\ client'.statements = client.statements
      /\ \A d \in Conns : d # c => client'.session[d] = client.session[d]
  BY <1>1 DEF Clients
<1>5. TypeOK'
  BY <1>2, <1>4, TypeNamed, TypeAfter
<1>6. RegisteredInv' /\ AttachedInv' /\ DescriptorsInv' /\ DescInv'
  BY <1>3, AtRest, RegisteredSame, ListsSame, DescriptorsSame, DescSame
<1>7. \A d : Attached(d)' = Attached(d)
  BY AttachedSame
<1>8. HandleInv'
  BY <1>2, <1>7 DEF HandleInv
<1>9. ClientInv'
  BY <1>2, <1>4, <1>7 DEF ClientInv
<1> QED
  BY <1>5, <1>6, <1>8, <1>9, AtRest

LEMMA DisconnectInv ==
  ASSUME HandlesInv,
         \/ \E s \in Stmts : SQLFreeStmt(s)
         \/ \E c \in Conns : SQLDisconnect(c) \/ SQLFreeConnect(c)
  PROVE  HandlesInv'
<1>1. CASE \E s \in Stmts : SQLFreeStmt(s)
  <2>1. /\ pc = Idle /\ UNCHANGED <<connections, conn, stmt, desc, client, dm>>
    BY <1>1 DEF SQLFreeStmt
  <2>2. pc' # pc
    BY <1>1 DEF SQLFreeStmt, Deleting, Idle
  <2> QED
    BY <1>1, <2>1, <2>2, BeginInv
<1>2. ASSUME NEW c \in Conns, SQLFreeConnect(c)
      PROVE  HandlesInv'
  <2>1. /\ pc = Idle /\ UNCHANGED <<connections, conn, stmt, desc, client, dm>>
    BY <1>2 DEF SQLFreeConnect
  <2>2. pc' # pc
    BY <1>2 DEF SQLFreeConnect, Deleting, Idle
  <2> QED
    BY <1>2, <2>1, <2>2, BeginInv
<1>3. ASSUME NEW c \in Conns, SQLDisconnect(c)
      PROVE  HandlesInv'
  <2>1. pc = Idle /\ dm[c] = "connected" /\ UNCHANGED <<connections, stmt, desc>>
    BY <1>3 DEF SQLDisconnect
  <2>2. CASE /\ pc' = Deleting("SQLDisconnect", c, NoStmt, "close")
             /\ UNCHANGED <<conn, client, dm>>
    <3>1. pc' # pc
      BY <2>1, <2>2 DEF Deleting, Idle
    <3> QED
      BY <1>3, <2>1, <2>2, <3>1, BeginInv
  <2>3. CASE /\ conn' = [conn EXCEPT ![c].connection = FALSE]
             /\ client' = [client EXCEPT !.session[c] = "abandoned"]
             /\ dm' = [dm EXCEPT ![c] = "disconnected"]
             /\ pc' = pc
    BY <2>1, <2>3, AbandonInv
  <2> QED
    BY <1>3, <2>2, <2>3 DEF SQLDisconnect
<1> QED
  BY <1>1, <1>2, <1>3

-----------------------------------------------------------------------------
(***************************************************************************)
(* Deleting: step by step.                                                 *)
(***************************************************************************)
LEMMA LeaveEnvInv ==
  ASSUME HandlesInv, LeaveEnv
  PROVE  HandlesInv'
<1> USE DEF HandlesInv
<1> DEFINE c == pc.conn
<1>1. /\ At("close") /\ conn' = [conn EXCEPT ![c].env = FALSE]
      /\ connections' = IF conn[c].env THEN RemoveFirst(connections, c) ELSE connections
      /\ GoTo("statements") /\ UNCHANGED <<stmt, desc, client, dm>>
  BY DEF LeaveEnv
<1>2. /\ pc \in Deletions /\ c \in Conns /\ pc.step = "close" /\ pc.left = 4
      /\ pc.call # "SQLFreeStmt"
      /\ dm[c] \in IF pc.call = "SQLFreeConnect" THEN {"allocated", "disconnected"}
                   ELSE {"connected"}
  BY <1>1, UnderWay DEF Steps, StatementSteps
<1>3. /\ pc' \in Deletions /\ pc' # Idle /\ pc'.step = "statements"
      /\ pc'.call = pc.call /\ pc'.conn = c /\ pc'.left = 4
  BY <1>1, <1>2, GoToType DEF Steps
<1> HIDE DEF c
<1>4. conn \in [Conns -> Connections]
  BY TypeNamed
<1>5. /\ conn' \in [Conns -> Connections] /\ conn'[c].env = FALSE
      /\ \A d \in Conns : /\ conn'[d].statements = conn[d].statements
                          /\ conn'[d].descriptors = conn[d].descriptors
                          /\ conn'[d].connection = conn[d].connection
                          /\ d # c => conn'[d] = conn[d]
  BY <1>1, <1>2, <1>4 DEF Connections
<1>6. RegisteredInv' /\ connections' \in Seq(Conns) \cup {Gone}
  <2>1. Registered' = Registered \ {c}
    BY <1>2, <1>5 DEF Registered
  <2>2. CASE conn[c].env
    <3>1. c \in Registered
      BY <1>2, <2>2 DEF Registered
    <3>2. Holds(connections', Registered')
      BY <1>1, <2>1, <2>2, <3>1, HoldsRemove DEF RegisteredInv
    <3>3. connections' \in Seq(Conns)
      BY <3>2 DEF Holds, Registered
    <3>4. connections' # Gone
      BY <3>3, NamesAssumption
    <3> QED
      BY <3>2, <3>3, <3>4 DEF RegisteredInv
  <2>3. CASE ~conn[c].env
    <3>1. Registered' = Registered
      BY <2>1, <2>3 DEF Registered
    <3> QED
      BY <1>1, <2>3, <3>1, TypeNamed DEF RegisteredInv
  <2> QED
    BY <2>2, <2>3
<1>7. TypeOK'
  BY <1>1, <1>3, <1>5, <1>6, TypeNamed, TypeAfter
<1>8. HalfDeleted = {} /\ HalfDeleted' = {} /\ ~At("~OdbcDesc") /\ ~At("~OdbcDesc")'
  BY <1>2, <1>3 DEF HalfDeleted, At
<1>9. AttachedInv' /\ DescriptorsInv' /\ DescInv' /\ ClientInv'
  BY <1>1, <1>5, <1>8, ListsSame, DescriptorsSame, DescSame, ClientSame
<1>10. \A d : Attached(d)' = Attached(d)
  BY <1>1, AttachedSame
<1>11. HandleInv'
  <2>1. dm[c] # "free"
    BY <1>2
  <2> QED
    BY <1>1, <1>2, <1>5, <1>10, <2>1 DEF HandleInv
<1>12. PlaceInv'
  BY <1>1, <1>2, <1>3, <1>5, <1>10 DEF PlaceInv, StatementSteps
<1> QED
  BY <1>6, <1>7, <1>9, <1>11, <1>12

LEMMA NextStatementInv ==
  ASSUME HandlesInv, NextStatement
  PROVE  HandlesInv'
<1> DEFINE list == conn[pc.conn].statements
<1>1. /\ At("statements") /\ UNCHANGED <<connections, conn, stmt, desc, client, dm>>
      /\ IF list = << >> THEN GoTo("descriptors")
         ELSE pc' = Deleting(pc.call, pc.conn, Head(list), "~OdbcStatement")
  BY DEF NextStatement
<1>2. /\ pc \in Deletions /\ pc.conn \in Conns /\ pc.step = "statements" /\ pc.left = 4
      /\ pc.call \in {"SQLFreeStmt", "SQLDisconnect", "SQLFreeConnect"}
      /\ pc.call # "SQLFreeStmt" /\ ~conn[pc.conn].env
      /\ dm[pc.conn] \in IF pc.call = "SQLFreeConnect" THEN {"allocated", "disconnected"}
                         ELSE {"connected"}
  BY <1>1, UnderWay DEF Steps, StatementSteps
<1>3. HalfDeleted = {} /\ ~At("~OdbcDesc")
  BY <1>2 DEF HalfDeleted, At
<1>4. Holds(list, Attached(pc.conn))
  BY <1>2, <1>3 DEF HandlesInv, AttachedInv
<1>5. \A c : Attached(c)' = Attached(c)
  BY <1>1, AttachedSame
<1>6. CASE list = << >>
  <2>1. Attached(pc.conn) = {}
    BY <1>4, <1>6, HoldsEmpty
  <2>2. /\ pc' \in Deletions /\ pc' # Idle /\ pc'.step = "descriptors"
        /\ pc'.call = pc.call /\ pc'.conn = pc.conn /\ pc'.left = 4
    BY <1>1, <1>2, <1>6, GoToType DEF Steps
  <2>3. HalfDeleted' = {} /\ ~At("~OdbcDesc")'
    BY <2>2 DEF HalfDeleted, At
  <2>4. PlaceInv'
    BY <1>1, <1>2, <1>5, <2>1, <2>2 DEF PlaceInv, StatementSteps
  <2> QED
    BY <1>1, <1>3, <2>2, <2>3, <2>4, MoveInv
<1>7. CASE list # << >>
  <2>1. Head(list) \in Attached(pc.conn) /\ Head(list) \in Stmts
    BY <1>4, <1>7, HoldsHead DEF Attached
  <2> HIDE DEF list
  <2>2. pc' = Deleting(pc.call, pc.conn, Head(list), "~OdbcStatement")
    BY <1>1, <1>7
  <2>3. /\ pc' \in Deletions /\ pc' # Idle /\ pc'.step = "~OdbcStatement"
        /\ pc'.call = pc.call /\ pc'.conn = pc.conn /\ pc'.stmt = Head(list)
        /\ pc'.left = 4
    BY <1>2, <2>1, <2>2, DeletingType DEF Steps
  <2>4. HalfDeleted' = {} /\ ~At("~OdbcDesc")'
    BY <2>3 DEF HalfDeleted, At
  <2>5. PlaceInv'
    BY <1>1, <1>2, <1>5, <2>1, <2>3 DEF PlaceInv, StatementSteps
  <2> QED
    BY <1>1, <1>3, <2>3, <2>4, <2>5, MoveInv
<1> QED
  BY <1>6, <1>7

LEMMA StatementDeletedInv ==
  ASSUME HandlesInv, StatementDeleted
  PROVE  HandlesInv'
<1> USE DEF HandlesInv
<1> DEFINE c == pc.conn
           s == pc.stmt
           rest == RemoveFirst(conn[c].statements, s)
<1>1. /\ At("~OdbcStatement") /\ GoTo("releaseStatement")
      /\ conn' = [conn EXCEPT ![c] = [conn[c] EXCEPT !.statements = rest]]
      /\ UNCHANGED <<connections, stmt, desc, client, dm>>
  BY DEF StatementDeleted
<1>2. /\ pc \in Deletions /\ c \in Conns /\ pc.step = "~OdbcStatement" /\ pc.left = 4
      /\ dm[c] \in IF pc.call = "SQLFreeConnect" THEN {"allocated", "disconnected"}
                   ELSE {"connected"}
      /\ pc.call # "SQLFreeStmt" => ~conn[c].env
      /\ s \in Attached(c) /\ s \in Stmts
  BY <1>1, UnderWay DEF Steps, StatementSteps, Attached
<1>3. /\ pc' \in Deletions /\ pc' # Idle /\ pc'.step = "releaseStatement"
      /\ pc'.call = pc.call /\ pc'.conn = c /\ pc'.stmt = s /\ pc'.left = 4
  BY <1>1, <1>2, GoToType DEF Steps
<1>4. HalfDeleted = {} /\ HalfDeleted' = {s} /\ ~At("~OdbcDesc") /\ ~At("~OdbcDesc")'
  BY <1>2, <1>3 DEF HalfDeleted, At
<1>5. Holds(rest, Attached(c) \ {s}) /\ rest \in Seq(Stmts)
  <2>1. Holds(conn[c].statements, Attached(c))
    BY <1>2, <1>4 DEF AttachedInv
  <2>2. Holds(rest, Attached(c) \ {s})
    BY <1>2, <2>1, HoldsRemove
  <2> HIDE DEF rest
  <2> QED
    BY <2>2 DEF Holds, Attached
<1>6. conn \in [Conns -> Connections]
  BY TypeNamed
<1> HIDE DEF rest, c, s
<1>7. /\ conn' \in [Conns -> Connections] /\ conn'[c].statements = rest
      /\ \A d \in Conns : /\ d # c => conn'[d] = conn[d]
                          /\ conn'[d].descriptors = conn[d].descriptors
                          /\ conn'[d].connection = conn[d].connection
                          /\ conn'[d].env = conn[d].env
  BY <1>1, <1>2, <1>5, <1>6 DEF Connections
<1>8. TypeOK'
  BY <1>1, <1>3, <1>7, TypeNamed, TypeAfter
<1>9. RegisteredInv' /\ DescriptorsInv' /\ DescInv' /\ ClientInv'
  BY <1>1, <1>4, <1>7, RegisteredSame, DescriptorsSame, DescSame, ClientSame
<1>10. \A d : Attached(d)' = Attached(d)
  BY <1>1, AttachedSame
<1>11. AttachedInv'
  <2>1. ASSUME NEW d \in Conns, d # c
        PROVE  Attached(d) \ {s} = Attached(d) \ {}
    BY <1>2, <2>1 DEF Attached
  <2>2. ASSUME NEW d \in Conns, d # c
        PROVE  Holds(conn'[d].statements, Attached(d)' \ HalfDeleted')
    <3>1. Holds(conn[d].statements, Attached(d) \ {})
      BY <1>4 DEF AttachedInv
    <3>2. /\ conn'[d].statements = conn[d].statements
          /\ Attached(d)' \ HalfDeleted' = Attached(d) \ {}
      BY <1>4, <1>7, <1>10, <2>1, <2>2
    <3> QED
      BY <3>1, <3>2
  <2>3. ASSUME NEW d \in Conns
        PROVE  Holds(conn'[d].statements, Attached(d)' \ HalfDeleted')
    <3>1. CASE d = c
      <4>1. Attached(d)' = Attached(d) /\ Attached(d) = Attached(c)
        BY <1>10, <3>1
      <4> QED
        BY <1>4, <1>5, <1>7, <3>1, <4>1
    <3> QED
      BY <2>2, <3>1
  <2> QED
    BY <2>3 DEF AttachedInv
<1>12. HandleInv'
  <2>1. dm[c] # "free"
    BY <1>2
  <2> QED
    BY <1>1, <1>2, <1>7, <1>10, <2>1 DEF HandleInv
<1>13. PlaceInv'
  BY <1>1, <1>2, <1>3, <1>7, <1>10 DEF PlaceInv, StatementSteps
<1> QED
  BY <1>8, <1>9, <1>11, <1>12, <1>13

LEMMA ReleaseStatementInv ==
  ASSUME HandlesInv, ReleaseStatement
  PROVE  HandlesInv'
<1> USE DEF HandlesInv
<1> DEFINE c == pc.conn
           s == pc.stmt
           b == [stmt[s] EXCEPT !.statement = FALSE]
<1>1. /\ At("releaseStatement") /\ GoTo("~OdbcDesc")
      /\ client' = IF stmt[s].statement THEN StatementClosed(s, c) ELSE client
      /\ stmt' = [stmt EXCEPT ![s] = b]
      /\ UNCHANGED <<connections, conn, desc, dm>>
  BY DEF ReleaseStatement
<1>2. /\ pc \in Deletions /\ c \in Conns /\ pc.step = "releaseStatement" /\ pc.left = 4
      /\ dm[c] \in IF pc.call = "SQLFreeConnect" THEN {"allocated", "disconnected"}
                   ELSE {"connected"}
      /\ pc.call # "SQLFreeStmt" => ~conn[c].env
      /\ s \in Stmts /\ stmt[s].connection = c
  BY <1>1, UnderWay DEF Steps, StatementSteps, Attached
<1>3. /\ pc' \in Deletions /\ pc' # Idle /\ pc'.step = "~OdbcDesc"
      /\ pc'.call = pc.call /\ pc'.conn = c /\ pc'.stmt = s /\ pc'.left = 4
  BY <1>1, <1>2, GoToType DEF Steps
<1>4. HalfDeleted = {s} /\ HalfDeleted' = {s} /\ ~At("~OdbcDesc")
  BY <1>2, <1>3 DEF HalfDeleted, At
<1>5. stmt \in [Stmts -> Statements] /\ client \in Clients
  BY TypeNamed
<1>6. b \in Statements /\ b.connection = stmt[s].connection /\ b.statement = FALSE
  BY <1>2, <1>5, StatementType
<1> HIDE DEF b, c, s
<1>7. /\ stmt' \in [Stmts -> Statements] /\ stmt'[s].statement = FALSE
      /\ \A t \in Stmts : /\ stmt'[t].connection = stmt[t].connection
                          /\ t # s => stmt'[t].statement = stmt[t].statement
  BY <1>1, <1>2, <1>5, <1>6
<1>8. /\ client' \in Clients /\ client'.session = client.session
      /\ client'.misused = client.misused
      /\ client'.statements = client.statements \ {<<s, c>>}
  <2>1. CASE stmt[s].statement
    BY <1>1, <1>2, <2>1, StatementClosedRight
  <2>2. CASE ~stmt[s].statement
    <3>1. <<s, c>> \notin client.statements
      BY <2>2 DEF ClientInv
    <3> QED
      BY <1>1, <1>5, <2>2, <3>1
  <2> QED
    BY <2>1, <2>2
<1>9. TypeOK'
  BY <1>1, <1>3, <1>7, <1>8, TypeNamed, TypeAfter
<1>10. RegisteredInv' /\ AttachedInv' /\ DescriptorsInv'
  BY <1>1, <1>4, <1>7, RegisteredSame, ListsSame, DescriptorsSame
<1>11. ClientInv'
  <2>1. client'.statements = IF stmt'[s].statement THEN client.statements \cup {<<s, c>>}
                             ELSE client.statements \ {<<s, c>>}
    BY <1>7, <1>8
  <2>2. /\ ClientInv /\ s \in Stmts /\ c \in Conns /\ stmt[s].connection = c
        /\ dm' = dm
    BY <1>1, <1>2
  <2>3. /\ \A t \in Stmts : stmt'[t].connection = stmt[t].connection
        /\ \A t \in Stmts : t # s => stmt'[t].statement = stmt[t].statement
    BY <1>7
  <2> QED
    BY <1>8, <2>1, <2>2, <2>3, ClientAfter
<1>12. \A d : Attached(d)' = Attached(d)
  BY <1>7, AttachedSame
<1>13. HandleInv'
  BY <1>1, <1>12 DEF HandleInv
<1>14. DescInv'
  <2>1. \A k \in Kinds : ~(k > 4)
    BY DEF Kinds
  <2>2. \A t \in Stmts : Exists(t)' <=> Exists(t)
    BY <1>7 DEF Exists
  <2> QED
    BY <1>1, <1>3, <1>4, <2>1, <2>2 DEF DescInv
<1>15. PlaceInv'
  <2>1. s \in Attached(c)
    BY <1>2 DEF Attached
  <2>2. ~stmt'[pc'.stmt].statement
    BY <1>3, <1>7
  <2> QED
    BY <1>1, <1>2, <1>3, <1>7, <2>1, <2>2, <1>12 DEF PlaceInv, StatementSteps
<1> QED
  BY <1>9, <1>10, <1>11, <1>13, <1>14, <1>15

\* A descriptor is off the list of its connection, and the others are where they were.
LEMMA DescriptorGone ==
  ASSUME HandlesInv, NEW c \in Conns, NEW d \in DescsOf(c), NEW list,
         Holds(list, DescsOf(c) \ {d}),
         conn' = [conn EXCEPT ![c] = [conn[c] EXCEPT !.descriptors = list]],
         desc' = desc \ {d}
  PROVE  /\ conn' \in [Conns -> Connections] /\ conn'[c].descriptors = list
         /\ \A e \in Conns : /\ e # c => conn'[e] = conn[e]
                             /\ conn'[e].statements = conn[e].statements
                             /\ conn'[e].connection = conn[e].connection
                             /\ conn'[e].env = conn[e].env
         /\ desc' \subseteq Stmts \X Kinds
<1>1. conn \in [Conns -> Connections] /\ desc \subseteq Stmts \X Kinds
  BY TypeNamed DEF HandlesInv
<1>2. list \in Seq(Stmts \X Kinds)
  BY <1>1 DEF Holds, DescsOf
<1> QED
  BY <1>1, <1>2 DEF Connections

LEMMA DescriptorListsAfter ==
  ASSUME HandlesInv, NEW c \in Conns, NEW d \in DescsOf(c),
         Holds(conn'[c].descriptors, DescsOf(c) \ {d}),
         \A e \in Conns : e # c => conn'[e].descriptors = conn[e].descriptors,
         desc' = desc \ {d},
         \A e \in desc' : stmt'[e[1]].connection = stmt[e[1]].connection
  PROVE  DescriptorsInv'
<1>1. DescsOf(c)' = DescsOf(c) \ {d}
  BY DEF DescsOf
<1>2. ASSUME NEW e \in Conns, e # c
      PROVE  DescsOf(e)' = DescsOf(e)
  BY <1>2 DEF DescsOf
<1> QED
  BY <1>1, <1>2 DEF DescriptorsInv, HandlesInv

LEMMA DescriptorDeletedInv ==
  ASSUME HandlesInv, DescriptorDeleted
  PROVE  HandlesInv'
<1> USE DEF HandlesInv
<1> DEFINE c == pc.conn
           s == pc.stmt
           k == pc.left
           d == <<s, k>>
           list == RemoveFirst(conn[c].descriptors, d)
<1>1. /\ At("~OdbcDesc")
      /\ conn' = [conn EXCEPT ![c] = [conn[c] EXCEPT !.descriptors = list]]
      /\ desc' = desc \ {d}
      /\ UNCHANGED <<connections, client, dm>>
      /\ IF k > 1
         THEN /\ pc' = [pc EXCEPT !.left = k - 1]
              /\ stmt' = stmt
         ELSE /\ pc' = IF pc.call = "SQLFreeStmt" THEN Idle
                       ELSE Deleting(pc.call, c, NoStmt, "statements")
              /\ stmt' = [stmt EXCEPT ![s] = NoStatement]
  BY DEF DescriptorDeleted
<1>2. /\ pc \in Deletions /\ c \in Conns /\ pc.step = "~OdbcDesc" /\ k \in Kinds
      /\ pc.call \in {"SQLFreeStmt", "SQLDisconnect", "SQLFreeConnect"}
      /\ dm[c] \in IF pc.call = "SQLFreeConnect" THEN {"allocated", "disconnected"}
                   ELSE {"connected"}
      /\ pc.call # "SQLFreeStmt" => ~conn[c].env
      /\ s \in Stmts /\ stmt[s].connection = c /\ ~stmt[s].statement
  BY <1>1, UnderWay DEF Steps, StatementSteps, Attached
<1>3. HalfDeleted = {s}
  BY <1>2 DEF HalfDeleted, At
<1>4. /\ Kinds = {1, 2, 3, 4} /\ stmt \in [Stmts -> Statements]
      /\ desc \subseteq Stmts \X Kinds
  BY TypeNamed DEF Kinds
<1>5. \A j \in Kinds : <<s, j>> \in desc <=> ~(j > k)
  BY <1>1, <1>2, NamesAssumption DEF DescInv, Exists
<1>6. d \in DescsOf(c)
  BY <1>2, <1>4, <1>5 DEF DescsOf
<1>7. Holds(list, DescsOf(c) \ {d})
  BY <1>2, <1>6, HoldsRemove DEF DescriptorsInv
<1> HIDE DEF list
<1>8. /\ conn' \in [Conns -> Connections] /\ conn'[c].descriptors = list
      /\ \A e \in Conns : /\ e # c => conn'[e] = conn[e]
                          /\ conn'[e].statements = conn[e].statements
                          /\ conn'[e].connection = conn[e].connection
                          /\ conn'[e].env = conn[e].env
      /\ desc' \subseteq Stmts \X Kinds
  BY <1>1, <1>2, <1>6, <1>7, DescriptorGone
<1>9. RegisteredInv'
  BY <1>1, <1>8, RegisteredSame
<1>10. CASE k > 1
  <2>1. pc' = [pc EXCEPT !.left = k - 1] /\ stmt' = stmt /\ k - 1 \in Kinds
    BY <1>1, <1>2, <1>4, <1>10
  <2>2. /\ pc' \in Deletions /\ pc'.step = "~OdbcDesc" /\ pc'.call = pc.call
        /\ pc'.conn = c /\ pc'.stmt = s /\ pc'.left = k - 1
    BY <1>2, <2>1 DEF Deletions
  <2>3. At("~OdbcDesc")' /\ HalfDeleted' = {s}
    BY <2>2 DEF At, HalfDeleted
  <2> HIDE DEF c, s, k, d
  <2>4. TypeOK'
    BY <1>1, <1>8, <2>1, <2>2, TypeNamed, TypeAfter
  <2>5. AttachedInv' /\ ClientInv'
    BY <1>1, <1>3, <1>8, <2>1, <2>3, ListsSame, ClientSame
  <2>6. DescriptorsInv'
    <3>1. \A e \in desc' : stmt'[e[1]].connection = stmt[e[1]].connection
      BY <2>1
    <3>2. Holds(conn'[c].descriptors, DescsOf(c) \ {d})
      BY <1>7, <1>8
    <3>3. \A e \in Conns : e # c => conn'[e].descriptors = conn[e].descriptors
      BY <1>8
    <3> QED
      BY <1>1, <1>2, <1>6, <3>1, <3>2, <3>3, DescriptorListsAfter
  <2>7. \A e : Attached(e)' = Attached(e)
    BY <2>1, AttachedSame
  <2>8. HandleInv'
    <3>1. dm[c] # "free"
      BY <1>2
    <3> QED
      BY <1>1, <1>2, <1>8, <2>7, <3>1 DEF HandleInv
  <2>9. DescInv'
    <3>1. ASSUME NEW t \in Stmts, NEW j \in Kinds
          PROVE  <<t, j>> \in desc' <=> Exists(t)' /\ ~(t = s /\ j > k - 1)
      <4>1. Exists(t)' <=> Exists(t)
        BY <2>1 DEF Exists
      <4>2. CASE t # s
        <5>1. <<t, j>> # d
          BY <4>2 DEF d
        <5>2. <<t, j>> \in desc <=> Exists(t)
          BY <4>2 DEF DescInv, s
        <5> QED
          BY <1>1, <4>1, <4>2, <5>1, <5>2
      <4>3. CASE t = s
        <5>1. <<t, j>> = d <=> j = k
          BY <4>3 DEF d
        <5>2. Exists(t)
          BY <1>2, <4>3, NamesAssumption DEF Exists
        <5>3. j > k - 1 <=> j > k \/ j = k
          BY <1>2, <1>4
        <5> QED
          BY <1>1, <1>5, <4>1, <4>3, <5>1, <5>2, <5>3
      <4> QED
        BY <4>2, <4>3
    <3> QED
      BY <2>2, <2>3, <3>1 DEF DescInv
  <2>10. PlaceInv'
    <3>1. (pc.stmt \in Attached(pc.conn))' /\ ~stmt'[pc'.stmt].statement
      BY <1>2, <2>1, <2>2 DEF Attached
    <3>2. ~conn'[c].env <=> ~conn[c].env
      BY <1>2, <1>8
    <3>3. /\ pc'.conn = c /\ dm' = dm /\ pc'.step \in StatementSteps
      BY <1>1, <2>2 DEF StatementSteps
    <3> QED
      BY <1>2, <2>2, <3>1, <3>2, <3>3 DEF PlaceInv
  <2> QED
    BY <1>9, <2>4, <2>5, <2>6, <2>8, <2>9, <2>10
<1>11. CASE ~(k > 1)
  <2>1. /\ k = 1 /\ stmt' = [stmt EXCEPT ![s] = NoStatement]
        /\ pc' = IF pc.call = "SQLFreeStmt" THEN Idle
                 ELSE Deleting(pc.call, c, NoStmt, "statements")
    BY <1>1, <1>2, <1>4, <1>11
  <2>2. \/ pc' = Idle
        \/ /\ pc' \in Deletions /\ pc' # Idle /\ pc'.step = "statements"
           /\ pc'.call = pc.call /\ pc'.conn = c /\ pc'.left = 4
           /\ pc.call # "SQLFreeStmt"
    BY <1>2, <2>1, DeletingType DEF Steps
  <2>3. HalfDeleted' = {} /\ ~At("~OdbcDesc")'
    BY <2>2, AtRest DEF HalfDeleted, At
  <2>4. NoStatement \in Statements /\ NoStatement.connection = NoConn
        /\ NoStatement.statement = FALSE
    BY DEF NoStatement, Statements
  <2> HIDE DEF c, s, k, d
  <2>5. /\ stmt' \in [Stmts -> Statements] /\ stmt'[s].connection = NoConn
        /\ stmt'[s].statement = FALSE
        /\ \A t \in Stmts : t # s => stmt'[t] = stmt[t]
    BY <1>2, <1>4, <2>1, <2>4
  <2>6. TypeOK'
    BY <1>1, <1>8, <2>2, <2>5, TypeNamed, TypeAfter
  <2>7. ASSUME NEW e \in Conns
        PROVE  Attached(e)' = Attached(e) \ {s}
    BY <2>5, NamesAssumption DEF Attached
  <2>8. AttachedInv'
    <3>1. ASSUME NEW e \in Conns
          PROVE  Holds(conn'[e].statements, Attached(e)' \ HalfDeleted')
      <4>1. Attached(e)' \ HalfDeleted' = Attached(e) \ HalfDeleted
        BY <1>3, <2>3, <2>7
      <4>2. conn'[e].statements = conn[e].statements
        BY <1>8
      <4>3. Holds(conn[e].statements, Attached(e) \ HalfDeleted)
        BY DEF AttachedInv
      <4> QED
        BY <4>1, <4>2, <4>3
    <3> QED
      BY <3>1 DEF AttachedInv
  <2>9. \A e \in desc' : e[1] \in Stmts /\ e[1] # s
    <3>1. ASSUME NEW e \in desc', e[1] = s
          PROVE  FALSE
      <4>1. e \in desc /\ e # d /\ e = <<s, e[2]>> /\ e[2] \in Kinds
        BY <1>1, <1>4, <3>1
      <4>2. ~(e[2] > k)
        BY <1>5, <4>1
      <4>3. e[2] = k
        BY <1>4, <2>1, <4>1, <4>2
      <4> QED
        BY <4>1, <4>3 DEF d
    <3> QED
      BY <1>8, <3>1
  <2>10. DescriptorsInv'
    <3>1. \A e \in desc' : stmt'[e[1]].connection = stmt[e[1]].connection
      BY <2>5, <2>9
    <3>2. Holds(conn'[c].descriptors, DescsOf(c) \ {d})
      BY <1>7, <1>8
    <3>3. \A e \in Conns : e # c => conn'[e].descriptors = conn[e].descriptors
      BY <1>8
    <3> QED
      BY <1>1, <1>2, <1>6, <3>1, <3>2, <3>3, DescriptorListsAfter
  <2>11. DescInv'
    <3>1. ASSUME NEW t \in Stmts, NEW j \in Kinds
          PROVE  <<t, j>> \in desc' <=> Exists(t)'
      <4>1. CASE t = s
        <5>1. ~Exists(t)'
          BY <2>5, <4>1 DEF Exists
        <5>2. <<t, j>> \notin desc'
          BY <2>9, <4>1
        <5> QED
          BY <5>1, <5>2
      <4>2. CASE t # s
        <5>1. Exists(t)' <=> Exists(t)
          BY <2>5, <4>2 DEF Exists
        <5>2. <<t, j>> # d
          BY <4>2 DEF d
        <5>3. <<t, j>> \in desc <=> Exists(t)
          BY <4>2 DEF DescInv, s
        <5> QED
          BY <1>1, <5>1, <5>2, <5>3
      <4> QED
        BY <4>1, <4>2
    <3> QED
      BY <2>3, <3>1 DEF DescInv
  <2>12. HandleInv'
    <3>1. dm[c] # "free"
      BY <1>2
    <3> QED
      BY <1>1, <1>2, <1>8, <2>7, <3>1 DEF HandleInv
  <2>13. ClientInv'
    <3>1. {p \in Stmts \X Conns : stmt[p[1]].connection = p[2] /\ stmt[p[1]].statement}
            = {p \in Stmts \X Conns : stmt'[p[1]].connection = p[2] /\ stmt'[p[1]].statement}
      BY <1>2, <2>5
    <3> QED
      BY <1>1, <2>7, <3>1 DEF ClientInv
  <2>14. PlaceInv'
    <3>1. CASE pc' = Idle
      BY <3>1, AtRest
    <3>2. CASE pc' # Idle
      <4>1. ~conn'[c].env <=> ~conn[c].env
        BY <1>2, <1>8
      <4>2. /\ pc'.step = "statements" /\ pc'.call = pc.call /\ pc'.conn = c
            /\ pc'.left = 4 /\ pc.call # "SQLFreeStmt" /\ dm' = dm
        BY <1>1, <2>2, <3>2
      <4> QED
        BY <1>2, <4>1, <4>2 DEF PlaceInv, StatementSteps
    <3> QED
      BY <3>1, <3>2
  <2> QED
    BY <1>9, <2>6, <2>8, <2>10, <2>11, <2>12, <2>13, <2>14
<1> QED
  BY <1>10, <1>11

\* No statement is left, and so no descriptor.
\* When the statements are gone so are their descriptors: the loop finds none.
LEMMA NoDescriptorLeft ==
  ASSUME HandlesInv, pc.conn \in Conns, Attached(pc.conn) = {}
  PROVE  conn[pc.conn].descriptors = << >>
<1>1. desc \subseteq Stmts \X Kinds
  BY TypeNamed DEF HandlesInv
<1>2. DescsOf(pc.conn) = {}
  BY <1>1 DEF DescsOf, Attached
<1>3. Holds(conn[pc.conn].descriptors, DescsOf(pc.conn))
  BY DEF HandlesInv, DescriptorsInv
<1> QED
  BY <1>2, <1>3, HoldsEmpty

LEMMA NextDescriptorInv ==
  ASSUME HandlesInv, NextDescriptor
  PROVE  HandlesInv'
<1> DEFINE list == conn[pc.conn].descriptors
<1>1. /\ At("descriptors") /\ UNCHANGED <<connections, stmt, client, dm>>
      /\ list = << >> => GoTo("connection") /\ UNCHANGED <<conn, desc>>
  BY DEF NextDescriptor
<1>2. /\ pc \in Deletions /\ pc.conn \in Conns /\ pc.step = "descriptors" /\ pc.left = 4
      /\ pc.call # "SQLFreeStmt" /\ ~conn[pc.conn].env
      /\ dm[pc.conn] \in IF pc.call = "SQLFreeConnect" THEN {"allocated", "disconnected"}
                         ELSE {"connected"}
      /\ Attached(pc.conn) = {}
  BY <1>1, UnderWay DEF Steps, StatementSteps
<1>3. list = << >>
  BY <1>2, NoDescriptorLeft
<1>4. /\ pc' \in Deletions /\ pc' # Idle /\ pc'.step = "connection"
      /\ pc'.call = pc.call /\ pc'.conn = pc.conn /\ pc'.left = 4
  BY <1>1, <1>2, <1>3, GoToType DEF Steps
<1>5. HalfDeleted = {} /\ HalfDeleted' = {} /\ ~At("~OdbcDesc") /\ ~At("~OdbcDesc")'
  BY <1>2, <1>4 DEF HalfDeleted, At
<1>6. PlaceInv'
  <2>1. \A c : Attached(c)' = Attached(c)
    BY <1>1, AttachedSame
  <2> QED
    BY <1>1, <1>2, <1>3, <1>4, <2>1 DEF PlaceInv, StatementSteps
<1> QED
  BY <1>1, <1>3, <1>4, <1>5, <1>6, MoveInv

LEMMA CloseSessionInv ==
  ASSUME HandlesInv, CloseSession
  PROVE  HandlesInv'
<1> USE DEF HandlesInv
<1> DEFINE c == pc.conn
           frees == pc.call = "SQLFreeConnect"
           h == IF frees THEN NoConnection ELSE [conn[c] EXCEPT !.connection = FALSE]
<1>1. /\ At("connection") /\ pc' = Idle /\ UNCHANGED <<connections, stmt, desc>>
      /\ IF conn[c].connection
         THEN \/ client' = SessionClosed(c)
              \/ pc.call = "SQLDisconnect" /\ client' = [client EXCEPT !.session[c] = "abandoned"]
         ELSE client' = client
      /\ conn' = [conn EXCEPT ![c] = h]
      /\ dm' = [dm EXCEPT ![c] = IF frees THEN "free" ELSE "disconnected"]
  BY DEF CloseSession
<1>2. /\ pc \in Deletions /\ c \in Conns /\ pc.step = "connection"
      /\ pc.call # "SQLFreeStmt" /\ ~conn[c].env
      /\ dm[c] \in IF pc.call = "SQLFreeConnect" THEN {"allocated", "disconnected"}
                   ELSE {"connected"}
      /\ Attached(c) = {}
  BY <1>1, UnderWay DEF Steps, StatementSteps
<1>3. /\ conn \in [Conns -> Connections] /\ dm \in [Conns -> Phases]
      /\ client \in Clients /\ desc \subseteq Stmts \X Kinds
  BY TypeNamed
<1>4. HalfDeleted = {} /\ HalfDeleted' = {} /\ ~At("~OdbcDesc") /\ ~At("~OdbcDesc")'
  BY <1>1, <1>2, AtRest DEF HalfDeleted, At
<1>5. conn[c].statements = << >> /\ conn[c].descriptors = << >>
  <2>1. DescsOf(c) = {}
    BY <1>2, <1>3 DEF DescsOf, Attached
  <2>2. Holds(conn[c].statements, {}) /\ Holds(conn[c].descriptors, {})
    BY <1>2, <1>4, <2>1 DEF AttachedInv, DescriptorsInv
  <2> QED
    BY <2>2, HoldsEmpty
<1>6. /\ h \in Connections /\ h.connection = FALSE /\ h.env = FALSE
      /\ h.statements = << >> /\ h.descriptors = << >>
  <2>1. CASE frees
    <3>1. /\ NoConnection \in Connections /\ NoConnection.connection = FALSE
          /\ NoConnection.env = FALSE /\ NoConnection.statements = << >>
          /\ NoConnection.descriptors = << >>
      BY DEF NoConnection, Connections
    <3> QED
      BY <2>1, <3>1
  <2>2. CASE ~frees
    <3>1. conn[c] \in Connections /\ conn[c].env = FALSE
      BY <1>2, <1>3, ConnectionType
    <3>2. h = [conn[c] EXCEPT !.connection = FALSE]
      BY <2>2
    <3> DEFINE g == conn[c]
    <3> HIDE DEF g, h
    <3>3. /\ h \in Connections /\ h.connection = FALSE /\ h.env = g.env
          /\ h.statements = g.statements /\ h.descriptors = g.descriptors
      BY <3>1, <3>2 DEF g, Connections
    <3> QED
      BY <1>5, <3>1, <3>3 DEF g
  <2> QED
    BY <2>1, <2>2
<1>7. frees => h = NoConnection
  OBVIOUS
<1> HIDE DEF h, c
<1>8. /\ conn' \in [Conns -> Connections] /\ conn'[c] = h
      /\ \A d \in Conns : /\ d # c => conn'[d] = conn[d]
                          /\ conn'[d].statements = conn[d].statements
                          /\ conn'[d].descriptors = conn[d].descriptors
                          /\ conn'[d].env = conn[d].env
  <2>1. /\ conn' \in [Conns -> Connections] /\ conn'[c] = h
        /\ \A d \in Conns : d # c => conn'[d] = conn[d]
    BY <1>1, <1>2, <1>3, <1>6
  <2>2. conn[c].env = FALSE
    BY <1>2, <1>3, ConnectionType
  <2> QED
    BY <1>5, <1>6, <2>1, <2>2
<1>9. /\ dm' \in [Conns -> Phases]
      /\ dm'[c] = IF frees THEN "free" ELSE "disconnected"
      /\ \A d \in Conns : d # c => dm'[d] = dm[d]
  BY <1>1, <1>2, <1>3 DEF Phases
<1>10. /\ client' \in Clients /\ client'.misused = client.misused
       /\ client'.statements = client.statements
       /\ client'.session[c] # "open"
       /\ \A d \in Conns : d # c => client'.session[d] = client.session[d]
  <2>1. client.session[c] = "open" <=> conn[c].connection
    BY <1>2 DEF ClientInv, HandleInv
  <2>2. CASE conn[c].connection
    <3>1. \E state \in {"closed", "abandoned"} :
            client' = [client EXCEPT !.session[c] = state]
      BY <1>1, <2>1, <2>2 DEF SessionClosed
    <3>2. PICK state \in {"closed", "abandoned"} :
            client' = [client EXCEPT !.session[c] = state]
      BY <3>1
    <3> QED
      BY <1>2, <1>3, <3>2 DEF Clients
  <2>3. CASE ~conn[c].connection
    BY <1>1, <1>3, <2>1, <2>3
  <2> QED
    BY <2>2, <2>3
<1>11. TypeOK'
  BY <1>1, <1>8, <1>9, <1>10, TypeNamed, TypeAfter
<1>12. RegisteredInv' /\ AttachedInv' /\ DescriptorsInv' /\ DescInv'
  BY <1>1, <1>4, <1>8, RegisteredSame, ListsSame, DescriptorsSame, DescSame
<1>13. \A d : Attached(d)' = Attached(d)
  BY <1>1, AttachedSame
<1>14. HandleInv'
  <2>1. ASSUME NEW d \in Conns
        PROVE  /\ dm'[d] = "free" => conn'[d] = NoConnection
               /\ dm'[d] \in {"free", "allocated"} => Attached(d)' = {}
               /\ conn'[d].connection <=> dm'[d] = "connected"
    <3>1. CASE d = c
      BY <1>2, <1>6, <1>7, <1>8, <1>9, <1>13, <3>1
    <3>2. CASE d # c
      BY <1>8, <1>9, <1>13, <3>2 DEF HandleInv
    <3> QED
      BY <3>1, <3>2
  <2> QED
    BY <2>1 DEF HandleInv
<1>15. ClientInv'
  <2>1. ASSUME NEW d \in Conns
        PROVE  /\ client'.session[d] = "open" <=> dm'[d] = "connected"
               /\ Attached(d)' # {} => client'.session[d] \in {"open", "abandoned"}
    <3>1. CASE d = c
      BY <1>2, <1>9, <1>10, <1>13, <3>1
    <3>2. CASE d # c
      BY <1>9, <1>10, <1>13, <3>2 DEF ClientInv
    <3> QED
      BY <3>1, <3>2
  <2> QED
    BY <1>1, <1>10, <2>1 DEF ClientInv
<1> QED
  BY <1>1, <1>11, <1>12, <1>14, <1>15, AtRest

LEMMA HandlesNext == HandlesInv /\ [Next]_vars => HandlesInv'
<1> SUFFICES ASSUME HandlesInv, [Next]_vars PROVE HandlesInv'
  OBVIOUS
<1>1. CASE AllocEnv \/ FreeEnv
  BY <1>1, EnvInv
<1>2. ASSUME NEW c \in Conns, AllocConnection(c) \/ Connect(c)
      PROVE  HandlesInv'
  BY <1>2, AllocConnectionInv, ConnectInv
<1>3. ASSUME NEW c \in Conns, SQLEndTran(c) \/ \E s \in Stmts : SQLExecute(s, c)
      PROVE  HandlesInv'
  BY <1>3, PendingInv
<1>4. ASSUME NEW c \in Conns, NEW s \in Stmts, AllocStatement(s, c) \/ SQLPrepare(s, c)
      PROVE  HandlesInv'
  BY <1>4, AllocStatementInv, PrepareInv
<1>5. ASSUME NEW s \in Stmts, NEW n \in 1 .. MaxRecord, SQLSetDescField(s, n)
      PROVE  HandlesInv'
  BY <1>5, SetDescFieldInv
<1>6. CASE \/ \E s \in Stmts : SQLFreeStmt(s)
           \/ \E c \in Conns : SQLDisconnect(c) \/ SQLFreeConnect(c)
  BY <1>6, DisconnectInv
<1>7. CASE Delete
  BY <1>7, LeaveEnvInv, NextStatementInv, StatementDeletedInv, ReleaseStatementInv,
     DescriptorDeletedInv, NextDescriptorInv, CloseSessionInv DEF Delete
<1>8. CASE UNCHANGED vars
  <2>1. UNCHANGED <<connections, conn, stmt, desc, client, dm, pc>>
    BY <1>8 DEF vars
  <2>2. TypeOK' /\ PlaceInv'
    BY <2>1, AttachedSame, TypeNamed, TypeAfter DEF HandlesInv, PlaceInv
  <2>3. RegisteredInv' /\ AttachedInv' /\ DescriptorsInv' /\ ClientInv'
    BY <2>1, RegisteredSame, ListsSame, DescriptorsSame, ClientSame
    DEF HandlesInv, HalfDeleted, At
  <2>4. DescInv' /\ HandleInv'
    BY <2>1, AttachedSame DEF HandlesInv, DescInv, HandleInv, Exists, At
  <2> QED
    BY <2>2, <2>3, <2>4 DEF HandlesInv
<1> QED
  BY <1>1, <1>2, <1>3, <1>4, <1>5, <1>6, <1>7, <1>8 DEF Next

\* Spec => []TypeOK: the objects, their lists and the call that deletes keep their types.
THEOREM TypeCorrect == Spec => []TypeOK
<1>1. HandlesInv => TypeOK
  BY DEF HandlesInv
<1> QED
  BY <1>1, InitInv, HandlesNext, PTL DEF Spec

-----------------------------------------------------------------------------
(***************************************************************************)
(* The lists.                                                              *)
(***************************************************************************)
\* Spec => []ListsExact: every list holds exactly the objects that exist, each once, and
\* what a destructor deletes is there, for any handles and any order of the calls.
THEOREM ListsExactCorrect == Spec => []ListsExact
<1>1. HandlesInv => ListsExact
  <2> SUFFICES ASSUME HandlesInv PROVE ListsExact
    OBVIOUS
  <2> USE DEF HandlesInv
  <2>1. /\ connections # Gone => Lists(connections, {c \in Conns : conn[c].env})
        /\ connections = Gone => \A c \in Conns : ~conn[c].env
    BY HoldsLists DEF RegisteredInv, Registered
  <2>2. ASSUME NEW c \in Conns
        PROVE  /\ Lists(conn[c].statements,
                        {s \in Stmts : stmt[s].connection = c} \ HalfDeleted)
               /\ Lists(conn[c].descriptors, {d \in desc : stmt[d[1]].connection = c})
    BY HoldsLists DEF AttachedInv, Attached, DescriptorsInv, DescsOf
  <2>3. ASSUME NEW d \in desc
        PROVE  Exists(d[1])
    <3>1. d[1] \in Stmts /\ d[2] \in Kinds /\ d = <<d[1], d[2]>>
      BY TypeNamed
    <3> QED
      BY <3>1 DEF DescInv
  <2>4. ASSUME At("~OdbcDesc")
        PROVE  <<pc.stmt, pc.left>> \in desc
    <3>1. /\ pc.stmt \in Attached(pc.conn) /\ pc.left \in Kinds /\ pc.conn \in Conns
      BY <2>4, UnderWay DEF Steps, StatementSteps
    <3>2. pc.stmt \in Stmts /\ Exists(pc.stmt)
      BY <3>1, NamesAssumption DEF Attached, Exists
    <3>3. ~(pc.left > pc.left)
      BY <3>1 DEF Kinds
    <3> QED
      BY <3>1, <3>2, <3>3 DEF DescInv
  <2> QED
    BY <2>1, <2>2, <2>3, <2>4 DEF ListsExact
<1> QED
  BY <1>1, InitInv, HandlesNext, PTL DEF Spec

-----------------------------------------------------------------------------
(***************************************************************************)
(* The client library is used as ClientObjects says.                       *)
(***************************************************************************)
LEMMA InitMaps == Init => Objects!Init
BY DEF Init, Objects!Init

ClientStep == [Objects!Next]_Objects!vars

LEMMA NoStep ==
  ASSUME client' = client
  PROVE  ClientStep
BY DEF ClientStep, Objects!vars

LEMMA CloseMaps ==
  ASSUME HandlesInv, NEW s \in Stmts, NEW c \in Conns,
         stmt[s].connection = c, stmt[s].statement, client' = StatementClosed(s, c)
  PROVE  ClientStep
<1>1. Objects!Close(s, c)
  BY StatementClosedRight DEF Objects!Close
<1> QED
  BY <1>1 DEF ClientStep, Objects!Next

LEMMA ConnectMaps ==
  ASSUME HandlesInv, NEW c \in Conns, Connect(c)
  PROVE  ClientStep
<1>1. /\ dm[c] = "allocated" /\ client' = [client EXCEPT !.session[c] = "open"]
  BY DEF Connect
<1>2. client \in Clients
  BY TypeNamed DEF HandlesInv
<1>3. client.session[c] # "open"
  BY <1>1 DEF HandlesInv, ClientInv
<1>4. Objects!StatementsOf(c) = {}
  <2>1. Attached(c) = {}
    BY <1>1 DEF HandlesInv, HandleInv
  <2> QED
    BY <2>1 DEF HandlesInv, ClientInv, Attached, Objects!StatementsOf
<1>5. Objects!Open(c)
  BY <1>1, <1>2, <1>3, <1>4 DEF Objects!Open, Clients
<1> QED
  BY <1>5 DEF ClientStep, Objects!Next

LEMMA PrepareMaps ==
  ASSUME HandlesInv, NEW s \in Stmts, NEW c \in Conns, SQLPrepare(s, c)
  PROVE  ClientStep
<1> DEFINE closed == IF stmt[s].statement THEN StatementClosed(s, c) ELSE client
<1>1. /\ stmt[s].connection = c /\ dm[c] = "connected"
      /\ \/ client' = [closed EXCEPT !.statements = @ \cup {<<s, c>>}]
         \/ client' = closed
  BY DEF SQLPrepare
<1>2. client \in Clients /\ ClientInv
  BY TypeNamed DEF HandlesInv
<1>3. CASE stmt[s].statement
  <2>1. closed = StatementClosed(s, c)
    BY <1>3
  <2>2. CASE client' = closed
    BY <1>1, <1>3, <2>1, <2>2, CloseMaps
  <2>3. CASE client' = [closed EXCEPT !.statements = @ \cup {<<s, c>>}]
    <3>1. /\ closed \in Clients /\ closed.session = client.session
          /\ closed.misused = client.misused
          /\ closed.statements = client.statements \ {<<s, c>>}
          /\ <<s, c>> \in client.statements
      BY <1>1, <1>3, StatementClosedRight
    <3> HIDE DEF closed
    <3>2. /\ client'.session = closed.session /\ client'.misused = closed.misused
          /\ client'.statements = closed.statements \cup {<<s, c>>}
      BY <2>3, <3>1 DEF Clients
    <3>3. client'.statements = client.statements
      BY <3>1, <3>2
    <3> QED
      BY <3>1, <3>2, <3>3 DEF ClientStep, Objects!vars
  <2> QED
    BY <1>1, <2>2, <2>3
<1>4. CASE ~stmt[s].statement
  <2>1. closed = client
    BY <1>4
  <2>2. CASE client' = closed
    BY <2>1, <2>2, NoStep
  <2>3. CASE client' = [closed EXCEPT !.statements = @ \cup {<<s, c>>}]
    <3>1. client' = [client EXCEPT !.statements = @ \cup {<<s, c>>}]
      BY <2>1, <2>3
    <3>2. /\ client'.session = client.session /\ client'.misused = client.misused
          /\ client'.statements = client.statements \cup {<<s, c>>}
      BY <1>2, <3>1 DEF Clients
    <3>3. client.session[c] = "open"
      BY <1>1, <1>2 DEF ClientInv
    <3>4. \A d \in Conns : <<s, d>> \notin client.statements
      BY <1>2, <1>4 DEF ClientInv
    <3>5. Objects!Prepare(s, c)
      BY <3>2, <3>3, <3>4 DEF Objects!Prepare
    <3> QED
      BY <3>5 DEF ClientStep, Objects!Next
  <2> QED
    BY <1>1, <2>2, <2>3
<1> QED
  BY <1>3, <1>4

LEMMA AbandonMaps ==
  ASSUME HandlesInv, NEW c \in Conns, client.session[c] = "open",
         client' = [client EXCEPT !.session[c] = "abandoned"]
  PROVE  ClientStep
<1>1. client \in Clients
  BY TypeNamed DEF HandlesInv
<1>2. Objects!Abandon(c)
  BY <1>1 DEF Objects!Abandon, Clients
<1> QED
  BY <1>2 DEF ClientStep, Objects!Next

LEMMA CloseSessionMaps ==
  ASSUME HandlesInv, CloseSession
  PROVE  ClientStep
<1> DEFINE c == pc.conn
<1>1. /\ At("connection")
      /\ IF conn[c].connection
         THEN \/ client' = SessionClosed(c)
              \/ client' = [client EXCEPT !.session[c] = "abandoned"]
         ELSE client' = client
  BY DEF CloseSession
<1>2. c \in Conns /\ Attached(c) = {}
  BY <1>1, UnderWay DEF Steps
<1>3. client \in Clients
  BY TypeNamed DEF HandlesInv
<1>4. conn[c].connection => client.session[c] = "open"
  BY <1>2 DEF HandlesInv, HandleInv, ClientInv
<1> HIDE DEF c
<1>5. CASE ~conn[c].connection
  BY <1>1, <1>5, NoStep
<1>6. CASE conn[c].connection
  <2>1. client' = [client EXCEPT !.session[c] = "closed"] => Objects!CloseSession(c)
    <3>1. Objects!StatementsOf(c) = {}
      BY <1>2 DEF HandlesInv, ClientInv, Attached, Objects!StatementsOf
    <3> QED
      BY <1>2, <1>3, <1>4, <1>6, <3>1 DEF Objects!CloseSession, Clients
  <2>2. client' = [client EXCEPT !.session[c] = "abandoned"] => ClientStep
    BY <1>2, <1>4, <1>6, AbandonMaps
  <2>3. SessionClosed(c) = [client EXCEPT !.session[c] = "closed"]
    BY <1>4, <1>6 DEF SessionClosed
  <2> QED
    BY <1>1, <1>2, <1>6, <2>1, <2>2, <2>3 DEF ClientStep, Objects!Next
<1> QED
  BY <1>5, <1>6

LEMMA StepMaps == HandlesInv /\ [Next]_vars => ClientStep
<1> SUFFICES ASSUME HandlesInv, [Next]_vars PROVE ClientStep
  OBVIOUS
<1>1. ASSUME NEW c \in Conns, Connect(c)
      PROVE  ClientStep
  BY <1>1, ConnectMaps
<1>2. ASSUME NEW s \in Stmts, NEW c \in Conns, SQLPrepare(s, c)
      PROVE  ClientStep
  BY <1>2, PrepareMaps
<1>3. ASSUME NEW c \in Conns, SQLDisconnect(c)
      PROVE  ClientStep
  <2>1. \/ client' = client
        \/ /\ client' = [client EXCEPT !.session[c] = "abandoned"]
           /\ dm[c] = "connected"
    BY <1>3 DEF SQLDisconnect
  <2>2. dm[c] = "connected" => client.session[c] = "open"
    BY DEF HandlesInv, ClientInv
  <2> QED
    BY <2>1, <2>2, NoStep, AbandonMaps
<1>4. CASE ReleaseStatement
  <2>1. /\ At("releaseStatement")
        /\ client' = IF stmt[pc.stmt].statement THEN StatementClosed(pc.stmt, pc.conn)
                     ELSE client
    BY <1>4 DEF ReleaseStatement
  <2>2. pc.conn \in Conns /\ pc.stmt \in Stmts /\ stmt[pc.stmt].connection = pc.conn
    BY <2>1, UnderWay DEF Steps, StatementSteps, Attached
  <2> QED
    BY <2>1, <2>2, NoStep, CloseMaps
<1>5. CASE CloseSession
  BY <1>5, CloseSessionMaps
<1>6. CASE \/ AllocEnv \/ FreeEnv \/ LeaveEnv \/ NextStatement \/ StatementDeleted
           \/ DescriptorDeleted \/ NextDescriptor
  <2>1. client' = client
    BY <1>6 DEF AllocEnv, FreeEnv, LeaveEnv, NextStatement, StatementDeleted,
                DescriptorDeleted, NextDescriptor
  <2> QED
    BY <2>1, NoStep
<1>7. ASSUME NEW c \in Conns,
             \/ AllocConnection(c) \/ SQLEndTran(c) \/ SQLFreeConnect(c)
             \/ \E s \in Stmts : AllocStatement(s, c) \/ SQLExecute(s, c)
      PROVE  ClientStep
  <2>1. client' = client
    BY <1>7 DEF AllocConnection, SQLEndTran, SQLFreeConnect, AllocStatement, SQLExecute
  <2> QED
    BY <2>1, NoStep
<1>8. ASSUME NEW s \in Stmts,
             SQLFreeStmt(s) \/ \E n \in 1 .. MaxRecord : SQLSetDescField(s, n)
      PROVE  ClientStep
  <2>1. client' = client
    BY <1>8 DEF SQLFreeStmt, SQLSetDescField
  <2> QED
    BY <2>1, NoStep
<1>9. CASE UNCHANGED vars
  BY <1>9, NoStep DEF vars
<1> QED
  BY <1>1, <1>2, <1>3, <1>4, <1>5, <1>6, <1>7, <1>8, <1>9 DEF Next, Delete

\* Spec => ClientSpec: the driver uses the client library as ClientObjects says. A
\* statement is closed once, before its session and on it, and a session once, whoever
\* frees them and whatever calls came between.
THEOREM ClientCorrect == Spec => ClientSpec
<1>1. Init => HandlesInv /\ Objects!Init
  BY InitInv, InitMaps
<1>2. HandlesInv /\ [Next]_vars => HandlesInv' /\ [Objects!Next]_Objects!vars
  BY HandlesNext, StepMaps DEF ClientStep
<1> QED
  BY <1>1, <1>2, PTL DEF Spec, ClientSpec, Objects!Spec

-----------------------------------------------------------------------------
(***************************************************************************)
(* A call that deletes comes to its end.                                   *)
(***************************************************************************)
\* What the destructor of the statement still has to do: itself off the list, what was
\* prepared, its four members.
OfDestructor ==
  CASE pc.step = "~OdbcStatement" -> 6
    [] pc.step = "releaseStatement" -> 5
    [] pc.step = "~OdbcDesc" -> pc.left
    [] OTHER -> 0

\* What close() still has to do after that, with n statements on the list: seven steps
\* for each, one that finds each list empty, and the session.
OfClose ==
  LET n == Len(conn[pc.conn].statements)
  IN  CASE pc.step = "close" -> 7 * n + 4
        [] pc.step = "~OdbcStatement" -> 7 * (n - 1) + 3
        [] pc.step \in {"statements", "releaseStatement", "~OdbcDesc"} -> 7 * n + 3
        [] pc.step = "descriptors" -> 2
        [] pc.step = "connection" -> 1

StepsLeft ==
  IF pc = Idle THEN 0
  ELSE OfDestructor + (IF pc.call = "SQLFreeStmt" THEN 0 ELSE OfClose)

\* A call that deletes is in the middle of something as long as steps are left.
StepsLeftExact == StepsLeft \in Nat /\ (StepsLeft = 0 <=> pc = Idle)

\* Every step of a destructor or of a loop of close() is one step less to go: what a
\* destructor does not take off its list, or a loop deletes that is not there, would
\* make it more.
CountsDown == [][pc # Idle => StepsLeft' = StepsLeft - 1]_vars

LEMMA ListLength ==
  ASSUME HandlesInv, NEW c \in Conns
  PROVE  Len(conn[c].statements) \in Nat
BY DEF HandlesInv, AttachedInv, Holds

LEMMA StepsLeftType == HandlesInv => StepsLeftExact
<1> SUFFICES ASSUME HandlesInv PROVE StepsLeftExact
  OBVIOUS
<1>1. CASE pc = Idle
  BY <1>1 DEF StepsLeftExact, StepsLeft
<1>2. CASE pc # Idle
  <2>1. pc \in Deletions
    BY <1>2, TypeNamed DEF HandlesInv
  <2>2. pc.step \in Steps /\ pc.conn \in Conns /\ pc.left \in Kinds
    BY <2>1 DEF Deletions, Steps
  <2>3. At(pc.step)
    BY DEF At
  <2>4. /\ pc.call = "SQLFreeStmt" => pc.step \in StatementSteps
        /\ pc.step \in StatementSteps => pc.stmt \in Attached(pc.conn)
    BY <2>2, <2>3, UnderWay
  <2> DEFINE n == Len(conn[pc.conn].statements)
  <2>5. n \in Nat
    BY <2>2, ListLength
  <2>6. pc.step = "~OdbcStatement" => n > 0
    <3> SUFFICES ASSUME pc.step = "~OdbcStatement" PROVE n > 0
      OBVIOUS
    <3>1. pc.stmt \in Attached(pc.conn) /\ HalfDeleted = {}
      BY <2>4 DEF StatementSteps, HalfDeleted, At
    <3>2. Holds(conn[pc.conn].statements, Attached(pc.conn))
      BY <2>2, <3>1 DEF HandlesInv, AttachedInv
    <3> QED
      BY <2>5, <3>1, <3>2 DEF Holds
  <2>7. StepsLeft = OfDestructor + (IF pc.call = "SQLFreeStmt" THEN 0 ELSE OfClose)
    BY <1>2 DEF StepsLeft
  <2>8. pc.left \in 1 .. 4
    BY <2>2 DEF Kinds
  <2>9. OfDestructor \in Nat /\ (pc.step \in StatementSteps => OfDestructor > 0)
    BY <2>2, <2>8 DEF OfDestructor, StatementSteps, Steps
  <2>10. OfClose \in Nat /\ OfClose > 0
    BY <2>2, <2>5, <2>6 DEF OfClose, Steps
  <2> QED
    BY <1>2, <2>4, <2>7, <2>9, <2>10 DEF StepsLeftExact
<1> QED
  BY <1>1, <1>2

LEMMA StepsLeftOf ==
  ASSUME pc # Idle
  PROVE  StepsLeft = OfDestructor + (IF pc.call = "SQLFreeStmt" THEN 0 ELSE OfClose)
BY DEF StepsLeft

LEMMA StepsLeftAfter ==
  ASSUME pc' # Idle
  PROVE  StepsLeft' = OfDestructor' + (IF pc'.call = "SQLFreeStmt" THEN 0 ELSE OfClose')
BY DEF StepsLeft

LEMMA OneStepLess ==
  ASSUME HandlesInv, Delete
  PROVE  StepsLeft' = StepsLeft - 1
<1> DEFINE n == Len(conn[pc.conn].statements)
<1>1. CASE LeaveEnv
  <2>1. /\ At("close") /\ GoTo("statements")
        /\ conn' = [conn EXCEPT ![pc.conn].env = FALSE]
    BY <1>1 DEF LeaveEnv
  <2>2. /\ pc # Idle /\ pc \in Deletions /\ pc.conn \in Conns /\ pc.step = "close"
        /\ pc.call # "SQLFreeStmt"
    BY <2>1, UnderWay DEF Steps, StatementSteps
  <2>3. /\ pc' # Idle /\ pc'.step = "statements" /\ pc'.conn = pc.conn
        /\ pc'.call = pc.call
    BY <2>1, <2>2, GoToType DEF Steps
  <2>4. n \in Nat /\ conn'[pc.conn].statements = conn[pc.conn].statements
    BY <2>1, <2>2, ListLength, TypeNamed DEF HandlesInv, Connections
  <2>5. StepsLeft = 0 + (7 * n + 4)
    BY <2>2, StepsLeftOf DEF OfDestructor, OfClose
  <2>6. StepsLeft' = 0 + (7 * n + 3)
    BY <2>2, <2>3, <2>4, StepsLeftAfter DEF OfDestructor, OfClose
  <2> QED
    BY <2>4, <2>5, <2>6
<1>2. CASE NextStatement
  <2>1. /\ At("statements") /\ conn' = conn
        /\ IF conn[pc.conn].statements = << >> THEN GoTo("descriptors")
           ELSE pc' = Deleting(pc.call, pc.conn, Head(conn[pc.conn].statements),
                               "~OdbcStatement")
    BY <1>2 DEF NextStatement
  <2>2. /\ pc # Idle /\ pc \in Deletions /\ pc.conn \in Conns /\ pc.step = "statements"
        /\ pc.call # "SQLFreeStmt" /\ n \in Nat
        /\ pc.call \in {"SQLFreeStmt", "SQLDisconnect", "SQLFreeConnect"}
    BY <2>1, UnderWay, ListLength DEF Steps, StatementSteps
  <2>3. StepsLeft = 0 + (7 * n + 3)
    BY <2>2, StepsLeftOf DEF OfDestructor, OfClose
  <2>4. CASE conn[pc.conn].statements = << >>
    <3>1. /\ pc' # Idle /\ pc'.step = "descriptors" /\ pc'.call = pc.call
      BY <2>1, <2>2, <2>4, GoToType DEF Steps
    <3>2. StepsLeft' = 0 + 2
      BY <2>2, <3>1, StepsLeftAfter DEF OfDestructor, OfClose
    <3> QED
      BY <2>3, <2>4, <3>2
  <2>5. CASE conn[pc.conn].statements # << >>
    <3> DEFINE s == Head(conn[pc.conn].statements)
    <3>1. s \in Stmts
      <4>1. conn[pc.conn].statements \in Seq(Attached(pc.conn) \ HalfDeleted)
        BY <2>2 DEF HandlesInv, AttachedInv, Holds
      <4> QED
        BY <2>5, <4>1 DEF Attached
    <3> HIDE DEF s
    <3>2. /\ pc' # Idle /\ pc'.step = "~OdbcStatement" /\ pc'.conn = pc.conn
          /\ pc'.call = pc.call
      <4>1. pc' = Deleting(pc.call, pc.conn, s, "~OdbcStatement")
        BY <2>1, <2>5 DEF s
      <4> QED
        BY <2>2, <3>1, <4>1, DeletingType DEF Steps
    <3>3. StepsLeft' = 6 + (7 * (n - 1) + 3)
      BY <2>1, <2>2, <3>2, StepsLeftAfter DEF OfDestructor, OfClose
    <3> QED
      BY <2>2, <2>3, <3>3
  <2> QED
    BY <2>4, <2>5
<1>3. CASE StatementDeleted
  <2>1. /\ At("~OdbcStatement") /\ GoTo("releaseStatement")
        /\ conn' = [conn EXCEPT ![pc.conn].statements = RemoveFirst(@, pc.stmt)]
    BY <1>3 DEF StatementDeleted
  <2>2. /\ pc # Idle /\ pc \in Deletions /\ pc.conn \in Conns /\ pc.step = "~OdbcStatement"
        /\ pc.stmt \in Attached(pc.conn) /\ n \in Nat
    BY <2>1, UnderWay, ListLength DEF Steps, StatementSteps
  <2>3. /\ pc' # Idle /\ pc'.step = "releaseStatement" /\ pc'.conn = pc.conn
        /\ pc'.call = pc.call
    BY <2>1, <2>2, GoToType DEF Steps
  <2>4. Len(conn'[pc.conn].statements) = n - 1
    <3>1. HalfDeleted = {}
      BY <2>2 DEF HalfDeleted, At
    <3>2. Holds(conn[pc.conn].statements, Attached(pc.conn))
      BY <2>2, <3>1 DEF HandlesInv, AttachedInv
    <3>3. Len(RemoveFirst(conn[pc.conn].statements, pc.stmt)) = n - 1
      BY <2>2, <3>2, HoldsRemove
    <3>4. conn'[pc.conn].statements = RemoveFirst(conn[pc.conn].statements, pc.stmt)
      BY <2>1, <2>2, TypeNamed DEF HandlesInv, Connections
    <3> QED
      BY <3>3, <3>4
  <2>5. StepsLeft = 6 + (IF pc.call = "SQLFreeStmt" THEN 0 ELSE 7 * (n - 1) + 3)
    BY <2>2, StepsLeftOf DEF OfDestructor, OfClose
  <2>6. StepsLeft' = 5 + (IF pc.call = "SQLFreeStmt" THEN 0 ELSE 7 * (n - 1) + 3)
    BY <2>2, <2>3, <2>4, StepsLeftAfter DEF OfDestructor, OfClose
  <2> QED
    BY <2>2, <2>5, <2>6
<1>4. CASE ReleaseStatement
  <2>1. At("releaseStatement") /\ GoTo("~OdbcDesc") /\ conn' = conn
    BY <1>4 DEF ReleaseStatement
  <2>2. /\ pc # Idle /\ pc \in Deletions /\ pc.conn \in Conns /\ pc.left = 4
        /\ pc.step = "releaseStatement" /\ n \in Nat
    BY <2>1, UnderWay, ListLength DEF Steps, StatementSteps
  <2>3. /\ pc' # Idle /\ pc'.step = "~OdbcDesc" /\ pc'.conn = pc.conn
        /\ pc'.call = pc.call /\ pc'.left = 4
    BY <2>1, <2>2, GoToType DEF Steps
  <2>4. StepsLeft = 5 + (IF pc.call = "SQLFreeStmt" THEN 0 ELSE 7 * n + 3)
    BY <2>2, StepsLeftOf DEF OfDestructor, OfClose
  <2>5. StepsLeft' = 4 + (IF pc.call = "SQLFreeStmt" THEN 0 ELSE 7 * n + 3)
    BY <2>1, <2>2, <2>3, StepsLeftAfter DEF OfDestructor, OfClose
  <2> QED
    BY <2>2, <2>4, <2>5
<1>5. CASE DescriptorDeleted
  <2>1. /\ At("~OdbcDesc")
        /\ conn' = [conn EXCEPT ![pc.conn].descriptors = RemoveFirst(@, <<pc.stmt, pc.left>>)]
        /\ IF pc.left > 1 THEN pc' = [pc EXCEPT !.left = @ - 1]
           ELSE pc' = IF pc.call = "SQLFreeStmt" THEN Idle
                      ELSE Deleting(pc.call, pc.conn, NoStmt, "statements")
    BY <1>5 DEF DescriptorDeleted
  <2>2. /\ pc # Idle /\ pc \in Deletions /\ pc.conn \in Conns /\ pc.left \in 1 .. 4
        /\ pc.step = "~OdbcDesc" /\ n \in Nat
        /\ pc.call \in {"SQLFreeStmt", "SQLDisconnect", "SQLFreeConnect"}
    BY <2>1, UnderWay, ListLength DEF Steps, StatementSteps, Kinds
  <2>3. conn'[pc.conn].statements = conn[pc.conn].statements
    BY <2>1, <2>2, TypeNamed DEF HandlesInv, Connections
  <2>4. StepsLeft = pc.left + (IF pc.call = "SQLFreeStmt" THEN 0 ELSE 7 * n + 3)
    BY <2>2, StepsLeftOf DEF OfDestructor, OfClose
  <2>5. CASE pc.left > 1
    <3>1. /\ pc'.step = "~OdbcDesc" /\ pc'.conn = pc.conn /\ pc'.call = pc.call
          /\ pc'.left = pc.left - 1
      BY <2>1, <2>2, <2>5 DEF Deletions
    <3>2. pc' # Idle
      BY <3>1 DEF Idle
    <3>3. OfDestructor' = pc.left - 1
      BY <3>1 DEF OfDestructor
    <3>4. OfClose' = 7 * n + 3
      BY <2>3, <3>1 DEF OfClose
    <3>5. StepsLeft' = OfDestructor' + (IF pc.call = "SQLFreeStmt" THEN 0 ELSE OfClose')
      BY <3>1, <3>2 DEF StepsLeft
    <3> DEFINE close == IF pc.call = "SQLFreeStmt" THEN 0 ELSE 7 * n + 3
    <3>6. close \in Int /\ pc.left \in Int
      BY <2>2
    <3>7. StepsLeft = pc.left + close /\ StepsLeft' = (pc.left - 1) + close
      BY <2>4, <3>3, <3>4, <3>5
    <3> HIDE DEF close
    <3> QED
      BY <3>6, <3>7
  <2>6. CASE ~(pc.left > 1) /\ pc.call = "SQLFreeStmt"
    <3>1. StepsLeft' = 0
      BY <2>1, <2>6 DEF StepsLeft
    <3> QED
      BY <2>2, <2>4, <2>6, <3>1
  <2>7. CASE ~(pc.left > 1) /\ pc.call # "SQLFreeStmt"
    <3>1. /\ pc' # Idle /\ pc'.step = "statements" /\ pc'.conn = pc.conn
          /\ pc'.call = pc.call
      BY <2>1, <2>2, <2>7, DeletingType DEF Steps
    <3>2. OfDestructor' = 0 /\ OfClose' = 7 * n + 3
      BY <2>2, <2>3, <3>1 DEF OfDestructor, OfClose
    <3>3. StepsLeft' = OfDestructor' + OfClose'
      BY <2>7, <3>1, StepsLeftAfter
    <3> QED
      BY <2>2, <2>4, <2>7, <3>2, <3>3
  <2> QED
    BY <2>5, <2>6, <2>7
<1>6. CASE NextDescriptor
  <2>1. /\ At("descriptors")
        /\ conn[pc.conn].descriptors = << >> => GoTo("connection")
    BY <1>6 DEF NextDescriptor
  <2>2. /\ pc # Idle /\ pc \in Deletions /\ pc.conn \in Conns /\ pc.step = "descriptors"
        /\ pc.call # "SQLFreeStmt" /\ Attached(pc.conn) = {}
    BY <2>1, UnderWay DEF Steps, StatementSteps
  <2>3. conn[pc.conn].descriptors = << >>
    BY <2>2, NoDescriptorLeft
  <2>4. pc' # Idle /\ pc'.step = "connection" /\ pc'.call = pc.call
    BY <2>1, <2>2, <2>3, GoToType DEF Steps
  <2>5. StepsLeft = 0 + 2
    BY <2>2, StepsLeftOf DEF OfDestructor, OfClose
  <2>6. StepsLeft' = 0 + 1
    BY <2>2, <2>4, StepsLeftAfter DEF OfDestructor, OfClose
  <2> QED
    BY <2>5, <2>6
<1>7. CASE CloseSession
  <2>1. At("connection") /\ pc' = Idle
    BY <1>7 DEF CloseSession
  <2>2. pc # Idle /\ pc.step = "connection" /\ pc.call # "SQLFreeStmt"
    BY <2>1, UnderWay DEF Steps, StatementSteps
  <2>3. StepsLeft = 0 + 1
    BY <2>2, StepsLeftOf DEF OfDestructor, OfClose
  <2>4. StepsLeft' = 0
    BY <2>1 DEF StepsLeft
  <2> QED
    BY <2>3, <2>4
<1> QED
  BY <1>1, <1>2, <1>3, <1>4, <1>5, <1>6, <1>7 DEF Delete

LEMMA DeletionSteps ==
  ASSUME HandlesInv, [Next]_vars
  PROVE  [pc # Idle => StepsLeft' = StepsLeft - 1]_vars
<1>1. CASE Delete
  BY <1>1, OneStepLess
<1>2. CASE Next /\ ~Delete
  <2>1. pc = Idle
    BY <1>2 DEF Next, AllocEnv, FreeEnv, AllocConnection, Connect, SQLEndTran,
                SQLDisconnect, SQLFreeConnect, AllocStatement, SQLPrepare, SQLExecute,
                SQLFreeStmt, SQLSetDescField
  <2> QED
    BY <2>1
<1> QED
  BY <1>1, <1>2

\* Spec => CountsDown /\ []StepsLeftExact: a disconnect or a free of n statements takes
\* seven steps for each and four for the rest, and every step is one of them, so the loops
\* of close() end for any number of statements, in whatever order they were allocated.
THEOREM DeletionCountsDown == Spec => CountsDown /\ []StepsLeftExact
<1>1. HandlesInv /\ [Next]_vars => [pc # Idle => StepsLeft' = StepsLeft - 1]_vars
  BY DeletionSteps
<1> QED
  BY <1>1, InitInv, HandlesNext, StepsLeftType, PTL DEF Spec, CountsDown

-----------------------------------------------------------------------------
\* A destructor that comes to the records of a descriptor finds only what was set.
DestructorGoesOn ==
  At("~OdbcDesc") /\ pc.left = 1 => recordsDeleted(stmt[pc.stmt].records)

RecordsSet == \A s \in Stmts : recordsDeleted(stmt[s].records)

LEMMA GrownRecordsSet ==
  ASSUME NEW records \in Seq(Slots), NEW n \in 1 .. MaxRecord, NEW fresh \in Fresh,
         fresh # "wild", recordsDeleted(records)
  PROVE  recordsDeleted(getDescRecord(records, n, fresh))
<1> DEFINE more == [i \in 1 .. n + Slack - Len(records) |-> fresh]
           g == grown(records, n, fresh)
<1>1. /\ Len(records) \in Nat /\ n \in Nat /\ Slack \in Nat
      /\ fresh \in Slots
  BY BoundsAssumption, FreshAssumption DEF Slots
<1>2. g \in Seq(Slots) /\ recordsDeleted(g)
  <2>1. CASE n < Len(records)
    BY <2>1 DEF grown
  <2>2. CASE ~(n < Len(records))
    <3>1. /\ more \in Seq(Slots) /\ Len(more) = n + Slack - Len(records)
          /\ \A i \in 1 .. Len(more) : more[i] = fresh
      BY <1>1, <2>2
    <3>2. g = records \o more
      BY <2>2 DEF grown
    <3> HIDE DEF more, g
    <3>3. /\ g \in Seq(Slots) /\ Len(g) = Len(records) + Len(more)
          /\ \A i \in 1 .. Len(records) + Len(more) :
               g[i] = IF i <= Len(records) THEN records[i] ELSE more[i - Len(records)]
      BY <3>1, <3>2, ConcatProperties
    <3>4. ASSUME NEW i \in 1 .. Len(g)
          PROVE  g[i] # "wild"
      <4>1. CASE i <= Len(records)
        BY <1>1, <3>1, <3>3, <4>1 DEF recordsDeleted
      <4>2. CASE ~(i <= Len(records))
        <5>1. i - Len(records) \in 1 .. Len(more)
          BY <1>1, <3>1, <3>3, <4>2
        <5> QED
          BY <3>1, <3>3, <4>2, <5>1
      <4> QED
        BY <4>1, <4>2
    <3> QED
      BY <3>3, <3>4 DEF recordsDeleted
  <2> QED
    BY <2>1, <2>2
<1> HIDE DEF g
<1>3. getDescRecord(records, n, fresh)
        = [g EXCEPT ![n + 1] = IF @ = "null" THEN "record" ELSE @]
  BY DEF getDescRecord, g
<1> QED
  BY <1>2, <1>3 DEF recordsDeleted

LEMMA RecordsSetStep ==
  ASSUME "wild" \notin Fresh, HandlesInv, RecordsSet, [Next]_vars
  PROVE  RecordsSet'
<1>1. stmt \in [Stmts -> Statements]
  BY TypeNamed DEF HandlesInv
<1>2. CASE stmt' = stmt
  BY <1>2 DEF RecordsSet
<1>3. ASSUME NEW s \in Stmts, NEW n \in 1 .. MaxRecord, SQLSetDescField(s, n)
      PROVE  RecordsSet'
  <2>1. PICK fresh \in Fresh :
          stmt' = [stmt EXCEPT ![s].records = getDescRecord(@, n, fresh)]
    BY <1>3 DEF SQLSetDescField
  <2>2. stmt[s].records \in Seq(Slots) /\ recordsDeleted(stmt[s].records)
    BY <1>1 DEF Statements, RecordsSet
  <2>3. recordsDeleted(getDescRecord(stmt[s].records, n, fresh))
    BY <2>2, GrownRecordsSet
  <2>4. \A r \in Stmts : stmt'[r].records = IF r = s
                           THEN getDescRecord(stmt[s].records, n, fresh)
                           ELSE stmt[r].records
    BY <1>1, <2>1 DEF Statements
  <2> QED
    BY <2>3, <2>4 DEF RecordsSet
<1>4. ASSUME NEW s \in Stmts, NEW c \in Conns, AllocStatement(s, c)
      PROVE  RecordsSet'
  <2>1. stmt' = [stmt EXCEPT ![s] = [NoStatement EXCEPT !.connection = c]]
    BY <1>4 DEF AllocStatement
  <2>2. \A r \in Stmts : stmt'[r].records = IF r = s THEN << >> ELSE stmt[r].records
    BY <1>1, <2>1 DEF NoStatement
  <2> QED
    BY <2>2 DEF RecordsSet, recordsDeleted
<1>5. ASSUME NEW s \in Stmts, NEW b \in BOOLEAN, stmt' = [stmt EXCEPT ![s].statement = b]
      PROVE  RecordsSet'
  <2>1. \A r \in Stmts : stmt'[r].records = stmt[r].records
    BY <1>1, <1>5 DEF Statements
  <2> QED
    BY <2>1 DEF RecordsSet
<1>6. ASSUME NEW s \in Stmts, NEW c \in Conns, SQLPrepare(s, c)
      PROVE  RecordsSet'
  <2>1. \/ stmt' = [stmt EXCEPT ![s].statement = TRUE]
        \/ stmt' = [stmt EXCEPT ![s].statement = FALSE]
    BY <1>6 DEF SQLPrepare
  <2> QED
    BY <1>5, <2>1
<1>7. CASE ReleaseStatement
  <2>1. At("releaseStatement") /\ stmt' = [stmt EXCEPT ![pc.stmt].statement = FALSE]
    BY <1>7 DEF ReleaseStatement
  <2>2. pc.stmt \in Stmts
    BY <2>1, UnderWay DEF Steps, StatementSteps, Attached
  <2> QED
    BY <1>5, <2>1, <2>2
<1>8. CASE DescriptorDeleted
  <2>1. At("~OdbcDesc") /\ (stmt' = stmt \/ stmt' = [stmt EXCEPT ![pc.stmt] = NoStatement])
    BY <1>8 DEF DescriptorDeleted
  <2>2. pc.stmt \in Stmts
    BY <2>1, UnderWay DEF Steps, StatementSteps, Attached
  <2>3. CASE stmt' = [stmt EXCEPT ![pc.stmt] = NoStatement]
    <3>1. \A r \in Stmts : stmt'[r].records = IF r = pc.stmt THEN << >> ELSE stmt[r].records
      BY <1>1, <2>2, <2>3 DEF NoStatement
    <3> QED
      BY <3>1 DEF RecordsSet, recordsDeleted
  <2> QED
    BY <1>2, <2>1, <2>3
<1>9. CASE \/ AllocEnv \/ FreeEnv \/ LeaveEnv \/ NextStatement \/ StatementDeleted
           \/ NextDescriptor \/ CloseSession
  BY <1>2, <1>9 DEF AllocEnv, FreeEnv, LeaveEnv, NextStatement, StatementDeleted,
                    NextDescriptor, CloseSession
<1>10. ASSUME NEW c \in Conns,
              \/ AllocConnection(c) \/ Connect(c) \/ SQLEndTran(c)
              \/ SQLDisconnect(c) \/ SQLFreeConnect(c) \/ \E s \in Stmts : SQLExecute(s, c)
       PROVE  RecordsSet'
  BY <1>2, <1>10 DEF AllocConnection, Connect, SQLEndTran, SQLDisconnect, SQLFreeConnect,
                     SQLExecute
<1>11. ASSUME NEW s \in Stmts, SQLFreeStmt(s)
       PROVE  RecordsSet'
  BY <1>2, <1>11 DEF SQLFreeStmt
<1>12. CASE UNCHANGED vars
  BY <1>2, <1>12 DEF vars
<1> QED
  BY <1>3, <1>4, <1>6, <1>7, <1>8, <1>9, <1>10, <1>11, <1>12 DEF Next, Delete

\* Spec => []DestructorGoesOn where new arrays hold null: the pointers that
\* OdbcDesc::getDescRecord leaves unset are the one thing a destructor can come to grief
\* over, since no other step of Delete has a condition.
THEOREM DestructorGoesOnCorrect ==
  ASSUME "wild" \notin Fresh
  PROVE  Spec => []DestructorGoesOn
<1>1. Init => HandlesInv /\ RecordsSet
  BY InitInv DEF Init, RecordsSet, recordsDeleted, NoStatement
<1>2. HandlesInv /\ RecordsSet /\ [Next]_vars => HandlesInv' /\ RecordsSet'
  BY HandlesNext, RecordsSetStep
<1>3. HandlesInv /\ RecordsSet => DestructorGoesOn
  <2> SUFFICES ASSUME HandlesInv, RecordsSet, At("~OdbcDesc")
               PROVE  recordsDeleted(stmt[pc.stmt].records)
    BY DEF DestructorGoesOn
  <2>1. pc.stmt \in Stmts
    BY UnderWay DEF Steps, StatementSteps, Attached
  <2> QED
    BY <2>1 DEF RecordsSet
<1> QED
  BY <1>1, <1>2, <1>3, PTL DEF Spec
=============================================================================
