---------------------------- MODULE ClientObjects ----------------------------
(***************************************************************************)
(* How the objects of the client library are to be used: a statement is    *)
(* prepared on an open session and closed once, before its session is; a   *)
(* session is closed once.  A session that could not commit is left alone, *)
(* and its statements may still be closed.                                 *)
(***************************************************************************)
CONSTANTS
  Conns,  \* who opens sessions, one at a time
  Stmts   \* who prepares statements, one at a time

VARIABLES
  session,    \* the session of each: none yet, open, closed, or left alone
  statements, \* the open statements: who prepared it, and on whose session
  misused     \* whether an object was ever used that is not open

vars == <<session, statements, misused>>

States == {"none", "open", "closed", "abandoned"}
StatementsOf(c) == {p \in statements : p[2] = c}

Init ==
  /\ session = [c \in Conns |-> "none"]
  /\ statements = {}
  /\ misused = FALSE

Open(c) ==
  /\ session[c] # "open" /\ StatementsOf(c) = {}
  /\ session' = [session EXCEPT ![c] = "open"]
  /\ UNCHANGED <<statements, misused>>

\* One that prepares again has closed the statement before.
Prepare(s, c) ==
  /\ session[c] = "open"
  /\ \A d \in Conns : <<s, d>> \notin statements
  /\ statements' = statements \cup {<<s, c>>}
  /\ UNCHANGED <<session, misused>>

Close(s, c) ==
  /\ session[c] \in {"open", "abandoned"}
  /\ <<s, c>> \in statements
  /\ statements' = statements \ {<<s, c>>}
  /\ UNCHANGED <<session, misused>>

CloseSession(c) ==
  /\ session[c] = "open" /\ StatementsOf(c) = {}
  /\ session' = [session EXCEPT ![c] = "closed"]
  /\ UNCHANGED <<statements, misused>>

Abandon(c) ==
  /\ session[c] = "open"
  /\ session' = [session EXCEPT ![c] = "abandoned"]
  /\ UNCHANGED <<statements, misused>>

Next ==
  \/ \E c \in Conns : Open(c) \/ CloseSession(c) \/ Abandon(c)
  \/ \E s \in Stmts, c \in Conns : Prepare(s, c) \/ Close(s, c)

Spec == Init /\ [][Next]_vars
==============================================================================
