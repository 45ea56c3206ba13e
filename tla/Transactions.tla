---------------------------- MODULE Transactions ----------------------------
(***************************************************************************)
(* What an application may rely on about the transactions of its sessions: *)
(* work is left open only in a session it has put into manual commit mode; *)
(* it ends by itself never, and a session that holds open work is neither  *)
(* closed nor lost.                                                        *)
(***************************************************************************)
CONSTANT Conns

VARIABLES
  sessions, \* the connections with an open session
  manual,   \* those whose session does not commit each statement
  work      \* those whose session holds open work

vars == <<sessions, manual, work>>

Init == sessions = {} /\ manual = {} /\ work = {}

\* A session begins in autocommit mode.
Open(c) ==
  /\ c \notin sessions
  /\ sessions' = sessions \cup {c}
  /\ UNCHANGED <<manual, work>>

\* Another mode; the database may commit what was open.
Switch(c) ==
  /\ c \in sessions
  /\ manual' \in {manual \cup {c}, manual \ {c}}
  /\ work' \in {work, work \ {c}}
  /\ UNCHANGED sessions

Begin(c) ==
  /\ c \in manual
  /\ work' = work \cup {c}
  /\ UNCHANGED <<sessions, manual>>

\* Committed or rolled back.
End(c) ==
  /\ c \in sessions
  /\ work' = work \ {c}
  /\ UNCHANGED <<sessions, manual>>

Close(c) ==
  /\ c \in sessions \ work
  /\ sessions' = sessions \ {c}
  /\ manual' = manual \ {c}
  /\ UNCHANGED work

Next == \E c \in Conns : Open(c) \/ Switch(c) \/ Begin(c) \/ End(c) \/ Close(c)

Spec == Init /\ [][Next]_vars
=============================================================================
