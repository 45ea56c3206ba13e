--------------------------- MODULE FilteredCursor ---------------------------
(***************************************************************************)
(* What a cursor over some of the rows of a result promises: it shows the  *)
(* rows it is for, each once and in their order, and reports the end only  *)
(* when there is none left or as many were shown as the application wants. *)
(* An error may take the place of a row, but never more than one.          *)
(***************************************************************************)
EXTENDS Integers, FiniteSets

CONSTANTS
  Places,  \* the places a row may have in a result: numbers
  Limits   \* how many rows an application may want, 0 for all of them

VARIABLES
  wanted,  \* the places of the rows the cursor is for
  limit,   \* how many of them the application wants
  shown,   \* the places of the rows it has shown
  missed,  \* the places of the rows an error stands for
  said     \* the answer to the last call

vars == <<wanted, limit, shown, missed, said>>

\* The rows still to be shown, and whether p is the next of them.
Left == wanted \ (shown \cup missed)
NextLeft(p) == p \in Left /\ \A q \in Left : p <= q
LimitReached == limit > 0 /\ Cardinality(shown) >= limit

Init ==
  /\ wanted = {} /\ shown = {} /\ missed = {}
  /\ limit \in Limits
  /\ said = "nothing"

\* Another cursor is opened, or the call fails and there is none, or this one is
\* closed and shows no more.
Open ==
  /\ wanted' \in SUBSET Places
  /\ limit' \in Limits
  /\ shown' = {} /\ missed' = {}
  /\ said' \in {"nothing", "error"}

Show ==
  /\ ~LimitReached
  /\ \E p \in Places : NextLeft(p) /\ shown' = shown \cup {p}
  /\ said' = "row"
  /\ UNCHANGED <<wanted, limit, missed>>

End ==
  /\ Left = {} \/ LimitReached
  /\ said' = "end"
  /\ UNCHANGED <<wanted, limit, shown, missed>>

Fail ==
  /\ ~LimitReached
  /\ \/ missed' = missed
     \/ \E p \in Places : NextLeft(p) /\ missed' = missed \cup {p}
  /\ said' = "error"
  /\ UNCHANGED <<wanted, limit, shown>>

Next == Open \/ Show \/ End \/ Fail

Spec == Init /\ [][Next]_vars
=============================================================================
