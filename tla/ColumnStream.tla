----------------------------- MODULE ColumnStream -----------------------------
(***************************************************************************)
(* What reading a column in pieces promises: the pieces of a value follow  *)
(* one another without a gap or a repetition, each says whether more is to *)
(* come, and the end is reported only when all of the value was delivered. *)
(* After the end the value may be read again from its start.               *)
(***************************************************************************)
EXTENDS Integers

CONSTANTS
  Columns, \* the columns of a row
  Rows     \* the rows a cursor may stand on: a length for each column, or
           \* Whole for a value that is delivered in one piece

Whole == -1
NoRow == << >>

VARIABLES
  row,   \* the row the cursor stands on
  pos,   \* how much of each value was delivered
  reply  \* the last reply

vars == <<row, pos, reply>>

Start == [c \in Columns |-> 0]
Silence == [kind |-> "none"]

Init == row = NoRow /\ pos = Start /\ reply = Silence

\* The cursor moves to another row, or goes away.
Move ==
  /\ row' \in Rows \cup {NoRow}
  /\ pos' = Start
  /\ reply' = Silence

Read(c) == row # NoRow /\ row[c] # Whole

\* A piece of n bytes; an empty one only before the first byte.
Piece(c, n) ==
  /\ Read(c)
  /\ n <= row[c] - pos[c]
  /\ n > 0 \/ pos[c] = 0
  /\ pos' = [pos EXCEPT ![c] = @ + n]
  /\ reply' = [kind |-> IF pos[c] + n < row[c] THEN "more" ELSE "last",
               column |-> c, from |-> pos[c], bytes |-> n]
  /\ UNCHANGED row

End(c) ==
  /\ Read(c)
  /\ pos[c] = row[c]
  /\ pos' = [pos EXCEPT ![c] = 0]
  /\ reply' = [kind |-> "end", column |-> c]
  /\ UNCHANGED row

ReadWhole(c) ==
  /\ row # NoRow
  /\ row[c] = Whole
  /\ reply' = [kind |-> "whole", column |-> c]
  /\ UNCHANGED <<row, pos>>

Next ==
  \/ Move
  \/ \E c \in Columns : Read(c) /\ \E n \in 0 .. row[c] : Piece(c, n)
  \/ \E c \in Columns : End(c) \/ ReadWhole(c)

Spec == Init /\ [][Next]_vars
=============================================================================
