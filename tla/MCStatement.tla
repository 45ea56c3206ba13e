----------------------------- MODULE MCStatement -----------------------------
(***************************************************************************)
(* A statement handle for TLC: queries of two rows, inserts with and       *)
(* without generated keys, procedures with no result or two, rowsets of    *)
(* one or two rows, no limit or one row.                                   *)
(***************************************************************************)
EXTENDS OdbcStatement

MCCallResults == {<< >>, <<1, 1>>}
=============================================================================
