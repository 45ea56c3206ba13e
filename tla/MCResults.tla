------------------------------ MODULE MCResults ------------------------------
(* Procedures and queries with and without result sets, rowsets of one row and *)
(* of more, on results shorter and longer than a rowset.                       *)
EXTENDS ExecutionResults
==============================================================================
