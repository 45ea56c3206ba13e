---------------------------- MODULE MCConnection ----------------------------
(***************************************************************************)
(* An environment for TLC whose connections, and whose threads, are        *)
(* interchangeable.                                                        *)
(***************************************************************************)
EXTENDS OdbcConnection, TLC

Interchangeable == Permutations(Conns) \cup Permutations(Threads)
=============================================================================
