------------------------------ MODULE MCHandles ------------------------------
(* Two connections of one environment share two statement handles. *)
EXTENDS OdbcHandles
==============================================================================
