------------------------------ MODULE MCGetData ------------------------------
(* A row of three columns: one of characters, one binary or wide, one fixed. *)
EXTENDS GetData

MCCType == <<"char", "wide", "fixed">>
MCLengths == <<{0, 1, 3}, {0, 4}, {0}>>
MCBuffers == <<{1, 2, 3}, {2, 4}, {4}>>
MCBound == <<2, -1, -1>>
=============================================================================
