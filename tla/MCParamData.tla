----------------------------- MODULE MCParamData -----------------------------
(* One parameter of text or bytes, and one of a type the driver cannot set. *)
EXTENDS ParamData

MCCType == <<"char", "unsupported">>
MCIndicators ==
  <<{1, SQL_DATA_AT_EXEC, SQL_LEN_DATA_AT_EXEC(2)}, {1, SQL_NULL_DATA, SQL_DATA_AT_EXEC}>>
MCPieces == <<{0, 1, 3, SQL_NTS}, {1, SQL_NULL_DATA}>>
=============================================================================
