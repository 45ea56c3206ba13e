----------------------------- MODULE MCTypeInfo -----------------------------
(* Results in which a type of the database and the type it is mapped to occur *)
(* together, one after another and around others.                            *)
EXTENDS TypeInfo

MCResults == {<< >>, <<"INTEGER">>, <<"BLOB", "LONGVARBINARY">>,
              <<"INTEGER", "LONGVARBINARY", "BLOB", "INTEGER">>,
              <<"CLOB", "INTEGER", "INTEGER">>}
=============================================================================
