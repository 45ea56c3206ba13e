------------------------------ MODULE MCConnect ------------------------------
(***************************************************************************)
(* For TLC: a data source whose database is put together from its entries, *)
(* and one that says nothing of the user; strings that name parameters, by *)
(* either keyword, take them back, and name what the driver does not know. *)
(***************************************************************************)
EXTENDS OdbcConnect

MCWords == {"@", ":", "NuoDB ODBC Driver", "{", "}", "a", "b", "db", "host", "48004",
            "dba", "goalie", "user", "secret", "hockey"}

NoEntries == [e \in Entries |-> Empty]
MCSources ==
  <<"a">> :> [NoEntries EXCEPT !["Database"] = <<"db">>, !["ServerName"] = <<"host">>,
                               !["Port"] = <<"48004">>, !["User"] = <<"dba">>,
                               !["Password"] = <<"goalie">>]
  @@ <<"b">> :> [NoEntries EXCEPT !["Dbname"] = <<"hockey">>, !["Database"] = <<"db">>,
                                  !["Schema"] = <<"user">>]

Says(name, value) == [name |-> name, value |-> value]
MCStrings ==
  {<<Says("DSN", <<"a">>)>>,
   <<Says("DSN", <<"b">>), Says("SCHEMA", <<"hockey">>)>>,
   <<Says("UID", <<"user">>), Says("PWD", <<"secret">>)>>,
   <<Says("UIC", Empty), Says("other", <<"host">>)>>,
   <<Says("DATABASE", <<"{", "hockey", "}">>), Says("UID", <<"dba">>), Says("UIC", <<"user">>)>>,
   <<Says("DRIVER", <<"{", "}">>)>>}
MCNames == {Empty, <<"user">>}

Answers ==
  <<Says("UIC", <<"user">>), Says("PWD", <<"secret">>), Says("DSN", <<"b">>),
    Says("DRIVER", <<"NuoDB ODBC Driver">>)>>
MCAnswer ==
  [asked \in SUBSET DOMAIN askedAs |->
    SelectSeq(Answers, LAMBDA pair : \E p \in asked : pair.name = askedAs[p])]
=============================================================================
