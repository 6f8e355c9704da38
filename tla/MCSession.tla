------------------------------ MODULE MCSession ------------------------------
(* Catalog and its connection on an instance TLC can enumerate.            *)
EXTENDS Catalog

Key(k, v) == <<k, "=", v, ";">>
Login == Key("uid", "k1") \o Key("pwd", "s1")

\* Plain; partly given, with a number that cannot be read in the middle; the schema,
\* and a second project; quoted, blank and lost parameters; for SQLConnect; no "=".
MCConnectStrings ==
  {Key("server", "e1") \o Key("project", "p1") \o Login,
   Key("project", "p2") \o Key("readtimeout", "soon") \o Key("uid", "k2"),
   Key("schema", "s_1") \o Key("uid", "") \o Key("server", "e2"),
   Key("namespaceschema", "false") \o <<"project", "=", Quote, "p3", Quote, ";">> \o Login,
   Key("endpoint", "e1") \o Key("project", "p1") \o Key("schema", "s_1")
     \o Key("accesskeyid", "k3") \o Key("accesskeysecret", "s3")
     \o <<"interactivemode", "=", Blank, "true">>,
   <<"warehouse">>}

Nothing == [endpoint |-> NoValue, project |-> NoValue, accessKeyId |-> NoValue,
            accessKeySecret |-> NoValue, proxy |-> NoValue]

MCEnvironments ==
  {Nothing,
   [endpoint |-> <<"e9">>, project |-> <<"p9">>, accessKeyId |-> <<"k9">>,
    accessKeySecret |-> <<"s9">>, proxy |-> <<"url">>]}

MCUrlUsers == [url |-> "u9"]
MCUsers == {<< >>, <<"k4">>}
MCPasswords == {<< >>}
MCTableNames == <<"ta", "tb", "xc">>
MCInitialTables ==
  {[default |-> {1, 2, 3}, s_1 |-> {1}]}
MCLike == ("t%" :> {"ta", "tb"}) @@ ("s_1" :> {"s_1"}) @@ ("%fault" :> {"default"})
MCTypeArgs == {{}, {"VIEW"}}
MCColumns == <<"c1", "c2">>
MCPartitionColumns == <<"p">>
=============================================================================
