---------------------------- MODULE MCLexicalCast ----------------------------
(***************************************************************************)
(* LexicalCast for TLC: documents for one variable or two, and for the     *)
(* definitions of up to two loggers.                                       *)
(***************************************************************************)
EXTENDS LexicalCast, TLC

MCInts == "1" :> 1 @@ "2" :> 2
MCLower == "PORT" :> "port"
MCStrings ==
    {"", "~", "quotes", "1", "2", "x", "system", "port", "PORT", "vec", "set", "logs",
     "name", "level", "formatter", "appenders", "type", "file", "other", "root", "app", "%m", "f",
     "FileLogAppender", "StdoutLogAppender", "info", "bogus"} \cup Range(LevelNames)

MCDefault == system :> <<>> @@ port :> 1 @@ vec :> <<Scalar("")>> @@ set :> {} @@ logs :> {}

UpTo(k, S) == UNION {[1..j -> S] : j \in 0..k}

\* Values of all kinds, good and bad.
Leaves == {Null, Scalar(""), Scalar("1"), Scalar("2"), Scalar("x")}
Sequences == {List(s) : s \in UpTo(2, Leaves)} \cup {List(<<List(<<Scalar("1")>>)>>)}
PortMaps == {Map(<<>>)}
            \cup {Map(<<<<k, n>>>>) : k \in {<<"port">>, <<"PORT">>, <<"x">>}, n \in Leaves}
            \cup {Map(<<<<<<"PORT">>, m>>, <<<<"port">>, n>>>>) : m \in Leaves, n \in Leaves}

\* Documents with one node, or with the map and its key both at the top.
Top(name, nodes) == {Map(<<<<name, n>>>>) : n \in nodes}
SystemDocs ==
    Top(system, PortMaps \cup Leaves)
    \cup Top(system, {List(<<>>), List(<<Scalar("1")>>)})
    \cup {Map(<<<<port, m>>, <<system, n>>>>) : m \in Leaves, n \in PortMaps}

Entry(fields) == Map(fields)
Str(key, t) == <<<<key>>, Scalar(t)>>
Maybe(S) == {<<>>} \cup {<<x>> : x \in S}

Appenders ==
    {Map(f) : f \in {<<>>, <<Str("type", "other")>>, <<Str("type", "StdoutLogAppender")>>,
                     <<Str("type", "FileLogAppender")>>,
                     <<Str("type", "FileLogAppender"), Str("file", "f"), Str("level", "ERROR")>>,
                     <<Str("type", "FileLogAppender"), Str("file", "f"), Str("formatter", "%m")>>}}
AppenderLists == {List(<<a>>) : a \in Appenders \cup {Scalar("x")}} \cup {List(<<>>)}

Loggers ==
    {Null, Scalar("x")} \cup
    {Map(name \o level \o form \o apps) :
        name \in Maybe({Str("name", "root")}),
        level \in Maybe({Str("level", "info")}),
        form \in Maybe({Str("formatter", "%m")}),
        apps \in Maybe({<<<<"appenders">>, l>> : l \in AppenderLists})}
Second == {Scalar("x"), Map(<<Str("name", "root"), Str("level", "WARN")>>),
           Map(<<Str("name", "app"), Str("level", "bogus")>>)}
LogLists == {List(<<>>), Null} \cup {List(<<a>>) : a \in Loggers}
            \cup {List(<<a, b>>) : a \in Loggers, b \in Second}
LogDocs == Top(logs, LogLists)

MCDocuments ==
    SystemDocs \cup Top(vec, Leaves \cup Sequences) \cup Top(set, Leaves \cup Sequences) \cup LogDocs

\* All the nodes in them.
MCNodes ==
    MCDocuments \cup Leaves \cup Sequences \cup PortMaps \cup LogLists \cup Loggers
    \cup Second \cup AppenderLists \cup Appenders \cup Scalars
=============================================================================
