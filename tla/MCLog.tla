------------------------------- MODULE MCLog -------------------------------
(* Small instances of Log.                                                 *)
EXTENDS Log

CONSTANTS t1, t2, n1, f0, f1

Two == {t1, t2}
JustT1 == {t1}
TwoNames == {n1, Root}
TwoFormats == {f0, f1}

File(pattern) == [type |-> 1, formatter |-> pattern]
Stdout == [type |-> 2, formatter |-> NoFormat]
D(level, pattern, apps) == [level |-> level, formatter |-> pattern, appenders |-> apps]
Conf(a, b) == [n \in Names |-> IF n = n1 THEN a ELSE b]

\* n1 comes, is changed in nothing but its appenders, alone and together with the root,
\* and goes; the root logger is configured, changed and left without one.
SomeConfigs ==
    {Conf(D(2, f1, <<File(NoFormat), Stdout>>), Null),
     Conf(D(2, f1, <<Stdout>>), Null),
     Conf(D(2, f1, <<Stdout>>), D(1, NoFormat, <<Stdout>>)),
     Conf(Null, D(4, NoFormat, <<File(f1), File(BadFormat)>>))}

\* The levels of the events: some below and some above those of the loggers.
TwoLevels == {1, 4}
=============================================================================
