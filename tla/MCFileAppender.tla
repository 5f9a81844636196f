--------------------------- MODULE MCFileAppender ---------------------------
(***************************************************************************)
(* FileAppender for TLC: two loggers that share an appender.               *)
(***************************************************************************)
EXTENDS FileAppender, TLC
=============================================================================
