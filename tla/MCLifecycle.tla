---------------------------- MODULE MCLifecycle ----------------------------
(* An instance of Lifecycle for TLC: every config.ini of up to two of      *)
(* these lines.                                                            *)
EXTENDS Lifecycle, SequencesExt

Lines == {Line("DataBase.Login", 1, FALSE), Line("DataBase.Login", 1, TRUE),
          Line("DataBase_Login", 1, FALSE), Line("Thread.DataBase.Fast", 2, FALSE),
          Line("Thread.DataBase.Fast", 0, FALSE), Line("Thread.DataBase.Slow", 1, FALSE),
          Word("Thread.DataBase.Fast", TRUE), Word("Thread.Httpd", FALSE),
          EmptyLine("Thread.Httpd"), EmptyLine("DataBase.Login"),
          Line("Thread.Httpd", 2, FALSE), Line("Net.Ports.Httpd", 2, FALSE),
          Line("Net.Ports.Game", 8080, FALSE)}
MCFiles == BoundedSeq(Lines, 2)
=============================================================================
