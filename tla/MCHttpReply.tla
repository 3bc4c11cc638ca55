---------------------------- MODULE MCHttpReply ----------------------------
(* An instance of HttpReply for TLC. *)
EXTENDS HttpReply

MCTexts  == {<<"</head>", "<body>", "name", "</body>">>, <<"sign", "players", "text">>}

(* Settings that are plain, that use each other, and that lead back to     *)
(* themselves directly, through a tag, and in a circle.                    *)
Value(n, c, s) == [name |-> n, copyright |-> c, sign |-> s]
MCValues ==
  {Value(<<"text">>, <<"text">>, <<"text">>),
   Value(<<"copyright", "system">>, <<"sign">>, <<"</head>", "text">>),
   Value(<<"text", "system">>, <<"name">>, <<"</head>", "name", "players">>),
   Value(<<"text", "name">>, <<"text">>, <<"text">>),
   Value(<<"text">>, <<"text">>, <<"</body>">>),
   Value(<<"sign">>, <<"text">>, <<"name">>)}
=============================================================================
