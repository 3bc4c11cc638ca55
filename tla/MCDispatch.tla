----------------------------- MODULE MCDispatch -----------------------------
(* An instance of Dispatch for TLC. *)
EXTENDS Dispatch

CONSTANTS p1, p2   \* two plugins

MCContents ==
  {<<>>, <<<<"login", 1>>, <<"check", 0>>>>, <<<<"check", 1>>, <<"unknown", 0>>>>,
   <<<<"login", 0>>, <<"login", 1>>>>, <<<<"login", 1>>, <<"check", 1>>, <<"login", 0>>>>}
MCHandled == p1 :> <<"login">> @@ p2 :> <<"check", "login">>
=============================================================================
