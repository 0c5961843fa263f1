------------------------------- MODULE MCHttp -------------------------------
(* Http for TLC: handlers of every shape, and two enums whose codes meet, one from 1. *)
EXTENDS Http

MCApis == {<<>>,
           <<"HttpCredential", "HttpJsonBody">>,
           <<"HttpJsonBody", "HttpRequest", "HttpJsonQuery">>,
           <<"HttpJsonBody", "HttpJsonBody">>}
MCBase == [user |-> 0, post |-> 1]
MCVariants == [user |-> <<NoStatus, 409>>, post |-> <<NoStatus, 65936>>]
MCDefault == [user |-> NoStatus, post |-> 404]
=============================================================================
