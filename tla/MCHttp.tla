------------------------------- MODULE MCHttp -------------------------------
(***************************************************************************)
(* The files and the request for the instance of HttpTransfer: a file, and *)
(* a directory whose name is the start of the name of the file.            *)
(***************************************************************************)
EXTENDS HttpTransfer, TLC

Path == <<"f", "g">>
SomeFiles ==
  (<<"f", "g">> :> <<"a", "\r", "b", "c", "d", "e", "f">>)
  @@ (<<"f">> :> <<>>)
Directories == {<<"f">>}
Headers == <<"host">>
Strings == STRING
==============================================================================
