------------------------------ MODULE MCConfig ------------------------------
(***************************************************************************)
(* An instance of Config for TLC: each variable set or not, BASEURL also   *)
(* to an URL of another scheme.                                            *)
(***************************************************************************)
EXTENDS Config

MCVariables ==
  [PROGSDIR : {<<>>, <<"B", ":">>},
   BASEURL : {<<>>, <<"http://", "mirror", "/">>, <<"ftp://", "mirror", "/">>}]
MCUrls == {<<"http://", "mirror">>, <<"A", ":">>}
AllFaults == {"reset", "full", "dos"}
=============================================================================
