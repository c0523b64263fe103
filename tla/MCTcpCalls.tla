----------------------------- MODULE MCTcpCalls -----------------------------
(***************************************************************************)
(* An instance of TcpCalls for TLC: three connections, lines of one to    *)
(* three pieces, the last one whole or not.                                *)
(***************************************************************************)
EXTENDS TcpCalls

MCSizes == {1, 4, 5}
=============================================================================
