--------------------------- MODULE MCHttpSession ---------------------------
(***************************************************************************)
(* Instances of HttpSession for TLC: a server, another port of its host,   *)
(* and another host.                                                       *)
(***************************************************************************)
EXTENDS HttpSession

MCOrigin == [host |-> "a", port |-> 80]
MCServers == {MCOrigin, [host |-> "a", port |-> 81], [host |-> "b", port |-> 80]}
Network == {"close", "net"}
=============================================================================
