---------------------------- MODULE HttpSession ----------------------------
(***************************************************************************)
(* The connections of the HTTP client of src/hub.c: http_get_content()     *)
(* asks a server for one file after another, keeps the TCP connection      *)
(* between requests if it may, follows redirects to other servers, and     *)
(* repeats a request once when a connection it had kept turns out to be    *)
(* closed.                                                                 *)
(*                                                                         *)
(* The peer acts at any time: it may close a connection between two        *)
(* requests, between two lines of a request, or before it answers.  What   *)
(* is in an answer is left to HttpTransfer; here it is a final answer or a *)
(* redirect, and it may contain "Connection: close".                       *)
(***************************************************************************)
EXTENDS Naturals, Sequences

CONSTANTS
  Servers,       \* records of a host name and a port
  Origin,        \* the server of baseurl, or of the URL given to hub get
  NoHost,        \* no host: the address left in remote_ip is nobody's
  NoConn,        \* connection number 0
  Lines,         \* lines of a request, each sent by one call of tcp_send()
  MaxRedirects,  \* 10
  Faults         \* what may go wrong: "dns" a failed query, "close" a peer
                 \*   that closes, "net" another network error, a timeout
                 \*   or the ESC key

Hosts == {server.host : server \in Servers}

ASSUME SessionAssumption ==
  /\ Origin \in Servers
  /\ NoHost \notin Hosts
  /\ NoConn \notin Servers
  /\ Lines \in Nat \ {0}
  /\ MaxRedirects \in Nat

VARIABLES
  pc,                         \* where http_get_content() is
  keepalive,                  \* its argument: TRUE in install(), else FALSE
  server,                     \* hostname and port given to http_send()
  n,                          \* redirects followed
  line,                       \* lines of the request sent
  conn,                       \* *conn: NoConn, or the server it reaches
  alive,                      \* the peer has not closed it
  got,                        \* the lines of a request the peer received
  remote_ip,                  \* the host whose address is in it
  keepingconnectionalive,
  continue_using_keep_alive,
  keepalivehostname,
  trykeepalive

connection == <<conn, alive, got>>
keep == <<keepingconnectionalive, continue_using_keep_alive, keepalivehostname,
          trykeepalive>>
request == <<keepalive, server, n>>
vars == <<pc, request, line, connection, remote_ip, keep>>

\* init() and init_unapi(), which aborts the connections of earlier programs;
\* remote_ip is memory that an earlier run of hub may have filled.
Init ==
  /\ pc = "idle"
  /\ keepalive \in BOOLEAN
  /\ server = Origin
  /\ n = 0 /\ line = 0
  /\ conn = NoConn /\ alive = FALSE /\ got = <<>>
  /\ remote_ip \in Hosts \cup {NoHost}
  /\ keepingconnectionalive = FALSE
  /\ continue_using_keep_alive = TRUE
  /\ keepalivehostname = NoHost
  /\ trykeepalive = FALSE

-----------------------------------------------------------------------------
(* A request                                                               *)

\* http_get_content() is called: again and again by install(), once by the
\* other commands.
Request ==
  /\ pc = "idle"
  /\ pc' = "check"
  /\ server' = Origin
  /\ n' = 0
  /\ trykeepalive' = keepalive
  /\ UNCHANGED <<keepalive, line, connection, remote_ip, keepingconnectionalive,
                 continue_using_keep_alive, keepalivehostname>>

\* The command is done; install() closes the connection.
Quit ==
  /\ pc = "idle"
  /\ pc' = "exit"
  /\ conn' = NoConn
  /\ UNCHANGED <<request, line, alive, got, remote_ip, keep>>

\* Mutant: any kept connection is reused.
Reuse_AnyHost == keepingconnectionalive /\ continue_using_keep_alive

\* The test at the head of http_send()'s loop.  (conn == 0 in it compares the
\* pointer, which is never null.)
Reuse ==
  /\ keepingconnectionalive /\ continue_using_keep_alive
  /\ keepalivehostname = server.host

Check ==
  /\ pc = "check"
  /\ keepingconnectionalive' = (keepingconnectionalive /\ continue_using_keep_alive)
  /\ pc' = IF Reuse THEN "send" ELSE "resolve"
  /\ line' = 0
  /\ UNCHANGED <<request, connection, remote_ip, continue_using_keep_alive,
                 keepalivehostname, trykeepalive>>

\* tcp_connect() closes what was open and asks for the address of the host; a
\* failed query leaves remote_ip as it was and is not noticed.
Resolve ==
  /\ pc = "resolve"
  /\ conn' = NoConn
  /\ \/ remote_ip' = server.host
     \/ "dns" \in Faults /\ UNCHANGED remote_ip
  /\ pc' = "open"
  /\ UNCHANGED <<request, line, alive, got, keep>>

\* Where TCP_OPEN will connect to.
Peer == [host |-> remote_ip, port |-> server.port]

\* The connection is opened and established.
Open ==
  /\ pc = "open"
  /\ Peer \in Servers
  /\ conn' = Peer
  /\ alive' = TRUE
  /\ got' = <<>>
  /\ keepalivehostname' = IF trykeepalive THEN server.host ELSE keepalivehostname
  /\ pc' = "send"
  /\ UNCHANGED <<request, line, remote_ip, keepingconnectionalive,
                 continue_using_keep_alive, trykeepalive>>

\* tcp_send() of the next line succeeds, though a peer that has closed the
\* connection may not get it.
SendLine ==
  /\ pc = "send"
  /\ conn # NoConn
  /\ line' = line + 1
  /\ got' = IF alive THEN Append(got, line') ELSE got
  /\ pc' = IF line' = Lines THEN "headers" ELSE "send"
  /\ UNCHANGED <<request, conn, alive, remote_ip, keep>>

\* Mutant: a new connection is opened, and the request continued on it.
SendFails_Continues ==
  /\ pc = "send"
  /\ conn = NoConn \/ ~alive \/ "net" \in Faults
  /\ pc' = IF keepingconnectionalive /\ continue_using_keep_alive THEN "resolve" ELSE "exit"
  /\ continue_using_keep_alive' = FALSE
  /\ keepingconnectionalive' = FALSE
  /\ UNCHANGED <<request, line, connection, remote_ip, keepalivehostname, trykeepalive>>

\* Mutant: the flags that keep connections are not reset.
SendFails_Again ==
  /\ pc = "send"
  /\ conn = NoConn \/ ~alive \/ "net" \in Faults
  /\ pc' = IF keepingconnectionalive /\ continue_using_keep_alive THEN "check" ELSE "exit"
  /\ UNCHANGED <<request, line, connection, remote_ip, keep>>

\* tcp_send() fails: on a kept connection the request is begun again on a new
\* one, and no connection is kept from then on; on a new one hub dies.
SendFails ==
  /\ pc = "send"
  /\ conn = NoConn \/ ~alive \/ "net" \in Faults
  /\ IF keepingconnectionalive /\ continue_using_keep_alive
     THEN /\ pc' = "check"
          /\ continue_using_keep_alive' = FALSE
          /\ keepingconnectionalive' = FALSE
     ELSE /\ pc' = "exit"
          /\ UNCHANGED <<continue_using_keep_alive, keepingconnectionalive>>
  /\ UNCHANGED <<request, line, connection, remote_ip, keepalivehostname, trykeepalive>>

-----------------------------------------------------------------------------
(* The answer                                                              *)

\* The peer has seen the end of a request and answers it, and may have closed the
\* connection then; "Connection: close" in the answer ends the wish to keep it.
Answer(close) ==
  /\ pc = "headers"
  /\ got # <<>> /\ got[Len(got)] = Lines
  /\ got' = <<>>
  /\ trykeepalive' = (trykeepalive /\ ~close)
  /\ UNCHANGED <<keepalive, line, alive, remote_ip, keepingconnectionalive,
                 continue_using_keep_alive, keepalivehostname>>

\* Mutant: one redirect too many.
Redirect_OneMore(close, target) ==
  /\ Answer(close)
  /\ conn' = NoConn
  /\ server' = target
  /\ IF n > MaxRedirects
     THEN pc' = "exit" /\ UNCHANGED n
     ELSE pc' = "check" /\ n' = n + 1

\* A redirect: the connection is closed, and the request repeated at the
\* server of an absolute location, or at the first one for a relative location.
Redirect(close, target) ==
  /\ Answer(close)
  /\ conn' = NoConn
  /\ server' = target
  /\ IF n >= MaxRedirects
     THEN pc' = "exit" /\ UNCHANGED n
     ELSE pc' = "check" /\ n' = n + 1

\* Another status than 200 and 3xx, or a location of another scheme, dies.
Refused(close) ==
  /\ Answer(close)
  /\ pc' = "exit"
  /\ UNCHANGED <<conn, server, n>>

Accepted(close) ==
  /\ Answer(close)
  /\ pc' = "body"
  /\ UNCHANGED <<conn, server, n>>

\* Mutant: keepingconnectionalive stays set when the connection is closed.
EndBody_StillKept ==
  /\ pc = "body"
  /\ keepingconnectionalive' = TRUE
  /\ conn' = IF trykeepalive THEN conn ELSE NoConn
  /\ pc' = IF keepalive THEN "idle" ELSE "exit"
  /\ UNCHANGED <<request, line, alive, got, remote_ip, continue_using_keep_alive,
                 keepalivehostname, trykeepalive>>

\* The body has been received: the connection is closed or kept.
EndBody ==
  /\ pc = "body"
  /\ keepingconnectionalive' = trykeepalive
  /\ conn' = IF trykeepalive THEN conn ELSE NoConn
  /\ pc' = IF keepalive THEN "idle" ELSE "exit"
  /\ UNCHANGED <<request, line, alive, got, remote_ip, continue_using_keep_alive,
                 keepalivehostname, trykeepalive>>

\* An answer that does not come, a connection that is not established, a
\* connection closed before the end of the answer, and the ESC key.
Waiting == pc \in {"resolve", "open", "send", "headers", "body"}

Die ==
  /\ \/ "net" \in Faults /\ Waiting
     \/ pc = "open" /\ Peer \notin Servers
     \/ pc \in {"headers", "body"} /\ ~alive
  /\ pc' = "exit"
  /\ UNCHANGED <<request, line, connection, remote_ip, keep>>

\* The peer closes the connection.
PeerCloses ==
  /\ "close" \in Faults
  /\ conn # NoConn /\ alive
  /\ alive' = FALSE
  /\ UNCHANGED <<pc, request, line, conn, got, remote_ip, keep>>

Terminated == pc = "exit" /\ UNCHANGED vars

-----------------------------------------------------------------------------
Receive ==
  \E close \in BOOLEAN :
    \/ \E target \in Servers : Redirect(close, target)
    \/ Refused(close)
    \/ Accepted(close)

Client == Check \/ Resolve \/ Open \/ SendLine \/ SendFails \/ Receive \/ EndBody \/ Die

Next == Request \/ Quit \/ Client \/ PeerCloses \/ Terminated

\* A call to the network returns: with data, with an error or with a timeout.
Spec == Init /\ [][Next]_vars /\ WF_vars(Client)

-----------------------------------------------------------------------------
(* Properties                                                              *)

\* Every variable has its type.
TypeOK ==
  /\ pc \in {"idle", "check", "resolve", "open", "send", "headers", "body", "exit"}
  /\ keepalive \in BOOLEAN
  /\ server \in Servers
  /\ n \in 0..MaxRedirects
  /\ line \in 0..Lines
  /\ conn \in Servers \cup {NoConn}
  /\ alive \in BOOLEAN
  /\ got \in Seq(1..Lines)
  /\ remote_ip \in Hosts \cup {NoHost}
  /\ keepingconnectionalive \in BOOLEAN
  /\ continue_using_keep_alive \in BOOLEAN
  /\ keepalivehostname \in Hosts \cup {NoHost}
  /\ trykeepalive \in BOOLEAN

\* A request is sent to the host it is meant for and to no other, through
\* reused connections, redirects and repetitions.  (The port is not compared
\* when a connection is reused, and may be another one of the same host.)
RightHost == pc = "send" /\ conn # NoConn => conn.host = server.host

\* A connection is kept between two requests only to the host whose name is
\* remembered for it.
KeptToItsHost ==
  pc = "idle" /\ keepingconnectionalive => conn # NoConn /\ conn.host = keepalivehostname

\* What the peer answers is one request, whole and in order: no part of it
\* went to a connection given up, nor is part of another before it.
WholeRequest ==
  [][got # <<>> /\ got' = <<>> /\ pc = "headers" => got = [i \in 1..Lines |-> i]]_vars

\* A request comes to an end, even if servers redirect in a circle and close
\* every connection.
RequestEnds == pc \in {"check", "headers", "send"} ~> pc \in {"idle", "exit"}
=============================================================================
