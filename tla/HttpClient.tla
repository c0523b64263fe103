----------------------------- MODULE HttpClient -----------------------------
(***************************************************************************)
(* The HTTP client of src/hub.c as a whole: the connections and requests   *)
(* of HttpSession together with the segments, headers and bodies of        *)
(* HttpTransfer.  A step is one of either module, or one of both at the    *)
(* points where http_get_content() goes from one to the other: a request   *)
(* is complete and its answer awaited, the headers end, the body ends.     *)
(*                                                                         *)
(* The two share the connection, which may be lost at any time, and        *)
(* trykeepalive, which an answer resets.  HttpTransfer's headers that are  *)
(* cut within a line are left to that module.                              *)
(***************************************************************************)
EXTENDS Naturals, SequencesExt

CONSTANTS
  Servers, Origin, NoHost, NoConn, Lines, MaxRedirects, Faults,  \* of HttpSession
  Dests, MaxData, BufferSize, MaxRequests,                       \* of HttpTransfer
  Resources,   \* what may be asked for
  Serves,      \* the responses of each host to a request for each of them
  Target(_),   \* the server a location names
  Nothing

VARIABLES
  \* of HttpSession
  pc, keepalive, server, n, line, conn, alive, got, remote_ip,
  keepingconnectionalive, continue_using_keep_alive, keepalivehostname, trykeepalive,
  \* of HttpTransfer, where the counters of places and bytes have other names here
  tpc, index, requests, dest, response, stream, head, data, size, current_pos, x,
  content_length, is_chunked, is_redirect, location,
  chunked_data_available, chunk_size, data_fetched, digits, out,
  wanted,      \* path of the request
  answered     \* the server has answered what it got

Responses == UNION {Serves[h][r] : h \in DOMAIN Serves, r \in Resources}

S == INSTANCE HttpSession
T == INSTANCE HttpTransfer WITH pc <- tpc, n <- index, Drops <- FALSE, KeepAlive <- FALSE

call == <<requests, dest, response>>
buffer == <<data, size, current_pos>>
headers_info == <<content_length, is_chunked, is_redirect, location>>
chunks == <<chunked_data_available, chunk_size, data_fetched, digits>>
received == <<buffer, x, headers_info, chunks, index, out>>
transfer == <<tpc, call, stream, head, received>>
session == <<pc, keepalive, server, n, line, conn, got, remote_ip, keepingconnectionalive,
             continue_using_keep_alive, keepalivehostname, wanted, answered>>
vars == <<session, alive, trykeepalive, transfer>>

\* T!Init but for what the two share, which S!Init has.
Init ==
  /\ S!Init
  /\ tpc = "idle"
  /\ requests = 0 /\ dest \in Dests /\ response \in Responses
  /\ stream = <<>> /\ head = 0
  /\ data = <<>> /\ size = 0 /\ current_pos = 0 /\ x = 0
  /\ content_length = 0 /\ is_chunked = FALSE /\ is_redirect = FALSE /\ location = 0
  /\ chunked_data_available = FALSE /\ chunk_size = 0 /\ data_fetched = 0 /\ digits = 0
  /\ index = 0 /\ out = <<>>
  /\ wanted \in Resources /\ answered = FALSE

-----------------------------------------------------------------------------
(* Up to the answer                                                        *)

Ask ==
  /\ S!Request
  /\ requests < MaxRequests
  /\ requests' = requests + 1
  /\ wanted' \in Resources /\ dest' \in Dests
  /\ tpc' = "asking"
  /\ UNCHANGED <<answered, response, stream, head, received>>

Quit == S!Quit /\ UNCHANGED <<wanted, answered, transfer>>

Check ==
  /\ S!Check
  /\ T!InitHeadersInfo
  /\ UNCHANGED <<wanted, answered, tpc, call, stream, head, buffer, x, chunks, index, out>>

\* tcp_close(), with which what has been sent on the connection is gone
Hangup == stream' = <<>> /\ head' = 0 /\ answered' = FALSE

Resolve == S!Resolve /\ Hangup /\ UNCHANGED <<wanted, tpc, call, received>>
Open == S!Open /\ UNCHANGED <<wanted, answered, transfer>>
SendFails == S!SendFails /\ UNCHANGED <<wanted, answered, transfer>>

\* With the last line of a request http_send() returns, and http_get_headers()
\* begins.
SendLine ==
  /\ S!SendLine
  /\ IF pc' = "headers" THEN tpc' = "headers" /\ x' = 0 ELSE UNCHANGED <<tpc, x>>
  /\ UNCHANGED <<wanted, answered, call, stream, head, buffer, headers_info,
                 chunks, index, out>>

\* The server answers a request it has got.
ServerAnswers ==
  /\ alive /\ ~answered
  /\ got # <<>> /\ got[Len(got)] = Lines
  /\ \E r \in Serves[conn.host][wanted] : T!Answer(r, stream)
  /\ answered' = TRUE
  /\ UNCHANGED <<pc, keepalive, server, n, line, conn, alive, got, remote_ip,
                 keepingconnectionalive, continue_using_keep_alive, keepalivehostname,
                 trykeepalive, wanted, tpc, requests, dest, received>>

\* The peer closes the connection; what it has sent arrives or not.
PeerCloses ==
  /\ S!PeerCloses
  /\ UNCHANGED <<stream, head>> \/ (stream' = <<>> /\ head' = 0)
  /\ UNCHANGED <<wanted, answered, tpc, call, received>>

-----------------------------------------------------------------------------
(* The answer                                                              *)

Headers ==
  \/ T!GetHeaders /\ UNCHANGED session
  \/ T!HeaderLine /\ UNCHANGED session
  \/ is_redirect /\ T!EmptyLine /\ UNCHANGED session

Accept ==
  /\ ~is_redirect
  /\ T!EmptyLine
  /\ S!Accepted(FALSE)
  /\ answered' = FALSE /\ UNCHANGED wanted

Refuse ==
  /\ T!BadStatus
  /\ S!Refused(FALSE)
  /\ answered' = FALSE /\ UNCHANGED wanted

\* Mutant: the connection is not closed before the redirect is followed.
Redirect_NotClosed ==
  /\ tpc = "redirect"
  /\ S!Answer(FALSE)
  /\ n < MaxRedirects
  /\ server' = Target(location) /\ n' = n + 1 /\ pc' = "check" /\ UNCHANGED conn
  /\ tpc' = "asking"
  /\ answered' = FALSE
  /\ UNCHANGED <<wanted, call, stream, head, received>>

Redirect ==
  /\ tpc = "redirect"
  /\ S!Redirect(FALSE, Target(location))
  /\ tpc' = IF pc' = "exit" THEN "dead" ELSE "asking"
  /\ Hangup
  /\ UNCHANGED <<wanted, call, received>>

Body ==
  \/ T!WriteRest \/ T!Copy \/ T!EndCopy
  \/ T!Refill \/ T!GetByte \/ T!EndOfData \/ T!BeginSize \/ T!ReadSize \/ T!SkipLine

TakeBody == Body /\ UNCHANGED session

EndBody == T!Finish /\ S!EndBody /\ UNCHANGED <<wanted, answered>>

\* Mutant: tcp_get() that fails in the body is taken for its end.
Die_BodyEnds ==
  /\ S!Die
  /\ tpc' = IF pc = "body" THEN "idle" ELSE "dead"
  /\ UNCHANGED <<wanted, answered, call, stream, head, received>>

Die ==
  /\ S!Die
  /\ tpc' = "dead"
  /\ UNCHANGED <<wanted, answered, call, stream, head, received>>

Terminated == pc = "exit" /\ UNCHANGED vars

Client ==
  \/ Check \/ Resolve \/ Open \/ SendLine \/ SendFails
  \/ Headers \/ Accept \/ Refuse \/ Redirect \/ TakeBody \/ EndBody \/ Die

Next == Ask \/ Quit \/ Client \/ ServerAnswers \/ PeerCloses \/ Terminated

\* hub goes on while it can; a wait in vain ends with a timeout.
Spec == Init /\ [][Next]_vars /\ WF_vars(Client)

-----------------------------------------------------------------------------
(* Properties                                                              *)

\* The hosts a request for r may come to: that of the first server, and those
\* which responses on the way name.
Moves(h, r) ==
  {Target(a.location).host : a \in {b \in Serves[h][r] : T!IsRedirect(b.status)}}
Reached(r) ==
  {h \in DOMAIN Serves : \A H \in SUBSET DOMAIN Serves :
     Origin.host \in H /\ (\A g \in H : Moves(g, r) \subseteq H) => h \in H}

\* What they have, and no other host.
Contents ==
  [r \in Resources |->
     {T!Body(a) : a \in {b \in UNION {Serves[h][r] : h \in Reached(r)} : b.status = 200}}]

ASSUME ClientAssumption ==
  /\ S!SessionAssumption /\ T!TransferAssumption /\ T!ResponsesAssumption
  /\ S!Hosts \subseteq DOMAIN Serves
  /\ \A r \in Resources : Nothing \notin Contents[r]

F == INSTANCE HttpFetch WITH
  phase   <- IF pc \in {"idle", "exit"} THEN pc ELSE "asked",
  content <- IF pc \in {"idle", "exit"} /\ requests > 0 /\ tpc = "idle" THEN T!Received
             ELSE Nothing

\* For each request hub gets the whole contents of what it asked for or ends,
\* though connections are kept, closed by the peer and opened anew, requests
\* repeated and redirected, and answers framed and cut in several ways; and not
\* what a host has that the request was not for.
ImplementsFetch == F!Spec

\* A request is never sent where something of an earlier answer is still to
\* come, which would be taken for the answer.
NothingPending == pc = "send" => stream = <<>>
=============================================================================
