-------------------------- MODULE HttpClientProofs --------------------------
(***************************************************************************)
(* That the HTTP client keeps what it promises, whatever the servers, the  *)
(* sizes of the buffer and the segments, and the faults: the safety of     *)
(* HttpFetch, and that a request is never sent where something of an       *)
(* earlier answer is still to come.                                        *)
(*                                                                         *)
(* What is proved of HttpSession and of HttpTransfer each is used here:    *)
(* Sent says which part of the request the peer has got, and Reading what  *)
(* of the answer has been received and what follows.  Reading holds in the *)
(* client from the moment the server answers, which it does while hub may  *)
(* already be waiting; up to then the transfer is taken to be idle.        *)
(* Whence says which server it is that answers: one to which the first has *)
(* sent the request, in any number of redirects.                           *)
(***************************************************************************)
EXTENDS HttpClient, TLAPS

Phase == IF tpc = "asking" \/ (tpc = "headers" /\ ~answered) THEN "idle" ELSE tpc

SP == INSTANCE HttpSessionProofs
TP == INSTANCE HttpTransferProofs WITH
  pc <- Phase, n <- index, Drops <- TRUE, KeepAlive <- FALSE

-----------------------------------------------------------------------------
(* The invariant                                                           *)

\* Where the session is says where the transfer is.
Places ==
  /\ pc \in {"idle", "check", "resolve", "open", "send", "headers", "body", "exit"}
  /\ pc = "idle" => tpc = "idle"
  /\ pc \in {"check", "resolve", "open", "send"} => tpc = "asking"
  /\ pc = "headers" => tpc \in {"headers", "line", "redirect"}
  /\ pc = "body" => tpc \in {"rest", "copy", "byte", "size", "skip", "end"}
  /\ pc = "exit" => tpc \in {"idle", "asking", "dead"}

\* The peer answers when it has got a whole request, which is on a connection
\* that hub waits at or has given up.
Asked ==
  /\ conn \in Servers \cup {NoConn}
  /\ Len(got) >= Lines => conn # NoConn /\ (pc = "headers" \/ tpc = "dead")
  /\ answered => pc = "headers" \/ tpc = "dead"
  /\ tpc \in {"line", "redirect"} => answered

\* Nothing is known of an answer that has not come.
Fresh ==
  /\ pc \in {"resolve", "open", "send"} \/ (pc = "headers" /\ ~answered) =>
       content_length = 0 /\ ~is_chunked /\ ~is_redirect /\ location = 0
  /\ pc = "headers" /\ ~answered => x = 0

\* What is answered is what was asked for.
Wanted ==
  /\ wanted \in Resources
  /\ pc \notin {"idle", "exit"} => requests > 0
  /\ answered \/ pc = "body" => \E h \in DOMAIN Serves : response \in Serves[h][wanted]

IInv ==
  /\ keepalive \in BOOLEAN
  /\ SP!Sent
  /\ TP!TypeInv /\ TP!Reading
  /\ Places /\ Asked /\ Fresh /\ Wanted

-----------------------------------------------------------------------------
(* Steps of the transfer                                                   *)

LEMMA GetHeadersStep ==
  ASSUME Phase = tpc, Phase' = tpc', T!GetHeaders
  PROVE  TP!GetHeaders
BY DEF T!GetHeaders, TP!GetHeaders, T!Receive, TP!Receive, T!CutAt, TP!CutAt,
       T!LF, TP!LF, T!Byte, TP!Byte, T!call, TP!call, T!headers_info, TP!headers_info

LEMMA SameLine ==
  /\ T!Ends = TP!Ends /\ T!LineEnd = TP!LineEnd /\ T!Kept = TP!Kept
  /\ T!Value = TP!Value /\ (T!Good <=> TP!Good)
  /\ \A name : T!IsLine(name) <=> TP!IsLine(name)
<1>1. T!Ends = TP!Ends
  BY DEF T!Ends, TP!Ends, T!LF, TP!LF, T!Byte, TP!Byte
<1>2. T!LineEnd = TP!LineEnd
  BY <1>1 DEF T!LineEnd, TP!LineEnd
<1>3. T!Kept = TP!Kept
  BY <1>2 DEF T!Kept, TP!Kept, T!CR, TP!CR, T!Byte, TP!Byte
<1>4. T!Value = TP!Value
  BY <1>3 DEF T!Value, TP!Value
<1>5. \A name : T!Named(name) <=> TP!Named(name)
  BY <1>3, <1>4 DEF T!Named, TP!Named, T!Text, TP!Text
<1>6. /\ \A name : T!IsLine(name) <=> TP!IsLine(name)
      /\ T!Good <=> TP!Good
  BY <1>4, <1>5 DEF T!IsLine, TP!IsLine, T!Good, TP!Good, T!IsRedirect, TP!IsRedirect
<1>. QED BY <1>1, <1>2, <1>3, <1>4, <1>6

LEMMA HeaderLineStep ==
  ASSUME Phase = tpc, Phase' = tpc', T!HeaderLine
  PROVE  TP!HeaderLine
BY SameLine DEF T!HeaderLine, TP!HeaderLine, T!call, TP!call, T!network, TP!network

LEMMA BadStatusStep ==
  ASSUME Phase = tpc, Phase' = tpc', T!BadStatus
  PROVE  TP!BadStatus
BY SameLine DEF T!BadStatus, TP!BadStatus, T!call, TP!call, T!network, TP!network,
                T!buffer, TP!buffer, T!headers_info, TP!headers_info, T!chunks, TP!chunks

LEMMA EmptyLineStep ==
  ASSUME Phase = tpc, Phase' = tpc', T!EmptyLine
  PROVE  TP!EmptyLine
BY SameLine DEF T!EmptyLine, TP!EmptyLine, T!AfterHeaders, TP!AfterHeaders, T!call, TP!call,
                T!network, TP!network, T!headers_info, TP!headers_info

LEMMA BodyStep ==
  ASSUME Phase = tpc, Phase' = tpc', Body
  PROVE  TP!Step
<1>. USE DEF T!call, TP!call, T!network, TP!network, T!buffer, TP!buffer, T!headers_info,
             TP!headers_info, T!chunks, TP!chunks
<1>1. /\ T!AtData <=> TP!AtData
      /\ T!MoreData <=> TP!MoreData
      /\ T!UsedUp <=> TP!UsedUp
      /\ T!Take <=> TP!Take
      /\ T!Next_byte = TP!Next_byte
  BY DEF T!AtData, TP!AtData, T!MoreData, TP!MoreData, T!UsedUp, TP!UsedUp, T!Take, TP!Take,
         T!Next_byte, TP!Next_byte
<1>2. /\ \A byte : T!Put(byte) <=> TP!Put(byte)
      /\ \A k : T!Receive(k) <=> TP!Receive(k)
      /\ T!CR = TP!CR /\ T!LF = TP!LF /\ T!NUL = TP!NUL
  BY DEF T!Put, TP!Put, T!Receive, TP!Receive, T!CutAt, TP!CutAt, T!CR, TP!CR, T!LF, TP!LF,
         T!NUL, TP!NUL, T!Byte, TP!Byte
<1>3. T!PutNul <=> TP!PutNul
  BY <1>2 DEF T!PutNul, TP!PutNul
<1>4. CASE T!WriteRest
  BY <1>4 DEF T!WriteRest, TP!WriteRest, TP!Step, TP!ToFile
<1>5. CASE T!Copy
  BY <1>2, <1>5 DEF T!Copy, TP!Copy, TP!Step, TP!ToFile
<1>6. CASE T!EndCopy
  BY <1>6 DEF T!EndCopy, TP!EndCopy, TP!Step, TP!ToFile
<1>7. CASE T!Refill
  BY <1>1, <1>2, <1>7 DEF T!Refill, TP!Refill, TP!Step, TP!ByBytes
<1>8. CASE T!GetByte
  BY <1>1, <1>2, <1>8 DEF T!GetByte, TP!GetByte, TP!Step, TP!ByBytes
<1>9. CASE T!EndOfData
  BY <1>1, <1>3, <1>9 DEF T!EndOfData, TP!EndOfData, TP!Step, TP!ByBytes
<1>10. CASE T!BeginSize
  BY <1>10 DEF T!BeginSize, TP!BeginSize, TP!Step, TP!ByBytes
<1>11. CASE T!ReadSize
  BY <1>1, <1>2, <1>11 DEF T!ReadSize, TP!ReadSize, TP!Step, TP!ByBytes
<1>12. CASE T!SkipLine
  BY <1>1, <1>2, <1>3, <1>12 DEF T!SkipLine, TP!SkipLine, TP!Step, TP!ByBytes
<1>. QED BY <1>4, <1>5, <1>6, <1>7, <1>8, <1>9, <1>10, <1>11, <1>12 DEF Body

LEMMA FinishStep ==
  ASSUME Phase = tpc, Phase' = tpc', T!Finish
  PROVE  TP!Finish
BY DEF T!Finish, TP!Finish, T!call, TP!call, T!buffer, TP!buffer, T!headers_info,
       TP!headers_info, T!chunks, TP!chunks

LEMMA SameResponses ==
  ASSUME NEW r
  PROVE  /\ T!Body(r) = TP!Body(r) /\ T!Payload(r) = TP!Payload(r) /\ T!Header(r) = TP!Header(r)
         /\ T!CanRead(r) <=> TP!CanRead(r)
<1>1. T!CR = TP!CR /\ T!LF = TP!LF /\ T!NUL = TP!NUL /\ \A k : T!Size(k) = TP!Size(k)
  BY DEF T!CR, TP!CR, T!LF, TP!LF, T!NUL, TP!NUL, T!Size, TP!Size, T!Byte, TP!Byte
<1>2. \A bytes : T!Chunk(bytes) = TP!Chunk(bytes)
  BY DEF T!Chunk, TP!Chunk, T!Size, TP!Size, T!CR, TP!CR, T!LF, TP!LF, T!Byte, TP!Byte
<1>f. \A s : T!FlattenSeq(s) = TP!FlattenSeq(s)
  BY DEF T!FlattenSeq, TP!FlattenSeq
<1>3. T!Body(r) = TP!Body(r)
  BY <1>f DEF T!Body, TP!Body
<1>4. T!Payload(r) = TP!Payload(r)
  <2>1. [i \in DOMAIN r.chunks |-> T!Chunk(r.chunks[i])]
        = [i \in DOMAIN r.chunks |-> TP!Chunk(r.chunks[i])]
    BY <1>2
  <2>2. T!Chunk(<<>>) = TP!Chunk(<<>>)
    BY <1>2
  <2>. QED BY <1>3, <1>f, <2>1, <2>2 DEF T!Payload, TP!Payload
<1>5. T!Header(r) = TP!Header(r)
  <2>1. \A name, value : T!Line(name, value) = TP!Line(name, value)
    BY <1>1 DEF T!Line, TP!Line, T!Text, TP!Text
  <2>2. T!IsRedirect(r.status) <=> TP!IsRedirect(r.status)
    BY DEF T!IsRedirect, TP!IsRedirect
  <2>. QED BY <1>1, <1>3, <2>1, <2>2 DEF T!Header, TP!Header
<1>6. T!CanRead(r) <=> TP!CanRead(r)
  <2>1. T!Chunk(<<>>) = TP!Chunk(<<>>) /\ T!Chunk(T!Body(r)) = TP!Chunk(TP!Body(r))
    BY <1>2, <1>3
  <2>2. T!Chunk(T!Body(r)) \o T!Chunk(<<>>) = TP!Chunk(TP!Body(r)) \o TP!Chunk(<<>>)
    BY <2>1
  <2>. QED BY <1>1, <1>3, <1>4, <2>1, <2>2 DEF T!CanRead, TP!CanRead
<1>. QED BY <1>3, <1>4, <1>5, <1>6

\* What is assumed of the components is what is assumed of the client.
LEMMA Assumptions ==
  SP!SessionAssumption /\ TP!TransferAssumption /\ TP!ResponsesAssumption
<1>1. SP!SessionAssumption
  BY ClientAssumption DEF S!SessionAssumption, SP!SessionAssumption, S!Hosts, SP!Hosts
<1>2. TP!TransferAssumption
  BY ClientAssumption DEF T!TransferAssumption, TP!TransferAssumption
<1>3. TP!ResponsesAssumption
  BY ClientAssumption, SameResponses
     DEF T!ResponsesAssumption, TP!ResponsesAssumption, T!AnyByte, TP!AnyByte
<1>. QED BY <1>1, <1>2, <1>3

\* What is proved of the steps of HttpTransfer
LEMMA TransferRead ==
  ASSUME \A r \in Responses : T!CanRead(r), TP!TypeInv, TP!Reading, TP!Step
  PROVE  TP!TypeInv' /\ TP!Reading'
<1>1. \A r \in Responses : TP!CanRead(r)
  BY SameResponses
<1>2. [TP!Next]_TP!vars
  BY DEF TP!Next
<1>. QED BY <1>1, <1>2, Assumptions, TP!NextTypes, TP!NextReading

-----------------------------------------------------------------------------
(* Steps of the session                                                    *)

\* The steps of the two that are one step are those of HttpSession.
LEMMA SessionStep ==
  ASSUME \/ S!Request \/ S!Quit \/ S!Check \/ S!Resolve \/ S!Open \/ S!SendLine
         \/ S!SendFails \/ S!Accepted(FALSE) \/ S!Refused(FALSE) \/ S!EndBody \/ S!Die
         \/ S!PeerCloses
  PROVE  SP!Next
<1>. USE DEF S!request, SP!request, S!connection, SP!connection, S!keep, SP!keep
<1>1. (S!Request => SP!Request) /\ (S!Quit => SP!Quit) /\ (S!PeerCloses => SP!PeerCloses)
  BY DEF S!Request, SP!Request, S!Quit, SP!Quit, S!PeerCloses, SP!PeerCloses
<1>2. (S!Check => SP!Check) /\ (S!Resolve => SP!Resolve) /\ (S!Open => SP!Open)
  BY DEF S!Check, SP!Check, S!Reuse, SP!Reuse, S!Resolve, SP!Resolve, S!Open, SP!Open,
         S!Peer, SP!Peer
<1>3. (S!SendLine => SP!SendLine) /\ (S!SendFails => SP!SendFails)
  BY DEF S!SendLine, SP!SendLine, S!SendFails, SP!SendFails
<1>4. /\ S!Accepted(FALSE) => SP!Accepted(FALSE)
      /\ S!Refused(FALSE) => SP!Refused(FALSE)
  BY DEF S!Accepted, SP!Accepted, S!Refused, SP!Refused, S!Answer, SP!Answer
<1>5. (S!EndBody => SP!EndBody) /\ (S!Die => SP!Die)
  BY DEF S!EndBody, SP!EndBody, S!Die, SP!Die, S!Waiting, SP!Waiting, S!Peer, SP!Peer
<1>. QED BY <1>1, <1>2, <1>3, <1>4, <1>5 DEF SP!Next, SP!Client, SP!Receive

LEMMA AnswerStep == S!Answer(FALSE) => SP!Answer(FALSE)
BY DEF S!Answer, SP!Answer

LEMMA RedirectStep ==
  ASSUME NEW target, S!Redirect(FALSE, target)
  PROVE  SP!Redirect(FALSE, target) /\ SP!Answer(FALSE) /\ pc' \in {"check", "exit"}
BY AnswerStep DEF S!Redirect, SP!Redirect

\* The transfer goes on without the session.
LEMMA SameSent ==
  ASSUME SP!Sent, UNCHANGED <<session, alive>>
  PROVE  SP!Sent'
BY DEF SP!Sent, session

\* Nothing can be read where nothing is to come.
LEMMA IdleRead ==
  ASSUME Phase' = "idle", stream' = <<>>
  PROVE  TP!Reading'
BY DEF TP!Reading, TP!InHeaders, TP!InLength, TP!InChunk

\* Where nothing is written, types are kept.
LEMMA QuietTyped ==
  ASSUME TP!TypeInv, Phase' \in {"idle", "headers", "dead"},
         UNCHANGED <<buffer, chunks, index, out>>,
         requests' \in 0..MaxRequests, dest' \in Dests, response' \in Responses,
         alive' \in BOOLEAN, trykeepalive' \in BOOLEAN,
         stream' \in Seq(TP!AnyByte), head' \in Nat, head' <= Len(stream'),
         x' \in Nat, content_length' \in Nat, location' \in Nat,
         is_chunked' \in BOOLEAN, is_redirect' \in BOOLEAN
  PROVE  TP!TypeInv'
BY DEF TP!TypeInv, TP!TypeOK, buffer, chunks

-----------------------------------------------------------------------------
(* The invariant of the session                                            *)

LEMMA InitSession == Init => keepalive \in BOOLEAN /\ SP!Sent
<1>. SUFFICES ASSUME Init PROVE keepalive \in BOOLEAN /\ SP!Sent
  OBVIOUS
<1>1. SP!Init
  BY DEF Init, S!Init, SP!Init, S!Hosts, SP!Hosts
<1>. QED BY <1>1, Assumptions, SP!InitSent DEF SP!Init

LEMMA NextSession ==
  ASSUME keepalive \in BOOLEAN, SP!Sent, [Next]_vars
  PROVE  keepalive' \in BOOLEAN /\ SP!Sent'
<1>1. CASE Ask \/ Quit \/ Check \/ Resolve \/ Open \/ SendLine \/ SendFails
  <2>1. S!Request \/ S!Quit \/ S!Check \/ S!Resolve \/ S!Open \/ S!SendLine \/ S!SendFails
    BY <1>1 DEF Ask, Quit, Check, Resolve, Open, SendLine, SendFails
  <2>2. UNCHANGED keepalive
    BY <2>1 DEF S!Request, S!Quit, S!Check, S!Resolve, S!Open, S!SendLine, S!SendFails, S!request
  <2>. QED BY <2>1, <2>2, SessionStep, Assumptions, SP!NextSent
<1>2. CASE Accept \/ Refuse \/ EndBody \/ Die \/ PeerCloses
  <2>1. S!Accepted(FALSE) \/ S!Refused(FALSE) \/ S!EndBody \/ S!Die \/ S!PeerCloses
    BY <1>2 DEF Accept, Refuse, EndBody, Die, PeerCloses
  <2>2. UNCHANGED keepalive
    BY <2>1 DEF S!Accepted, S!Refused, S!Answer, S!EndBody, S!Die, S!PeerCloses, S!request
  <2>. QED BY <2>1, <2>2, SessionStep, Assumptions, SP!NextSent
<1>3. CASE Redirect
  <2>1. S!Redirect(FALSE, Target(location))
    BY <1>3 DEF Redirect
  <2>2. UNCHANGED keepalive
    BY <2>1 DEF S!Redirect, S!Answer
  <2>. QED BY <2>1, <2>2, RedirectStep, Assumptions, SP!AnswerSent
<1>4. CASE Headers \/ TakeBody
  <2>1. UNCHANGED <<session, alive>>
    BY <1>4 DEF Headers, TakeBody, Body, T!GetHeaders, T!HeaderLine, T!EmptyLine, T!WriteRest,
                T!Copy, T!EndCopy, T!Refill, T!GetByte, T!EndOfData, T!BeginSize, T!ReadSize,
                T!SkipLine, T!Receive, T!network
  <2>. QED BY <2>1, SameSent DEF session
<1>5. CASE ServerAnswers
  BY <1>5 DEF ServerAnswers, SP!Sent
<1>6. CASE UNCHANGED vars
  BY <1>6, SameSent DEF vars, session
<1>. QED BY <1>1, <1>2, <1>3, <1>4, <1>5, <1>6 DEF Next, Client, Terminated

-----------------------------------------------------------------------------
(* Where the session and the transfer are                                  *)

Together == Places /\ Asked /\ Fresh /\ Wanted

\* What the peer has got of a request, and when that is a whole one.
LEMMA GotIs ==
  ASSUME SP!Sent
  PROVE  /\ Len(got) \in Nat /\ Lines \in Nat \ {0}
         /\ got # <<>> /\ got[Len(got)] = Lines => Len(got) = Lines
         /\ \A e : Len(Append(got, e)) = Len(got) + 1
         /\ Len(<<>>) = 0
<1>1. got \in Seq(Nat) /\ \A i \in 1..Len(got) : got[i] = i
  BY DEF SP!Sent
<1>2. Lines \in Nat \ {0}
  BY ClientAssumption DEF S!SessionAssumption
<1>. QED BY <1>1, <1>2

LEMMA InitTogether == Init => Together
<1>. SUFFICES ASSUME Init PROVE Together
  OBVIOUS
<1>1. Lines \in Nat \ {0} /\ Len(got) = 0
  BY InitSession, GotIs DEF Init, S!Init
<1>2. /\ pc = "idle" /\ tpc = "idle" /\ conn = NoConn /\ ~answered /\ wanted \in Resources
  BY DEF Init, S!Init
<1>. QED BY <1>1, <1>2 DEF Together, Places, Asked, Fresh, Wanted

LEMMA NextTogether ==
  ASSUME SP!Sent, TP!TypeInv, TP!Reading, Together, [Next]_vars
  PROVE  Together'
<1>. USE DEF Together
<1>0. /\ requests \in Nat /\ MaxRequests \in Nat
      /\ Phase = "idle" => stream = <<>>
  BY ClientAssumption DEF TP!TypeInv, TP!TypeOK, T!TransferAssumption, TP!Reading
<1>1. CASE Ask
  BY <1>0, <1>1, GotIs DEF Ask, S!Request, S!connection, received, headers_info, Places, Asked,
                           Fresh, Wanted
<1>2. CASE Quit
  BY <1>2, GotIs DEF Quit, S!Quit, transfer, received, headers_info, call, Places, Asked,
                     Fresh, Wanted
<1>3. CASE Check
  BY <1>3, GotIs DEF Check, S!Check, S!connection, T!InitHeadersInfo, call, Places, Asked,
                     Fresh, Wanted
<1>4. CASE Resolve
  BY <1>4, GotIs DEF Resolve, S!Resolve, Hangup, received, headers_info, call, Places, Asked,
                     Fresh, Wanted
<1>5. CASE Open
  BY <1>5, GotIs DEF Open, S!Open, S!Peer, transfer, received, headers_info, call, Places,
                     Asked, Fresh, Wanted
<1>6. CASE SendLine
  BY <1>6, GotIs DEF SendLine, S!SendLine, SP!Sent, headers_info, call, Places, Asked, Fresh,
                     Wanted
<1>7. CASE SendFails
  BY <1>7, GotIs DEF SendFails, S!SendFails, S!connection, transfer, received, headers_info,
                     call, Places, Asked, Fresh, Wanted
<1>8. CASE ServerAnswers
  <2>1. /\ UNCHANGED <<pc, tpc, conn, got, wanted, requests, x, headers_info>>
        /\ Len(got) = Lines /\ answered'
    BY <1>8, GotIs DEF ServerAnswers, received
  <2>2. Lines \in Nat
    BY GotIs
  <2>3. conn # NoConn /\ (pc = "headers" \/ tpc = "dead")
    BY <2>1, <2>2 DEF Asked
  <2>4. conn.host \in DOMAIN Serves
    BY <2>3, ClientAssumption DEF Asked, S!Hosts
  <2>5. response' \in Serves[conn.host][wanted]
    BY <1>8 DEF ServerAnswers, T!Answer
  <2>. QED BY <2>1, <2>2, <2>3, <2>4, <2>5 DEF headers_info, Places, Asked, Fresh, Wanted
<1>9. CASE PeerCloses
  BY <1>9, GotIs DEF PeerCloses, S!PeerCloses, received, headers_info, call, Places, Asked,
                     Fresh, Wanted
<1>10. CASE Headers
  <2>1. UNCHANGED <<session, response, requests>>
    BY <1>10 DEF Headers, T!GetHeaders, T!HeaderLine, T!EmptyLine, T!call
  <2>2. \/ tpc = "headers" /\ tpc' = "line" /\ stream # <<>>
        \/ tpc = "line" /\ tpc' \in {"line", "headers", "redirect"}
    <3>1. CASE T!GetHeaders
      BY <3>1, <1>0 DEF T!GetHeaders, T!Receive
    <3>. QED BY <1>10, <3>1 DEF Headers, T!HeaderLine, T!EmptyLine, T!AfterHeaders
  <2>3. answered /\ pc = "headers"
    BY <1>0, <2>2 DEF Places, Asked, Phase
  <2>. QED BY <2>1, <2>2, <2>3 DEF session, Places, Asked, Fresh, Wanted
<1>11. CASE Accept
  <2>1. /\ tpc = "line" /\ tpc' \in {"rest", "byte"} /\ pc' = "body" /\ got' = <<>> /\ ~answered'
        /\ UNCHANGED <<conn, wanted, response, requests>>
    BY <1>11 DEF Accept, T!EmptyLine, T!AfterHeaders, S!Accepted, S!Answer, T!call
  <2>. QED BY <2>1, GotIs DEF Places, Asked, Fresh, Wanted
<1>12. CASE Refuse
  <2>1. /\ tpc' = "dead" /\ pc' = "exit" /\ got' = <<>> /\ ~answered'
        /\ UNCHANGED <<conn, wanted, response, requests>>
    BY <1>12 DEF Refuse, T!BadStatus, S!Refused, S!Answer, T!call
  <2>. QED BY <2>1, GotIs DEF Places, Asked, Fresh, Wanted
<1>13. CASE Redirect
  BY <1>13, GotIs DEF Redirect, S!Redirect, S!Answer, Hangup, call, received, headers_info,
                      Places, Asked, Fresh, Wanted
<1>14. CASE TakeBody
  <2>1. /\ UNCHANGED <<session, response, requests>>
        /\ tpc' \in {"rest", "copy", "byte", "size", "skip", "end"}
    BY <1>14 DEF TakeBody, Body, T!WriteRest, T!Copy, T!EndCopy, T!Refill, T!GetByte,
                T!EndOfData, T!BeginSize, T!ReadSize, T!SkipLine, T!UsedUp, T!AtData, T!call
  <2>2. tpc \in {"rest", "copy", "byte", "size", "skip", "end"}
    BY <1>14 DEF TakeBody, Body, T!WriteRest, T!Copy, T!EndCopy, T!Refill, T!GetByte,
                T!EndOfData, T!BeginSize, T!ReadSize, T!SkipLine, T!UsedUp, T!AtData
  <2>. QED BY <2>1, <2>2 DEF session, Places, Asked, Fresh, Wanted
<1>15. CASE EndBody
  BY <1>15, GotIs DEF EndBody, T!Finish, S!EndBody, T!call, T!headers_info, Places, Asked,
                      Fresh, Wanted
<1>16. CASE Die
  BY <1>16, GotIs DEF Die, S!Die, S!connection, call, received, headers_info, Places, Asked,
                      Fresh, Wanted
<1>17. CASE UNCHANGED vars
  BY <1>17 DEF vars, session, transfer, call, received, headers_info, Places, Asked, Fresh, Wanted
<1>. QED
  BY <1>1, <1>2, <1>3, <1>4, <1>5, <1>6, <1>7, <1>8, <1>9, <1>10, <1>11, <1>12, <1>13, <1>14,
     <1>15, <1>16, <1>17 DEF Next, Client, Terminated

-----------------------------------------------------------------------------
(* The invariant of the transfer                                           *)

LEMMA InitTransfer == Init => TP!TypeInv /\ TP!Reading
<1>. SUFFICES ASSUME Init PROVE TP!TypeInv /\ TP!Reading
  OBVIOUS
<1>1. Phase = "idle" /\ stream = <<>>
  BY DEF Init, Phase
<1>2. TP!Reading
  BY <1>1 DEF TP!Reading, TP!InHeaders, TP!InLength, TP!InChunk
<1>3. <<>> \in Seq(TP!AnyByte) /\ Len(<<>>) = 0
  OBVIOUS
<1>4. BufferSize \in Nat /\ MaxData \in Nat \ {0} /\ MaxRequests \in Nat
  BY ClientAssumption DEF T!TransferAssumption
<1>5. /\ data \in Seq(TP!AnyByte) /\ stream \in Seq(TP!AnyByte) /\ out \in Seq(TP!AnyByte)
      /\ Len(data) = 0 /\ size = 0 /\ current_pos = 0 /\ Len(stream) = 0 /\ head = 0
      /\ requests = 0 /\ index = 0
  BY <1>3 DEF Init
<1>6. /\ size \in 0..Len(data) /\ current_pos \in 0..Len(data) /\ Len(data) <= BufferSize
      /\ head \in Nat /\ head <= Len(stream) /\ index \in 0..MaxData - 1
      /\ requests \in 0..MaxRequests
  BY <1>4, <1>5
<1>7. dest \in Dests /\ response \in Responses /\ alive \in BOOLEAN /\ trykeepalive \in BOOLEAN
  BY DEF Init, S!Init
<1>8. /\ x \in Nat /\ content_length \in Nat /\ location \in Nat /\ chunk_size \in Nat
      /\ data_fetched \in Nat /\ digits \in Nat
  BY DEF Init
<1>9. is_chunked \in BOOLEAN /\ is_redirect \in BOOLEAN /\ chunked_data_available \in BOOLEAN
  BY DEF Init
<1>. QED BY <1>1, <1>2, <1>5, <1>6, <1>7, <1>8, <1>9 DEF TP!TypeInv, TP!TypeOK

\* Before the answer: nothing has come, and nothing comes.
LEMMA Unanswered ==
  ASSUME TP!TypeInv, Phase = "idle", stream = <<>>,
         Phase' \in {"idle", "dead"}, stream' = <<>>, head' \in Nat, head' <= 0,
         UNCHANGED <<buffer, chunks, index, out, response>>,
         requests' \in 0..MaxRequests, dest' \in Dests,
         alive' \in BOOLEAN, trykeepalive' \in BOOLEAN, x' \in Nat,
         UNCHANGED headers_info
         \/ (content_length' = 0 /\ is_chunked' = FALSE /\ is_redirect' = FALSE /\ location' = 0)
  PROVE  TP!TypeInv' /\ TP!Reading'
<1>1. TP!Reading'
  <2>1. CASE Phase' = "idle"
    BY <2>1, IdleRead
  <2>2. CASE Phase' = "dead"
    BY <2>2, TP!StopRead, Assumptions
  <2>. QED BY <2>1, <2>2
<1>2. stream' \in Seq(TP!AnyByte) /\ Len(stream') = 0
  OBVIOUS
<1>3. response' \in Responses
  BY DEF TP!TypeInv, TP!TypeOK
<1>4. /\ content_length' \in Nat /\ location' \in Nat
      /\ is_chunked' \in BOOLEAN /\ is_redirect' \in BOOLEAN
  <2>1. CASE UNCHANGED headers_info
    BY <2>1 DEF TP!TypeInv, TP!TypeOK, headers_info
  <2>2. CASE content_length' = 0 /\ is_chunked' = FALSE /\ is_redirect' = FALSE /\ location' = 0
    <3>1. content_length' \in Nat /\ location' \in Nat
      BY <2>2
    <3>2. is_chunked' \in BOOLEAN /\ is_redirect' \in BOOLEAN
      BY <2>2
    <3>. QED BY <3>1, <3>2
  <2>. QED BY <2>1, <2>2
<1>5. TP!TypeInv'
  BY <1>2, <1>3, <1>4, QuietTyped
<1>. QED BY <1>1, <1>5

\* What has been sent arrives, or is lost.
LEMMA SentTyped ==
  ASSUME TP!TypeInv, UNCHANGED <<stream, head>> \/ (stream' = <<>> /\ head' = 0)
  PROVE  stream' \in Seq(TP!AnyByte) /\ head' \in Nat /\ head' <= Len(stream')
<1>1. CASE UNCHANGED <<stream, head>>
  BY <1>1 DEF TP!TypeInv, TP!TypeOK
<1>2. CASE stream' = <<>> /\ head' = 0
  <2>1. stream' \in Seq(TP!AnyByte) /\ Len(stream') = 0
    BY <1>2
  <2>. QED BY <1>2, <2>1
<1>. QED BY <1>1, <1>2

\* The transfer stops.
LEMMA StopTyped ==
  ASSUME TP!TypeInv, Phase' \in {"idle", "dead"},
         UNCHANGED <<call, buffer, x, headers_info, chunks, index, out>>,
         alive' \in BOOLEAN, trykeepalive' \in BOOLEAN,
         UNCHANGED <<stream, head>> \/ (stream' = <<>> /\ head' = 0)
  PROVE  TP!TypeInv'
<1>1. /\ requests' \in 0..MaxRequests /\ dest' \in Dests /\ response' \in Responses
      /\ x' \in Nat /\ content_length' \in Nat /\ location' \in Nat
      /\ is_chunked' \in BOOLEAN /\ is_redirect' \in BOOLEAN
  BY DEF TP!TypeInv, TP!TypeOK, call, headers_info
<1>2. stream' \in Seq(TP!AnyByte) /\ head' \in Nat /\ head' <= Len(stream')
  BY SentTyped
<1>. QED BY <1>1, <1>2, QuietTyped

\* The peer closes, with what had not arrived or after it.
LEMMA ClosesTyped ==
  ASSUME TP!TypeInv, alive' \in BOOLEAN, UNCHANGED <<Phase, trykeepalive>>,
         UNCHANGED <<call, buffer, x, headers_info, chunks, index, out>>,
         UNCHANGED <<stream, head>> \/ (stream' = <<>> /\ head' = 0)
  PROVE  TP!TypeInv'
<1>1. stream' \in Seq(TP!AnyByte) /\ head' \in Nat /\ head' <= Len(stream')
  BY SentTyped
<1>. QED BY <1>1 DEF TP!TypeInv, TP!TypeOK, call, buffer, headers_info, chunks

\* Where hub is when it begins, asks, or ends, nothing is to come.
LEMMA NothingThere ==
  ASSUME TP!TypeInv, TP!Reading, Together
  PROVE  /\ pc \in {"idle", "check", "resolve", "open", "send"} => Phase = "idle"
         /\ Phase = "idle" => stream = <<>> /\ head \in Nat /\ head <= 0
         /\ requests \in 0..MaxRequests /\ dest \in Dests /\ response \in Responses
         /\ x \in Nat /\ alive \in BOOLEAN /\ trykeepalive \in BOOLEAN
<1>1. pc \in {"idle", "check", "resolve", "open", "send"} => Phase = "idle"
  BY DEF Together, Places, Phase
<1>2. Phase = "idle" => stream = <<>> /\ head \in Nat /\ head <= 0
  <2>1. head \in Nat /\ head <= Len(stream) /\ Len(<<>>) = 0
    BY DEF TP!TypeInv, TP!TypeOK
  <2>. QED BY <2>1 DEF TP!Reading
<1>. QED BY <1>1, <1>2 DEF TP!TypeInv, TP!TypeOK

\* A request is prepared and sent.
LEMMA RequestReads ==
  ASSUME keepalive \in BOOLEAN, TP!TypeInv, TP!Reading, Together, Together',
         Ask \/ Check \/ Resolve \/ Open \/ SendLine \/ SendFails \/ Quit
  PROVE  TP!TypeInv' /\ TP!Reading'
<1>. USE DEF buffer, chunks, headers_info, received, call, transfer, S!connection, S!keep
<1>0. Phase = "idle"
  BY NothingThere DEF Ask, Check, Resolve, Open, SendLine, SendFails, Quit, S!Request, S!Check,
                      S!Resolve, S!Open, S!SendLine, S!SendFails, S!Quit
<1>1. /\ stream = <<>> /\ head \in Nat /\ head <= 0
      /\ requests \in 0..MaxRequests /\ dest \in Dests /\ response \in Responses
      /\ x \in Nat /\ alive \in BOOLEAN /\ trykeepalive \in BOOLEAN /\ MaxRequests \in Nat
  BY <1>0, NothingThere, ClientAssumption DEF T!TransferAssumption
<1>2. CASE Ask
  <2>1. requests' \in 0..MaxRequests /\ dest' \in Dests
    BY <1>1, <1>2 DEF Ask
  <2>2. /\ Phase' = "idle" /\ UNCHANGED <<stream, head, x, headers_info>>
        /\ UNCHANGED <<buffer, chunks, index, out, response>>
        /\ alive' = alive /\ trykeepalive' = keepalive
    BY <1>2 DEF Ask, S!Request, Phase
  <2>. QED BY <1>0, <1>1, <2>1, <2>2, Unanswered
<1>3. CASE Check
  <2>1. /\ UNCHANGED <<Phase, stream, head, x, call, alive, trykeepalive>>
        /\ UNCHANGED <<buffer, chunks, index, out, response>>
        /\ content_length' = 0 /\ is_chunked' = FALSE /\ is_redirect' = FALSE /\ location' = 0
    BY <1>3 DEF Check, S!Check, T!InitHeadersInfo, Phase
  <2>. QED BY <1>0, <1>1, <2>1, Unanswered
<1>4. CASE Resolve
  <2>1. /\ Phase' = "idle" /\ stream' = <<>> /\ head' = 0 /\ UNCHANGED <<call, x, headers_info>>
        /\ UNCHANGED <<buffer, chunks, index, out, response, alive, trykeepalive>>
    BY <1>4, <1>0 DEF Resolve, S!Resolve, Hangup, Phase
  <2>. QED BY <1>0, <1>1, <2>1, Unanswered
<1>5. CASE Open
  <2>1. /\ UNCHANGED <<Phase, stream, head, call, x, headers_info>>
        /\ UNCHANGED <<buffer, chunks, index, out, response, trykeepalive>>
        /\ alive' = TRUE
    BY <1>5 DEF Open, S!Open, Phase
  <2>. QED BY <1>0, <1>1, <2>1, Unanswered
<1>6. CASE SendLine
  <2>1. /\ UNCHANGED <<stream, head, call, headers_info, answered, alive, trykeepalive>>
        /\ UNCHANGED <<buffer, chunks, index, out, response>>
        /\ x' \in {0, x} /\ tpc' \in {"headers", tpc}
    BY <1>6 DEF SendLine, S!SendLine
  <2>2. ~answered
    BY <1>6 DEF SendLine, S!SendLine, Together, Places, Asked
  <2>3. Phase' = "idle"
    BY <1>0, <2>1, <2>2 DEF Phase
  <2>. QED BY <1>0, <1>1, <2>1, <2>3, Unanswered
<1>7. CASE SendFails \/ Quit
  <2>1. /\ UNCHANGED <<Phase, stream, head, call, x, headers_info>>
        /\ UNCHANGED <<buffer, chunks, index, out, response, alive, trykeepalive>>
    BY <1>7 DEF SendFails, S!SendFails, Quit, S!Quit, Phase
  <2>. QED BY <1>0, <1>1, <2>1, Unanswered
<1>. QED BY <1>2, <1>3, <1>4, <1>5, <1>6, <1>7

\* The answer comes to where it is waited for, or to nobody.
LEMMA AnswerReads ==
  ASSUME TP!TypeInv, TP!Reading, SP!Sent, Together, ServerAnswers
  PROVE  TP!TypeInv' /\ TP!Reading'
<1>1. /\ ~answered /\ answered' /\ UNCHANGED <<pc, tpc, conn, got, alive, trykeepalive>>
      /\ UNCHANGED <<requests, dest, received>> /\ Len(got) = Lines
  BY GotIs DEF ServerAnswers
<1>2. PICK r \in Serves[conn.host][wanted] : T!Answer(r, stream)
  BY DEF ServerAnswers
<1>3. /\ Lines \in Nat /\ conn # NoConn /\ (pc = "headers" \/ tpc = "dead")
  BY <1>1, GotIs DEF Together, Asked
<1>4. r \in Responses
  <2>1. conn.host \in DOMAIN Serves
    BY <1>3, ClientAssumption DEF Together, Asked, S!Hosts
  <2>. QED BY <1>2, <2>1 DEF Responses, Together, Wanted
<1>5. TP!Answer(r, stream)
  BY <1>2, SameResponses DEF T!Answer, TP!Answer
<1>6. /\ response' = r /\ stream' \in Seq(TP!AnyByte)
      /\ head' \in Nat /\ head' <= Len(stream')
  BY <1>4, <1>5, Assumptions, TP!AnswerTyped DEF TP!TypeInv
<1>7. Phase' \in {"headers", "dead"}
  BY <1>1, <1>3 DEF Together, Places, Asked, Phase
<1>8. TP!TypeInv'
  <2>1. UNCHANGED <<buffer, chunks, index, out, x, headers_info>>
    BY <1>1 DEF received
  <2>2. /\ requests' \in 0..MaxRequests /\ dest' \in Dests
        /\ alive' \in BOOLEAN /\ trykeepalive' \in BOOLEAN
        /\ x' \in Nat /\ content_length' \in Nat /\ location' \in Nat
        /\ is_chunked' \in BOOLEAN /\ is_redirect' \in BOOLEAN
    BY <1>1, <2>1 DEF TP!TypeInv, TP!TypeOK, headers_info
  <2>. QED BY <1>4, <1>6, <1>7, <2>1, <2>2, QuietTyped
<1>9. TP!Reading'
  <2>1. CASE Phase' = "dead"
    BY <2>1, Assumptions, TP!StopRead
  <2>2. CASE Phase' = "headers"
    <3>1. pc = "headers" /\ Phase = "idle"
      BY <1>1, <1>3, <2>2 DEF Together, Places, Asked, Phase
    <3>2. TP!Answer(r, <<>>)
      BY <1>5, <3>1 DEF TP!Reading
    <3>3. TP!InitHeadersInfo /\ x' = 0
      BY <1>1, <3>1 DEF Together, Fresh, TP!InitHeadersInfo, received, headers_info,
                        TP!TypeInv, TP!TypeOK
    <3>. QED BY <1>4, <2>2, <3>2, <3>3, Assumptions, TP!BeginRead
  <2>. QED BY <1>7, <2>1, <2>2
<1>. QED BY <1>8, <1>9

\* The answer is read.
LEMMA StepReads ==
  ASSUME \A r \in Responses : T!CanRead(r), TP!TypeInv, TP!Reading, Together, Together',
         Headers \/ Accept \/ Refuse \/ TakeBody \/ EndBody
  PROVE  TP!TypeInv' /\ TP!Reading'
<1>1. CASE Headers
  <2>1. T!GetHeaders \/ T!HeaderLine \/ T!EmptyLine
    BY <1>1 DEF Headers
  <2>2. UNCHANGED <<pc, answered>>
    BY <1>1 DEF Headers, session
  <2>3. T!GetHeaders => stream # <<>>
    BY NothingThere DEF T!GetHeaders, T!Receive, TP!TypeInv
  <2>4. /\ tpc \in {"headers", "line"} /\ tpc' # "asking"
        /\ answered
    BY <2>1, <2>3, NothingThere DEF T!GetHeaders, T!HeaderLine, T!EmptyLine, T!AfterHeaders,
                                    Together, Asked, Phase
  <2>5. Phase = tpc /\ Phase' = tpc'
    BY <2>2, <2>4 DEF Phase
  <2>6. TP!Step
    BY <2>1, <2>5, GetHeadersStep, HeaderLineStep, EmptyLineStep DEF TP!Step, TP!Headers
  <2>. QED BY <2>6, TransferRead
<1>2. CASE Accept
  <2>1. T!EmptyLine /\ ~is_redirect
    BY <1>2 DEF Accept
  <2>2. Phase = tpc /\ Phase' = tpc'
    BY <2>1 DEF T!EmptyLine, T!AfterHeaders, Phase
  <2>3. TP!Step
    BY <2>1, <2>2, EmptyLineStep DEF TP!Step, TP!Headers
  <2>. QED BY <2>3, TransferRead
<1>3. CASE Refuse
  <2>1. T!BadStatus
    BY <1>3 DEF Refuse
  <2>2. Phase = tpc /\ Phase' = tpc'
    BY <2>1 DEF T!BadStatus, Phase
  <2>3. TP!Step
    BY <2>1, <2>2, BadStatusStep DEF TP!Step, TP!Headers
  <2>. QED BY <2>3, TransferRead
<1>4. CASE TakeBody
  <2>1. Body
    BY <1>4 DEF TakeBody
  <2>2. /\ tpc \in {"rest", "copy", "byte", "size", "skip"}
        /\ tpc' \in {"rest", "copy", "byte", "size", "skip", "end"}
    BY <2>1 DEF Body, T!WriteRest, T!Copy, T!EndCopy, T!Refill, T!GetByte, T!EndOfData,
                T!BeginSize, T!ReadSize, T!SkipLine, T!UsedUp, T!AtData
  <2>3. Phase = tpc /\ Phase' = tpc'
    BY <2>2 DEF Phase
  <2>4. TP!Step
    BY <2>1, <2>3, BodyStep
  <2>. QED BY <2>4, TransferRead
<1>5. CASE EndBody
  <2>1. T!Finish
    BY <1>5 DEF EndBody
  <2>2. Phase = tpc /\ Phase' = tpc'
    BY <2>1 DEF T!Finish, Phase
  <2>3. TP!Step
    BY <2>1, <2>2, FinishStep DEF TP!Step
  <2>. QED BY <2>3, TransferRead
<1>. QED BY <1>1, <1>2, <1>3, <1>4, <1>5

\* The connection is closed, by either side, or hub gives up.
LEMMA EndReads ==
  ASSUME TP!TypeInv, TP!Reading, Together, PeerCloses \/ Redirect \/ Die
  PROVE  TP!TypeInv' /\ TP!Reading'
<1>0. alive \in BOOLEAN /\ trykeepalive \in BOOLEAN
  BY NothingThere
<1>1. CASE PeerCloses
  <2>1. /\ UNCHANGED <<Phase, trykeepalive>> /\ alive' = FALSE
        /\ UNCHANGED <<call, buffer, x, headers_info, chunks, index, out>>
        /\ UNCHANGED <<stream, head>> \/ (stream' = <<>> /\ head' = 0)
    BY <1>1 DEF PeerCloses, S!PeerCloses, S!keep, received, Phase
  <2>2. TP!TypeInv'
    BY <2>1, ClosesTyped
  <2>3. UNCHANGED <<TP!call, TP!buffer, TP!headers_info, TP!chunks>>
    BY <2>1 DEF call, buffer, headers_info, chunks, TP!call, TP!buffer, TP!headers_info, TP!chunks
  <2>4. TP!Reading'
    BY <2>1, <2>3, Assumptions, TP!ClosesRead
  <2>. QED BY <2>2, <2>4
<1>2. CASE Redirect
  <2>1. /\ Phase' \in {"idle", "dead"} /\ stream' = <<>> /\ head' = 0
        /\ UNCHANGED <<call, buffer, x, headers_info, chunks, index, out, alive>>
        /\ trykeepalive' = trykeepalive
    BY <1>2, <1>0 DEF Redirect, S!Redirect, S!Answer, Hangup, received, Phase
  <2>2. TP!TypeInv'
    BY <1>0, <2>1, StopTyped
  <2>3. TP!Reading'
    BY <2>1, IdleRead, Assumptions, TP!StopRead
  <2>. QED BY <2>2, <2>3
<1>3. CASE Die
  <2>1. /\ Phase' = "dead" /\ UNCHANGED <<stream, head, alive, trykeepalive>>
        /\ UNCHANGED <<call, buffer, x, headers_info, chunks, index, out>>
    BY <1>3 DEF Die, S!Die, S!connection, S!keep, received, Phase
  <2>2. TP!TypeInv'
    BY <1>0, <2>1, StopTyped
  <2>3. TP!Reading'
    BY <2>1, Assumptions, TP!StopRead
  <2>. QED BY <2>2, <2>3
<1>. QED BY <1>1, <1>2, <1>3

-----------------------------------------------------------------------------
(* The inductive invariant                                                 *)

LEMMA InitInv == Init => IInv
BY InitSession, InitTogether, InitTransfer DEF Together, IInv

LEMMA NextInv ==
  ASSUME \A r \in Responses : T!CanRead(r), IInv, [Next]_vars
  PROVE  IInv'
<1>1. keepalive \in BOOLEAN /\ SP!Sent /\ TP!TypeInv /\ TP!Reading /\ Together
  BY DEF IInv, Together
<1>2. keepalive' \in BOOLEAN /\ SP!Sent'
  BY <1>1, NextSession
<1>3. Together'
  BY <1>1, NextTogether
<1>4. CASE Ask \/ Check \/ Resolve \/ Open \/ SendLine \/ SendFails \/ Quit
  <2>1. TP!TypeInv' /\ TP!Reading'
    BY <1>1, <1>3, <1>4, RequestReads
  <2>. QED BY <1>2, <1>3, <2>1 DEF IInv, Together
<1>5. CASE ServerAnswers
  <2>1. TP!TypeInv' /\ TP!Reading'
    BY <1>1, <1>5, AnswerReads
  <2>. QED BY <1>2, <1>3, <2>1 DEF IInv, Together
<1>6. CASE Headers \/ Accept \/ Refuse \/ TakeBody \/ EndBody
  <2>1. TP!TypeInv' /\ TP!Reading'
    BY <1>1, <1>3, <1>6, StepReads
  <2>. QED BY <1>2, <1>3, <2>1 DEF IInv, Together
<1>7. CASE PeerCloses \/ Redirect \/ Die
  <2>1. TP!TypeInv' /\ TP!Reading'
    BY <1>1, <1>7, EndReads
  <2>. QED BY <1>2, <1>3, <2>1 DEF IInv, Together
<1>8. CASE UNCHANGED vars
  <2>1. UNCHANGED <<Phase, stream, head, alive, trykeepalive, TP!call, TP!buffer, x,
                    TP!headers_info, TP!chunks, index, out>>
    BY <1>8 DEF vars, session, transfer, received, call, buffer, headers_info, chunks,
                TP!call, TP!buffer, TP!headers_info, TP!chunks, Phase
  <2>2. TP!Reading'
    BY <1>1, <2>1, Assumptions, TP!SameRead DEF TP!Lost
  <2>3. TP!TypeInv'
    BY <1>1, <2>1 DEF TP!TypeInv, TP!TypeOK, TP!call, TP!buffer, TP!headers_info, TP!chunks
  <2>. QED BY <1>2, <1>3, <2>2, <2>3 DEF IInv, Together
<1>. QED BY <1>4, <1>5, <1>6, <1>7, <1>8 DEF Next, Client, Terminated

-----------------------------------------------------------------------------
(* Theorems                                                                *)

\* For any servers, sizes and faults, a request is never sent where something
\* of an earlier answer is still to come, if servers answer what hub can read.
THEOREM AlwaysNothingPending ==
  ASSUME \A r \in Responses : T!CanRead(r)
  PROVE  Spec => []NothingPending
<1>1. Init => IInv
  BY InitInv
<1>2. IInv /\ [Next]_vars => IInv'
  BY NextInv
<1>3. IInv => NothingPending
  BY NothingThere DEF IInv, Together, NothingPending
<1>. QED BY <1>1, <1>2, <1>3, PTL DEF Spec

-----------------------------------------------------------------------------
(* Which host answers                                                      *)

\* A line of the answer may end the wish to keep the connection.
LEMMA SameKept ==
  ASSUME SP!IInv, trykeepalive' \in BOOLEAN, trykeepalive' => trykeepalive,
         UNCHANGED <<pc, keepalive, server, conn, remote_ip, keepingconnectionalive,
                     continue_using_keep_alive, keepalivehostname>>
  PROVE  SP!IInv'
BY DEF SP!IInv, SP!Types, SP!Session, SP!Kept

LEMMA NextKept ==
  ASSUME \A k : Target(k) \in Servers, "dns" \notin Faults, SP!IInv, [Next]_vars
  PROVE  SP!IInv'
<1>1. CASE Ask \/ Quit \/ Check \/ Resolve \/ Open \/ SendLine \/ SendFails
  <2>1. SP!Next
    BY <1>1, SessionStep DEF Ask, Quit, Check, Resolve, Open, SendLine, SendFails
  <2>. QED BY <2>1, Assumptions, SP!NextSession
<1>2. CASE Accept \/ Refuse \/ EndBody \/ Die \/ PeerCloses
  <2>1. SP!Next
    BY <1>2, SessionStep DEF Accept, Refuse, EndBody, Die, PeerCloses
  <2>. QED BY <2>1, Assumptions, SP!NextSession
<1>3. CASE Redirect
  <2>1. SP!Redirect(FALSE, Target(location))
    BY <1>3, RedirectStep DEF Redirect
  <2>2. SP!Next
    BY <2>1 DEF SP!Next, SP!Client, SP!Receive
  <2>. QED BY <2>2, Assumptions, SP!NextSession
<1>4. CASE Headers \/ TakeBody \/ ServerAnswers \/ UNCHANGED vars
  <2>1. UNCHANGED <<pc, keepalive, server, conn, remote_ip, keepingconnectionalive,
                    continue_using_keep_alive, keepalivehostname>>
    BY <1>4 DEF Headers, TakeBody, ServerAnswers, vars, session
  <2>2. trykeepalive \in BOOLEAN
    BY DEF SP!IInv, SP!Types
  <2>3. trykeepalive' = trykeepalive \/ \E said : trykeepalive' = (trykeepalive /\ ~said)
    BY <1>4 DEF Headers, TakeBody, Body, ServerAnswers, vars, T!GetHeaders, T!HeaderLine,
                T!EmptyLine, T!WriteRest, T!Copy, T!EndCopy, T!Refill, T!GetByte, T!EndOfData,
                T!BeginSize, T!ReadSize, T!SkipLine
  <2>4. trykeepalive' \in BOOLEAN /\ (trykeepalive' => trykeepalive)
    <3>1. CASE trykeepalive' = trykeepalive
      BY <2>2, <3>1
    <3>2. ASSUME NEW said, trykeepalive' = (trykeepalive /\ ~said)
          PROVE  trykeepalive' \in BOOLEAN /\ (trykeepalive' => trykeepalive)
      BY <3>2
    <3>. QED BY <2>3, <3>1, <3>2
  <2>. QED BY <2>1, <2>4, SameKept
<1>. QED BY <1>1, <1>2, <1>3, <1>4 DEF Next, Client, Terminated

LEMMA InitKept == Init => SP!IInv
<1>1. Init => SP!Init
  BY DEF Init, S!Init, SP!Init, S!Hosts, SP!Hosts
<1>. QED BY <1>1, Assumptions, SP!InitSession

\* A request is on its way from host to host, the host it has come to answers,
\* and hub has read where that sends it.
Whence ==
  /\ pc \notin {"idle", "exit"} => server.host \in Reached(wanted)
  /\ pc = "body" \/ (pc = "headers" /\ answered) =>
       response \in Serves[server.host][wanted]
  /\ tpc = "redirect" => T!IsRedirect(response.status) /\ location = response.location

LEMMA ReachedFrom ==
  /\ \A r : Origin.host \in Reached(r)
  /\ \A r : Reached(r) \subseteq DOMAIN Serves
  /\ \A r : \A h \in Reached(r) : Moves(h, r) \cap DOMAIN Serves \subseteq Reached(r)
<1>1. Origin.host \in DOMAIN Serves
  BY ClientAssumption DEF S!SessionAssumption, S!Hosts
<1>. QED BY <1>1 DEF Reached

LEMMA InitWhence == Init => Whence
BY DEF Init, S!Init, Whence

LEMMA NextWhence ==
  ASSUME \A k : Target(k) \in Servers, IInv, SP!IInv, Whence, [Next]_vars
  PROVE  Whence'
<1>0. Places /\ Asked /\ wanted \in Resources
  BY DEF IInv, Wanted
<1>1. CASE Ask
  <2>1. pc = "idle" /\ pc' = "check" /\ server' = Origin /\ tpc' = "asking"
    BY <1>1 DEF Ask, S!Request
  <2>. QED BY <2>1, ReachedFrom DEF Whence
<1>2. CASE Quit \/ Refuse \/ Die \/ EndBody
  <2>1. pc' \in {"idle", "exit"} /\ tpc' # "redirect"
    BY <1>0, <1>2 DEF Quit, S!Quit, transfer, Places, Refuse, T!BadStatus, S!Refused, Die, S!Die,
                      EndBody, T!Finish, S!EndBody
  <2>. QED BY <2>1 DEF Whence
<1>3. CASE Check \/ Resolve \/ Open \/ SendLine \/ SendFails
  <2>1. /\ pc \in {"check", "resolve", "open", "send"} /\ pc' \notin {"idle", "body"}
        /\ UNCHANGED <<server, wanted>> /\ (answered' => answered) /\ tpc' \in {"headers", tpc}
    BY <1>3 DEF Check, S!Check, Resolve, S!Resolve, Hangup, Open, S!Open, SendLine, S!SendLine,
                SendFails, S!SendFails, S!request, transfer
  <2>2. ~answered /\ tpc # "redirect"
    BY <1>0, <2>1 DEF Places, Asked
  <2>. QED BY <2>1, <2>2 DEF Whence
<1>4. CASE ServerAnswers
  <2>1. /\ UNCHANGED <<pc, server, wanted, tpc>> /\ ~answered
        /\ response' \in Serves[conn.host][wanted]
    BY <1>4 DEF ServerAnswers, T!Answer
  <2>2. pc = "headers" => conn.host = server.host
    BY DEF SP!IInv, SP!Session
  <2>3. pc # "body" /\ tpc # "redirect"
    <3>1. Len(got) = Lines /\ Lines \in Nat
      BY <1>4, GotIs DEF ServerAnswers, IInv
    <3>2. ~answered /\ (pc = "headers" \/ tpc = "dead")
      BY <1>0, <1>4, <3>1 DEF Asked, ServerAnswers
    <3>. QED BY <1>0, <3>2 DEF Places, Asked
  <2>. QED BY <2>1, <2>2, <2>3 DEF Whence
<1>5. CASE PeerCloses \/ UNCHANGED vars
  BY <1>5 DEF PeerCloses, S!PeerCloses, S!request, call, received, headers_info, vars, session,
              transfer, Whence
<1>6. CASE Headers
  <2>1. UNCHANGED <<pc, server, wanted, answered, response>>
    BY <1>6 DEF Headers, session, T!GetHeaders, T!HeaderLine, T!EmptyLine, T!call
  <2>2. CASE T!GetHeaders \/ T!HeaderLine
    <3>1. tpc' # "redirect"
      BY <2>2 DEF T!GetHeaders, T!HeaderLine
    <3>. QED BY <2>1, <3>1 DEF Whence
  <2>3. CASE is_redirect /\ T!EmptyLine
    <3>1. Phase = tpc /\ Phase' = tpc' /\ location' = location
      BY <2>3 DEF T!EmptyLine, T!AfterHeaders, T!headers_info, Phase
    <3>2. TP!EmptyLine
      BY <2>3, <3>1, EmptyLineStep
    <3>3. TP!Framed
      BY <3>2, Assumptions, TP!FramedNow DEF IInv
    <3>4. T!IsRedirect(response.status) /\ location = response.location
      BY <2>3, <3>3 DEF TP!Framed, T!IsRedirect, TP!IsRedirect
    <3>. QED BY <2>1, <3>1, <3>4 DEF Whence
  <2>. QED BY <1>6, <2>2, <2>3 DEF Headers
<1>7. CASE Accept
  <2>1. /\ pc = "headers" /\ pc' = "body" /\ UNCHANGED <<server, wanted, response>>
        /\ tpc = "line" /\ tpc' # "redirect"
    BY <1>7 DEF Accept, S!Accepted, S!Answer, T!EmptyLine, T!AfterHeaders, T!call
  <2>2. answered
    BY <1>0, <2>1 DEF Asked
  <2>. QED BY <2>1, <2>2 DEF Whence
<1>8. CASE Redirect
  <2>1. /\ pc = "headers" /\ pc' \in {"check", "exit"} /\ server' = Target(location)
        /\ tpc = "redirect" /\ tpc' # "redirect" /\ UNCHANGED wanted
    BY <1>8 DEF Redirect, S!Redirect, S!Answer
  <2>2. response \in Serves[server.host][wanted] /\ server.host \in Reached(wanted)
    BY <1>0, <2>1 DEF Asked, Whence
  <2>3. Target(location).host \in Moves(server.host, wanted)
    BY <2>1, <2>2 DEF Whence, Moves
  <2>4. Target(location).host \in DOMAIN Serves
    BY ClientAssumption DEF S!Hosts
  <2>5. server'.host \in Reached(wanted)
    BY <2>1, <2>2, <2>3, <2>4, ReachedFrom
  <2>. QED BY <2>1, <2>5 DEF Whence
<1>9. CASE TakeBody
  <2>1. UNCHANGED <<pc, server, wanted, answered, response>> /\ tpc' # "redirect"
    BY <1>9 DEF TakeBody, session, Body, T!WriteRest, T!Copy, T!EndCopy, T!Refill, T!GetByte,
                T!EndOfData, T!BeginSize, T!ReadSize, T!SkipLine, T!UsedUp, T!AtData, T!call
  <2>. QED BY <2>1 DEF Whence
<1>. QED
  BY <1>1, <1>2, <1>3, <1>4, <1>5, <1>6, <1>7, <1>8, <1>9 DEF Next, Client, Terminated

-----------------------------------------------------------------------------
(* The contents that are promised                                          *)

\* What the destination holds, as a string if it is a variable.
LEMMA SameReceived == T!Received = TP!Received
<1>1. T!NUL = TP!NUL
  BY DEF T!NUL, TP!NUL, T!Byte, TP!Byte
<1>2. \A s : T!String(s) = TP!String(s)
  BY <1>1 DEF T!String, TP!String, T!SelectInSeq, TP!SelectInSeq, T!Min, TP!Min,
              T!ToSet, TP!ToSet
<1>. QED BY <1>2 DEF T!Received, TP!Received

\* A step of the client is one of the promise or does not show in it.
FetchStep == F!Next \/ UNCHANGED F!vars

LEMMA InitFetch == Init => F!Init
BY DEF Init, S!Init, F!Init

LEMMA Unseen ==
  ASSUME pc \notin {"idle", "exit"}, pc' \notin {"idle", "exit"}, UNCHANGED wanted
  PROVE  FetchStep
BY DEF FetchStep, F!vars

LEMMA Fails ==
  ASSUME pc \notin {"idle", "exit"}, pc' = "exit", tpc' # "idle", UNCHANGED wanted
  PROVE  FetchStep
BY DEF FetchStep, F!Next, F!Fail

LEMMA SameFetched ==
  ASSUME UNCHANGED <<pc, tpc, requests, dest, out, wanted>>
  PROVE  FetchStep
<1>1. T!Received' = T!Received
  BY DEF T!Received
<1>. QED BY <1>1 DEF FetchStep, F!vars

\* What is delivered is what was asked for, the whole of it.
LEMMA Delivers ==
  ASSUME TP!Reading, Together, Whence, EndBody
  PROVE  F!Deliver
<1>1. /\ pc = "body" /\ pc' \in {"idle", "exit"} /\ tpc = "end" /\ tpc' = "idle"
      /\ UNCHANGED <<wanted, requests, dest, out>>
  BY DEF EndBody, S!EndBody, T!Finish, T!call
<1>2. Phase = "end"
  BY <1>1 DEF Phase
<1>3. TP!Received = TP!Body(response) /\ response.status = 200
  BY <1>2 DEF TP!Reading, TP!WholeBody
<1>4. T!Received = T!Body(response)
  BY <1>3, SameReceived, SameResponses
<1>5. T!Received' = T!Received
  BY <1>1 DEF T!Received
<1>6. /\ wanted \in Resources /\ requests > 0
      /\ \E h \in Reached(wanted) : response \in Serves[h][wanted]
  BY <1>1 DEF Together, Wanted, Whence
<1>7. T!Body(response) \in Contents[wanted]
  BY <1>3, <1>6 DEF Contents
<1>. QED BY <1>1, <1>4, <1>5, <1>6, <1>7 DEF F!Deliver

LEMMA NextFetch ==
  ASSUME IInv, Whence, [Next]_vars
  PROVE  FetchStep
<1>1. CASE Ask
  BY <1>1 DEF Ask, S!Request, FetchStep, F!Next, F!Ask
<1>2. CASE Quit
  <2>1. /\ pc = "idle" /\ pc' = "exit" /\ UNCHANGED <<tpc, requests, dest, out, wanted>>
    BY <1>2 DEF Quit, S!Quit, transfer, call, received
  <2>2. T!Received' = T!Received
    BY <2>1 DEF T!Received
  <2>. QED BY <2>1, <2>2 DEF FetchStep, F!Next, F!Quit
<1>3. CASE Check \/ Resolve \/ Open \/ SendLine \/ Headers \/ Accept \/ TakeBody
  <2>1. UNCHANGED wanted
    BY <1>3 DEF Check, Resolve, Open, SendLine, Headers, Accept, TakeBody, session
  <2>2. CASE Check \/ Resolve \/ Open \/ SendLine \/ Accept
    BY <2>1, <2>2, Unseen DEF Check, Resolve, Open, SendLine, Accept, S!Check, S!Resolve, S!Open,
                              S!SendLine, S!Accepted, S!Answer
  <2>3. CASE Headers \/ TakeBody
    <3>1. UNCHANGED pc
      BY <2>3 DEF Headers, TakeBody, session
    <3>2. pc \notin {"idle", "exit"}
      BY <2>3 DEF Headers, TakeBody, Body, T!GetHeaders, T!HeaderLine, T!EmptyLine, T!WriteRest,
                  T!Copy, T!EndCopy, T!Refill, T!GetByte, T!EndOfData, T!BeginSize, T!ReadSize,
                  T!SkipLine, T!UsedUp, T!AtData, IInv, Places
    <3>. QED BY <2>1, <3>1, <3>2, Unseen
  <2>. QED BY <1>3, <2>2, <2>3
<1>4. CASE SendFails
  <2>1. /\ pc = "send" /\ pc' \in {"check", "exit"} /\ UNCHANGED <<tpc, wanted>>
    BY <1>4 DEF SendFails, S!SendFails, transfer
  <2>2. tpc' # "idle"
    BY <2>1 DEF IInv, Places
  <2>. QED BY <2>1, <2>2, Unseen, Fails
<1>5. CASE Refuse
  BY <1>5, Fails DEF Refuse, S!Refused, S!Answer, T!BadStatus
<1>6. CASE Redirect
  BY <1>6, Unseen, Fails DEF Redirect, S!Redirect, S!Answer
<1>7. CASE Die
  BY <1>7, Fails DEF Die, S!Die, S!Waiting
<1>8. CASE EndBody
  BY <1>8, Delivers DEF IInv, Together, FetchStep, F!Next
<1>9. CASE ServerAnswers \/ PeerCloses \/ UNCHANGED vars
  BY <1>9, SameFetched DEF ServerAnswers, PeerCloses, S!PeerCloses, vars, session, transfer,
                           call, received
<1>. QED BY <1>1, <1>2, <1>3, <1>4, <1>5, <1>6, <1>7, <1>8, <1>9 DEF Next, Client, Terminated

\* For any servers, sizes and faults but failed DNS queries, each request gets
\* the whole contents of what it asked for, from a host it was to go to, or the
\* command ends, if servers answer what hub can read.  (That each request ends
\* is left to TLC.)
THEOREM FetchImplemented ==
  ASSUME \A r \in Responses : T!CanRead(r), \A k : Target(k) \in Servers, "dns" \notin Faults
  PROVE  Spec => F!Init /\ [][F!Next]_(F!vars)
<1>. DEFINE Inv == IInv /\ SP!IInv /\ Whence
<1>1. Init => Inv /\ F!Init
  BY InitInv, InitKept, InitWhence, InitFetch
<1>2. Inv /\ [Next]_vars => Inv'
  BY NextInv, NextKept, NextWhence
<1>3. Inv /\ [Next]_vars => [F!Next]_(F!vars)
  BY NextFetch DEF FetchStep
<1>. QED BY <1>1, <1>2, <1>3, PTL DEF Spec

-----------------------------------------------------------------------------
(* What HttpSession and HttpTransfer keep by themselves                    *)

\* The rule that a request goes to the host it is meant for, and the one that a
\* connection is kept only to the host whose name is remembered, hold of the
\* whole client, where "Connection: close" comes in the middle of an answer.
THEOREM ClientRightHost ==
  ASSUME \A k : Target(k) \in Servers, "dns" \notin Faults
  PROVE  Spec => []S!RightHost /\ []S!KeptToItsHost
<1>1. Init => SP!IInv
  BY InitKept
<1>2. SP!IInv /\ [Next]_vars => SP!IInv'
  BY NextKept
<1>3. SP!IInv => S!RightHost /\ S!KeptToItsHost
  BY DEF SP!IInv, SP!Session, SP!Kept, S!RightHost, S!KeptToItsHost
<1>. QED BY <1>1, <1>2, <1>3, PTL DEF Spec

\* What the server answers is a request as a whole, in the client too.
THEOREM ClientWholeRequest == Spec => S!WholeRequest
<1>. DEFINE Whole == got # <<>> /\ got' = <<>> /\ pc = "headers" => got = [i \in 1..Lines |-> i]
            Inv == keepalive \in BOOLEAN /\ SP!Sent
<1>1. Init => Inv
  BY InitSession
<1>2. Inv /\ [Next]_vars => Inv'
  BY NextSession
<1>3. Inv /\ [Next]_vars => [Whole]_(S!vars)
  <2>. SUFFICES ASSUME SP!Sent, Next, pc = "headers", got' = <<>>, got' # got
                PROVE  got = [i \in 1..Lines |-> i]
    BY DEF vars, session, S!vars, S!connection
  <2>1. S!Answer(FALSE)
    BY DEF Next, Client, Ask, Quit, Check, Resolve, Open, SendLine, SendFails, Headers, Accept,
           Refuse, Redirect, TakeBody, EndBody, Die, ServerAnswers, PeerCloses, Terminated, vars,
           session, S!Request, S!Quit, S!Check, S!Resolve, S!Open, S!SendLine, S!SendFails,
           S!Accepted, S!Refused, S!Redirect, S!EndBody, S!Die, S!PeerCloses, S!connection
  <2>. QED BY <2>1, AnswerStep, Assumptions, SP!AnswerToWhole
<1>. QED BY <1>1, <1>2, <1>3, PTL DEF Spec, S!WholeRequest

\* When a body ends the destination holds the whole of it, in the client too,
\* where the transfer begins before the server answers.
THEOREM ClientWholeBody ==
  ASSUME \A r \in Responses : T!CanRead(r)
  PROVE  Spec => []T!WholeBody
<1>1. Init => IInv
  BY InitInv
<1>2. IInv /\ [Next]_vars => IInv'
  BY NextInv
<1>3. IInv => T!WholeBody
  <2>1. tpc = "end" => Phase = "end"
    BY DEF Phase
  <2>. QED BY <2>1, SameReceived, SameResponses DEF IInv, TP!Reading, TP!WholeBody, T!WholeBody
<1>. QED BY <1>1, <1>2, <1>3, PTL DEF Spec
=============================================================================
