------------------------- MODULE HttpSessionProofs -------------------------
(***************************************************************************)
(* What holds of HttpSession for all servers, faults and lengths of        *)
(* requests, as long as no DNS query fails.                                *)
(*                                                                         *)
(* RightHost and KeptToItsHost each need the other, and both need to know  *)
(* what keepalivehostname is between the two places that look at it: while *)
(* a request is under way it is the host of that request, but only if the  *)
(* connection may still be kept; Session says so.                          *)
(***************************************************************************)
EXTENDS HttpSession, SequenceTheorems, TLAPS

Kept == keepingconnectionalive /\ conn # NoConn => conn.host = keepalivehostname

Session ==
  /\ pc \in {"idle", "check"} => Kept
  /\ pc = "idle" /\ keepingconnectionalive => conn # NoConn
  /\ pc = "open" => conn = NoConn /\ remote_ip = server.host
  /\ pc \in {"send", "headers", "body"} =>
       /\ conn # NoConn => conn.host = server.host
       /\ trykeepalive => keepalivehostname = server.host
  /\ pc \in {"headers", "body"} => conn # NoConn

\* The types the argument needs.
Types ==
  /\ server \in Servers
  /\ conn \in Servers \cup {NoConn}
  /\ trykeepalive \in BOOLEAN
  /\ keepingconnectionalive \in BOOLEAN
  /\ continue_using_keep_alive \in BOOLEAN
  /\ keepalive \in BOOLEAN

IInv == Types /\ Session

LEMMA InitSession == Init => IInv
BY SessionAssumption DEF Init, IInv, Types, Session, Kept

LEMMA NextSession ==
  ASSUME "dns" \notin Faults, IInv, [Next]_vars
  PROVE  IInv'
<1>. USE DEF IInv, Types, Session, Kept
<1>1. CASE Request
  BY <1>1, SessionAssumption DEF Request, connection
<1>2. CASE Quit
  BY <1>2 DEF Quit, request, keep
<1>3. CASE Check
  BY <1>3 DEF Check, Reuse, request, connection
<1>4. CASE Resolve
  BY <1>4 DEF Resolve, request, keep
<1>5. CASE Open
  BY <1>5, SessionAssumption DEF Open, Peer, request
<1>6. CASE SendLine
  BY <1>6 DEF SendLine, request, keep
<1>7. CASE SendFails
  BY <1>7 DEF SendFails, request, connection
<1>8. ASSUME NEW close \in BOOLEAN, NEW target \in Servers, Redirect(close, target)
      PROVE  IInv'
  BY <1>8 DEF Redirect, Answer
<1>9. ASSUME NEW close \in BOOLEAN, Refused(close)
      PROVE  IInv'
  BY <1>9 DEF Refused, Answer
<1>10. ASSUME NEW close \in BOOLEAN, Accepted(close)
       PROVE  IInv'
  BY <1>10 DEF Accepted, Answer
<1>11. CASE EndBody
  BY <1>11 DEF EndBody, request
<1>12. CASE Die
  BY <1>12 DEF Die, request, connection, keep
<1>13. CASE PeerCloses
  BY <1>13 DEF PeerCloses, request, keep
<1>14. CASE UNCHANGED vars
  BY <1>14 DEF vars, request, connection, keep
<1>. QED
  BY <1>1, <1>2, <1>3, <1>4, <1>5, <1>6, <1>7, <1>8, <1>9, <1>10, <1>11, <1>12,
     <1>13, <1>14 DEF Next, Client, Receive, Terminated

\* Every line of every request goes to the host it is meant for, whatever is
\* redirected, repeated or closed.
THEOREM AlwaysRightHost ==
  ASSUME "dns" \notin Faults
  PROVE  Spec => []RightHost
<1>1. Init => IInv
  BY InitSession
<1>2. IInv /\ [Next]_vars => IInv'
  BY NextSession
<1>3. IInv => RightHost
  BY DEF IInv, Session, RightHost
<1>. QED BY <1>1, <1>2, <1>3, PTL DEF Spec

\* A connection kept for the next request is one to the host remembered.
THEOREM AlwaysKeptToItsHost ==
  ASSUME "dns" \notin Faults
  PROVE  Spec => []KeptToItsHost
<1>1. Init => IInv
  BY InitSession
<1>2. IInv /\ [Next]_vars => IInv'
  BY NextSession
<1>3. IInv => KeptToItsHost
  BY DEF IInv, Session, Kept, KeptToItsHost
<1>. QED BY <1>1, <1>2, <1>3, PTL DEF Spec

-----------------------------------------------------------------------------
(* Requests arrive whole.  Nothing is assumed of DNS here.                 *)

\* What the peer has got of a request is its beginning: all that was sent, as
\* long as the connection is alive.  A connection that may be reused has
\* nothing of an earlier request on it.
Sent ==
  /\ line \in Nat
  /\ got \in Seq(Nat) /\ \A i \in 1..Len(got) : got[i] = i
  /\ pc \in {"idle", "check"} /\ keepingconnectionalive /\ continue_using_keep_alive => got = <<>>
  /\ pc \in {"resolve", "open"} => line = 0
  /\ pc = "send" => Len(got) <= line /\ line < Lines /\ (alive => Len(got) = line)
  /\ pc = "headers" => Len(got) <= Lines
  /\ pc = "body" => got = <<>>

LEMMA EmptyIsSent == <<>> \in Seq(Nat) /\ Len(<<>>) = 0
OBVIOUS

LEMMA InitSent == Init => Sent
BY SessionAssumption, EmptyIsSent DEF Init, Sent

\* With an answer, what was sent has been answered.
LEMMA AnswerSent ==
  ASSUME Sent, NEW close \in BOOLEAN, Answer(close), pc' \in {"check", "exit", "body"}
  PROVE  Sent'
BY EmptyIsSent DEF Answer, Sent

LEMMA NextSent == Sent /\ [Next]_vars => Sent'
<1>. SUFFICES ASSUME Sent, [Next]_vars PROVE Sent'
  OBVIOUS
<1>. USE SessionAssumption DEF Sent
<1>1. CASE Request
  BY <1>1 DEF Request, connection
<1>2. CASE Quit
  BY <1>2 DEF Quit
<1>3. CASE Check
  BY <1>3, EmptyIsSent DEF Check, Reuse, connection
<1>4. CASE Resolve
  BY <1>4 DEF Resolve
<1>5. CASE Open
  BY <1>5, EmptyIsSent DEF Open
<1>6. CASE SendLine
  <2>1. line' = line + 1 /\ line' \in Nat /\ line' <= Lines /\ alive' = alive
    BY <1>6 DEF SendLine
  <2>2. pc' \in {"headers", "send"} /\ (pc' = "send" => line' # Lines)
    BY <1>6 DEF SendLine
  <2>3. CASE alive
    <3>1. got' = Append(got, line') /\ Len(got) + 1 = line'
      BY <1>6, <2>1, <2>3 DEF SendLine
    <3>2. got' \in Seq(Nat) /\ Len(got') = line' /\ \A i \in 1..Len(got') : got'[i] = i
      BY <2>1, <3>1
    <3>. QED
      BY <2>1, <2>2, <3>2
  <2>4. CASE ~alive
    <3>1. got' = got /\ Len(got) <= line
      BY <1>6, <2>4 DEF SendLine
    <3>. QED
      BY <2>1, <2>2, <2>4, <3>1
  <2>. QED
    BY <2>3, <2>4
<1>7. CASE SendFails
  BY <1>7 DEF SendFails, connection
<1>8. ASSUME NEW close \in BOOLEAN, NEW target \in Servers, Redirect(close, target)
      PROVE  Sent'
  BY <1>8, AnswerSent DEF Redirect
<1>9. ASSUME NEW close \in BOOLEAN, Refused(close) \/ Accepted(close)
       PROVE  Sent'
  BY <1>9, AnswerSent DEF Refused, Accepted
<1>10. CASE EndBody
  BY <1>10 DEF EndBody
<1>11. CASE Die
  BY <1>11 DEF Die, connection
<1>12. CASE PeerCloses
  BY <1>12 DEF PeerCloses, keep
<1>13. CASE UNCHANGED vars
  BY <1>13 DEF vars, connection, keep
<1>. QED
  BY <1>1, <1>2, <1>3, <1>4, <1>5, <1>6, <1>7, <1>8, <1>9, <1>10, <1>11, <1>12, <1>13
  DEF Next, Client, Receive, Terminated

LEMMA AnswerToWhole ==
  ASSUME Sent, NEW close \in BOOLEAN, Answer(close)
  PROVE  got = [i \in 1..Lines |-> i]
<1>1. Len(got) \in Nat \ {0} /\ got[Len(got)] = Lines
  BY DEF Sent, Answer
<1>2. Len(got) = Lines
  BY <1>1 DEF Sent
<1>. QED
  BY <1>2 DEF Sent

\* Whatever connection a request goes over, and however often it is begun again,
\* what is answered is the request as a whole.
THEOREM AlwaysWholeRequest == Spec => WholeRequest
<1>. DEFINE Whole == got # <<>> /\ got' = <<>> /\ pc = "headers" => got = [i \in 1..Lines |-> i]
<1>1. Sent /\ [Next]_vars => [Whole]_vars
  <2>. SUFFICES ASSUME Sent, Next, pc = "headers", UNCHANGED got \/ got' = <<>>, got' # got
                PROVE  got = [i \in 1..Lines |-> i]
    OBVIOUS
  <2>1. \E close \in BOOLEAN : Answer(close)
    BY DEF Next, Client, Receive, Request, Quit, Check, Resolve, Open, SendLine, SendFails,
           Redirect, Refused, Accepted, EndBody, Die, PeerCloses, Terminated, vars, connection
  <2>. QED
    BY <2>1, AnswerToWhole
<1>. QED BY <1>1, InitSent, NextSent, PTL DEF Spec, WholeRequest

-----------------------------------------------------------------------------
(* Types.  Nothing is assumed of DNS here either.                          *)

\* A line is sent only while there are lines left.
TypeInv ==
  /\ TypeOK
  /\ pc \in {"resolve", "open"} => line = 0
  /\ pc = "send" => line < Lines

LEMMA InitTyped == Init => TypeInv
<1>. SUFFICES ASSUME Init PROVE TypeInv
  OBVIOUS
<1>1. <<>> \in Seq(1..Lines) /\ Origin \in Servers /\ 0 \in 0..Lines /\ 0 \in 0..MaxRedirects
  BY SessionAssumption, EmptySeq
<1>. QED BY <1>1 DEF Init, TypeInv, TypeOK

LEMMA AnswerTyped ==
  ASSUME TypeInv, NEW close \in BOOLEAN, Answer(close)
  PROVE  got' \in Seq(1..Lines) /\ trykeepalive' \in BOOLEAN
BY EmptySeq DEF Answer, TypeInv, TypeOK

LEMMA NextTyped == TypeInv /\ [Next]_vars => TypeInv'
<1>. SUFFICES ASSUME TypeInv, [Next]_vars PROVE TypeInv'
  OBVIOUS
<1>. USE SessionAssumption DEF TypeInv, TypeOK
<1>1. CASE Request
  BY <1>1 DEF Request, connection
<1>2. CASE Quit
  BY <1>2 DEF Quit, request, keep
<1>3. CASE Check
  BY <1>3 DEF Check, request, connection
<1>4. CASE Resolve
  BY <1>4 DEF Resolve, Hosts, request, keep
<1>5. CASE Open
  BY <1>5, EmptySeq DEF Open, Hosts, request
<1>6. CASE SendLine
  <2>1. line' \in 1..Lines /\ (pc' = "send" => line' < Lines)
    BY <1>6 DEF SendLine
  <2>2. got' \in Seq(1..Lines)
    BY <1>6, <2>1, AppendProperties DEF SendLine
  <2>. QED BY <1>6, <2>1, <2>2 DEF SendLine, request, keep
<1>7. CASE SendFails
  BY <1>7 DEF SendFails, request, connection
<1>8. ASSUME NEW close \in BOOLEAN, NEW target \in Servers, Redirect(close, target)
      PROVE  TypeInv'
  <2>1. n' \in 0..MaxRedirects /\ pc' \in {"exit", "check"} /\ server' \in Servers /\ conn' = NoConn
    BY <1>8 DEF Redirect
  <2>. QED BY <1>8, <2>1, AnswerTyped DEF Redirect, Answer
<1>9. ASSUME NEW close \in BOOLEAN, Refused(close) \/ Accepted(close)
      PROVE  TypeInv'
  BY <1>9, AnswerTyped DEF Refused, Accepted, Answer
<1>10. CASE EndBody
  BY <1>10 DEF EndBody, request
<1>11. CASE Die
  BY <1>11 DEF Die, request, connection, keep
<1>12. CASE PeerCloses
  BY <1>12 DEF PeerCloses, request, keep
<1>13. CASE UNCHANGED vars
  BY <1>13 DEF vars, request, connection, keep
<1>. QED
  BY <1>1, <1>2, <1>3, <1>4, <1>5, <1>6, <1>7, <1>8, <1>9, <1>10, <1>11, <1>12, <1>13
     DEF Next, Client, Receive, Terminated

\* Every variable has its type: no more lines than a request has are sent, and no
\* more redirects followed than are allowed.
THEOREM AlwaysTyped == Spec => []TypeOK
<1>1. Init => TypeInv
  BY InitTyped
<1>2. TypeInv /\ [Next]_vars => TypeInv'
  BY NextTyped
<1>3. TypeInv => TypeOK
  BY DEF TypeInv
<1>. QED BY <1>1, <1>2, <1>3, PTL DEF Spec
=============================================================================
