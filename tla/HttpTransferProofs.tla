------------------------- MODULE HttpTransferProofs -------------------------
(***************************************************************************)
(* What holds of HttpTransfer for any responses and any sizes of the       *)
(* buffer and of the variable:                                             *)
(*                                                                         *)
(*   - every variable has its type, and the variable a body goes to is     *)
(*     never written past its end (AlwaysTyped);                           *)
(*   - a body that is not chunked is taken in order, however its headers   *)
(*     are cut and misread, while the connection lasts                     *)
(*     (AlwaysTakenInOrder);                                               *)
(*                                                                         *)
(* and for every answer hub can read (CanRead), any segments it comes in,  *)
(* and a connection that may be lost at any time:                          *)
(*                                                                         *)
(*   - at the empty line the headers have told how the body is framed      *)
(*     (AlwaysFramingKnown);                                               *)
(*   - when the transfer ends, the destination holds the body              *)
(*     (AlwaysWholeBody);                                                  *)
(*   - a connection that is kept has nothing left of the answer            *)
(*     (AlwaysInSync).                                                     *)
(*                                                                         *)
(* The inductive invariant of these, Reading, counts: where hub is in the  *)
(* message the server sent, what the buffer holds of it from there on,     *)
(* what is still to come, and what the destination holds of the body.      *)
(***************************************************************************)
EXTENDS HttpTransfer, SequenceTheorems, WellFoundedInduction, TLAPS

-----------------------------------------------------------------------------
(* Numbers and sequences                                                   *)

\* A set of numbers that has an element has a least one.
LEMMA LeastExists ==
  ASSUME NEW E, E \subseteq Nat, E # {}
  PROVE  \E e \in E : \A f \in E : e <= f
<1>1. \E e \in E : \A f \in E : <<f, e>> \notin OpToRel(<, Nat)
  BY NatLessThanWellFounded, WFMin
<1>2. PICK e \in E : \A f \in E : <<f, e>> \notin OpToRel(<, Nat)
  BY <1>1
<1>3. \A f \in E : ~(f < e)
  BY <1>2 DEF OpToRel
<1>4. e \in Nat /\ \A f \in E : f \in Nat
  OBVIOUS
<1>5. \A f \in E : e <= f
  BY <1>3, <1>4
<1>. QED BY <1>5

\* A part of a sequence.
LEMMA PartOf ==
  ASSUME NEW S, NEW s \in Seq(S), NEW a \in Nat, NEW b \in Nat, b <= Len(s)
  PROVE  /\ SubSeq(s, a + 1, b) \in Seq(S)
         /\ Len(SubSeq(s, a + 1, b)) = IF a < b THEN b - a ELSE 0
         /\ \A i \in 1..b - a : SubSeq(s, a + 1, b)[i] = s[a + i]
<1>1. Len(s) \in Nat
  BY LenProperties
<1>2. \A i \in a + 1..b : s[i] \in S
  BY <1>1, ElementOfSeq
<1>3. /\ SubSeq(s, a + 1, b) \in Seq(S)
      /\ Len(SubSeq(s, a + 1, b)) = IF a + 1 <= b THEN b - (a + 1) + 1 ELSE 0
      /\ \A i \in 1..b - (a + 1) + 1 : SubSeq(s, a + 1, b)[i] = s[(a + 1) + i - 1]
  BY <1>2, SubSeqProperties
<1>. HIDE <1>2
<1>4. b - (a + 1) + 1 = b - a /\ \A i \in 1..b - a : (a + 1) + i - 1 = a + i
  OBVIOUS
<1>5. Len(SubSeq(s, a + 1, b)) = IF a < b THEN b - a ELSE 0
  BY <1>3
<1>6. ASSUME NEW i \in 1..b - a
      PROVE  SubSeq(s, a + 1, b)[i] = s[a + i]
  BY <1>3, <1>4
<1>. QED BY <1>3, <1>5, <1>6

\* What tcp_get() leaves in the buffer: the segment at its beginning, and after
\* it what was there before.
LEMMA SegmentReceived ==
  ASSUME NEW S, NEW s \in Seq(S), NEW d \in Seq(S), NEW k \in 1..Len(s)
  PROVE  LET b == SubSeq(s, 1, k) \o SubSeq(d, k + 1, Len(d))
         IN  /\ b \in Seq(S)
             /\ Len(b) = IF k < Len(d) THEN Len(d) ELSE k
             /\ SubSeq(b, 1, k) = SubSeq(s, 1, k)
<1>. DEFINE f == SubSeq(s, 1, k)
            g == SubSeq(d, k + 1, Len(d))
<1>1. Len(s) \in Nat /\ Len(d) \in Nat /\ k \in Nat /\ k <= Len(s)
  BY LenProperties
<1>2. f \in Seq(S) /\ Len(f) = k
  <2>1. SubSeq(s, 0 + 1, k) \in Seq(S)
        /\ Len(SubSeq(s, 0 + 1, k)) = IF 0 < k THEN k - 0 ELSE 0
    BY <1>1, PartOf
  <2>2. 0 + 1 = 1 /\ k - 0 = k
    BY <1>1
  <2>. QED BY <2>1, <2>2, <1>1
<1>3. g \in Seq(S) /\ Len(g) = IF k < Len(d) THEN Len(d) - k ELSE 0
  BY <1>1, PartOf
<1>. HIDE DEF f, g
<1>4. f \o g \in Seq(S) /\ Len(f \o g) = Len(f) + Len(g)
  BY <1>2, <1>3, ConcatProperties
<1>5. Len(f \o g) = IF k < Len(d) THEN Len(d) ELSE k
  BY <1>1, <1>2, <1>3, <1>4
<1>6. SubSeq(f \o g, 1, k) = SubSeq(f, 1, k)
  BY <1>1, <1>2, <1>3, SubSeqOfConcat1
<1>7. SubSeq(f, 1, k) = f
  BY <1>2, SubSeqFull
<1>. QED BY <1>4, <1>5, <1>6, <1>7 DEF f, g

\* The two parts of a sequence make it up.
LEMMA Parts ==
  ASSUME NEW S, NEW s \in Seq(S), NEW k \in 0..Len(s)
  PROVE  /\ SubSeq(s, 1, k) \in Seq(S) /\ SubSeq(s, k + 1, Len(s)) \in Seq(S)
         /\ SubSeq(s, 1, k) \o SubSeq(s, k + 1, Len(s)) = s
         /\ Len(SubSeq(s, k + 1, Len(s))) = Len(s) - k
<1>1. Len(s) \in Nat /\ k \in Nat /\ k <= Len(s)
  BY LenProperties
<1>2. SubSeq(s, 0 + 1, k) \in Seq(S) /\ 0 + 1 = 1
  BY <1>1, PartOf
<1>3. SubSeq(s, k + 1, Len(s)) \in Seq(S)
      /\ Len(SubSeq(s, k + 1, Len(s))) = IF k < Len(s) THEN Len(s) - k ELSE 0
  BY <1>1, PartOf
<1>4. Len(SubSeq(s, k + 1, Len(s))) = Len(s) - k
  BY <1>1, <1>3
<1>5. 1 \in 1..Len(s) + 1 /\ k \in 1 - 1..Len(s) /\ Len(s) \in k..Len(s)
  BY <1>1
<1>6. SubSeq(s, 1, k) \o SubSeq(s, k + 1, Len(s)) = SubSeq(s, 1, Len(s))
  BY <1>5, ConcatAdjacentSubSeq
<1>. QED BY <1>2, <1>3, <1>4, <1>6, SubSeqFull

-----------------------------------------------------------------------------
(* What the server sends                                                   *)

\* A line consists of bytes.
LEMMA LineTyped ==
  ASSUME NEW v \in Nat,
         NEW name \in {"status", "location", "content-length", "transfer-encoding",
                       "connection"}
  PROVE  Line(name, v) \in Seq(AnyByte)
<1>1. \A i \in 1..2 : [kind |-> name, part |-> i, value |-> v] \in AnyByte
  BY DEF AnyByte
<1>2. Text(name, v) \in Seq(AnyByte)
  BY <1>1, IsASeq DEF Text
<1>3. CR \in AnyByte /\ LF \in AnyByte
  BY DEF CR, LF, Byte, AnyByte
<1>4. <<CR, LF>> \in Seq(AnyByte)
  BY <1>3
<1>. QED BY <1>2, <1>4, ConcatProperties DEF Line

\* So does what the server sends.
LEMMA MessageTyped ==
  ASSUME NEW r \in Responses
  PROVE  Header(r) \in Seq(AnyByte) /\ Payload(r) \in Seq(AnyByte)
<1>1. /\ r.status \in Nat /\ r.location \in Nat
      /\ Body(r) \in Seq(AnyByte) /\ Payload(r) \in Seq(AnyByte)
  BY ResponsesAssumption
<1>2. Len(Body(r)) \in Nat
  BY <1>1, LenProperties
<1>. DEFINE a == Line("status", r.status)
            b == IF IsRedirect(r.status) THEN Line("location", r.location) ELSE <<>>
            c == CASE r.framing = "length"  -> Line("content-length", Len(Body(r)))
                   [] r.framing = "chunked" -> Line("transfer-encoding", 0)
                   [] OTHER                 -> <<>>
            d == IF r.close THEN Line("connection", 0) ELSE <<>>
            e == <<CR, LF>>
<1>3. a \in Seq(AnyByte)
  BY <1>1, LineTyped
<1>4. b \in Seq(AnyByte)
  BY <1>1, LineTyped, EmptySeq
<1>5. c \in Seq(AnyByte)
  BY <1>2, LineTyped, EmptySeq
<1>6. d \in Seq(AnyByte)
  BY LineTyped, EmptySeq
<1>7. e \in Seq(AnyByte)
  BY DEF CR, LF, Byte, AnyByte
<1>8. Header(r) = a \o b \o c \o d \o e
  BY DEF Header
<1>. HIDE DEF a, b, c, d, e
<1>9. a \o b \o c \o d \o e \in Seq(AnyByte)
  BY <1>3, <1>4, <1>5, <1>6, <1>7, ConcatProperties
<1>. QED BY <1>1, <1>8, <1>9

-----------------------------------------------------------------------------
(* Types                                                                   *)

\* What TypeOK needs to be inductive: what is sent, kept and delivered are bytes.
TypeInv ==
  /\ TypeOK
  /\ stream \in Seq(AnyByte) /\ data \in Seq(AnyByte) /\ out \in Seq(AnyByte)
  /\ head \in Nat
  /\ pc \in {"rest", "copy"} => dest = "file"

LEMMA Lengths ==
  ASSUME TypeInv
  PROVE  /\ Len(stream) \in Nat /\ Len(data) \in Nat /\ Len(out) \in Nat
         /\ size \in Nat /\ current_pos \in Nat /\ n \in Nat
         /\ BufferSize \in Nat \ {0} /\ MaxData \in Nat \ {0} /\ MaxRequests \in Nat
<1>1. Len(stream) \in Nat /\ Len(data) \in Nat /\ Len(out) \in Nat
  BY LenProperties DEF TypeInv
<1>. QED BY <1>1, TransferAssumption DEF TypeInv, TypeOK

\* The end of a line, if there is one, is behind where the line begins.
LEMMA LineEndTyped ==
  ASSUME TypeInv, Ends # {}
  PROVE  LineEnd \in Nat /\ current_pos < LineEnd /\ LineEnd <= Len(data)
<1>1. Len(data) \in Nat /\ current_pos \in Nat
  BY Lengths
<1>2. Ends \subseteq Nat
  BY <1>1 DEF Ends
<1>3. \E e \in Ends : \A f \in Ends : e <= f
  BY <1>2, LeastExists
<1>4. LineEnd \in Ends
  BY <1>3 DEF LineEnd
<1>. QED BY <1>1, <1>4 DEF Ends

\* The value of a line is a number.
LEMMA ValueTyped ==
  ASSUME TypeInv, Ends # {}, Kept # {}
  PROVE  Value \in Nat
<1>1. /\ Len(data) \in Nat /\ current_pos \in Nat
      /\ LineEnd \in Nat /\ LineEnd <= Len(data)
  BY Lengths, LineEndTyped
<1>2. Kept \subseteq Nat
  BY <1>1 DEF Kept
<1>3. \E i \in Kept : \A j \in Kept : i <= j
  BY <1>2, LeastExists
<1>4. PICK i \in Kept : i = CHOOSE h \in Kept : \A j \in Kept : h <= j
  BY <1>3
<1>5. i \in 1..Len(data)
  BY <1>1 DEF Kept
<1>6. data[i] \in AnyByte
  BY <1>5, ElementOfSeq DEF TypeInv
<1>7. data[i].value \in Nat
  BY <1>6 DEF AnyByte
<1>. QED BY <1>4, <1>7 DEF Value

LEMMA NextTyped ==
  ASSUME TypeInv, current_pos < size
  PROVE  Next_byte \in AnyByte
<1>1. current_pos + 1 \in 1..Len(data)
  BY Lengths DEF TypeInv, TypeOK
<1>. QED BY <1>1, ElementOfSeq DEF TypeInv, Next_byte

\* Bytes that are received are bytes in the buffer.
LEMMA ReceiveTyped ==
  ASSUME TypeInv, NEW k, Receive(k)
  PROVE  /\ k \in Nat /\ 0 < k /\ k <= Len(data') /\ Len(data) <= Len(data')
         /\ Len(data') \in Nat /\ Len(data') <= BufferSize
         /\ data' \in Seq(AnyByte) /\ stream' \in Seq(AnyByte)
         /\ SubSeq(data', 1, k) = SubSeq(stream, 1, k)
         /\ head' \in Nat /\ head' <= Len(stream') /\ alive' = alive
<1>1. /\ k \in 1..Len(stream) /\ k \in Nat /\ 0 < k /\ k <= BufferSize /\ k <= Len(stream)
      /\ data' = SubSeq(stream, 1, k) \o SubSeq(data, k + 1, Len(data))
      /\ stream' = SubSeq(stream, k + 1, Len(stream))
      /\ head' = IF k >= head THEN 0 ELSE head - k
      /\ alive' = alive
  BY Lengths DEF Receive
<1>2. /\ data' \in Seq(AnyByte)
      /\ Len(data') = IF k < Len(data) THEN Len(data) ELSE k
      /\ SubSeq(data', 1, k) = SubSeq(stream, 1, k)
  BY <1>1, SegmentReceived DEF TypeInv
<1>3. /\ stream' \in Seq(AnyByte)
      /\ Len(stream') = Len(stream) - k
  BY <1>1, Lengths, Parts, SMTT(20) DEF TypeInv
<1>4. head \in Nat /\ head <= Len(stream) /\ Len(data) <= BufferSize
  BY DEF TypeInv, TypeOK
<1>5. head' \in Nat /\ head' <= Len(stream')
  <2>1. CASE k >= head
    BY <1>1, <1>3, <1>4, <2>1, Lengths
  <2>2. CASE ~(k >= head)
    BY <1>1, <1>3, <1>4, <2>2, Lengths
  <2>. QED BY <2>1, <2>2
<1>6. k <= Len(data') /\ Len(data) <= Len(data') /\ Len(data') \in Nat /\ Len(data') <= BufferSize
  BY <1>1, <1>2, <1>4, Lengths
<1>. QED BY <1>1, <1>2, <1>3, <1>5, <1>6

\* A byte is taken from those in the buffer.
LEMMA TakeTyped ==
  ASSUME TypeInv, Take
  PROVE  current_pos' \in 0..Len(data) /\ data_fetched' \in Nat
<1>1. /\ current_pos' = current_pos + 1 /\ data_fetched' = data_fetched + 1
      /\ current_pos < size
  BY DEF Take
<1>2. data_fetched \in Nat /\ size <= Len(data)
  BY Lengths DEF TypeInv, TypeOK
<1>. QED BY <1>1, <1>2, Lengths

\* What is put at the destination.
LEMMA PutTyped ==
  ASSUME TypeInv, NEW byte \in AnyByte, Put(byte)
  PROVE  /\ out' \in Seq(AnyByte) /\ n' \in 0..MaxData - 1
         /\ dest = "VAR" /\ Len(out) <= MaxData => Len(out') <= MaxData
         /\ dest # "VAR" => out' = Append(out, byte)
<1>1. n \in 0..MaxData - 1 /\ Len(out) \in Nat /\ MaxData \in Nat \ {0} /\ out \in Seq(AnyByte)
  BY Lengths DEF TypeInv, TypeOK
<1>2. Append(out, byte) \in Seq(AnyByte) /\ Len(Append(out, byte)) = Len(out) + 1
  BY <1>1, AppendProperties
<1>3. CASE dest # "VAR"
  BY <1>1, <1>2, <1>3 DEF Put
<1>4. CASE dest = "VAR"
  <2>1. n' \in 0..MaxData - 1
    BY <1>1, <1>4 DEF Put
  <2>2. CASE n < Len(out)
    <3>1. n + 1 \in 1..Len(out)
      BY <1>1, <2>2
    <3>2. out' = [out EXCEPT ![n + 1] = byte]
      BY <1>4, <2>2 DEF Put
    <3>3. out' \in Seq(AnyByte) /\ Len(out') = Len(out)
      BY <1>1, <3>1, <3>2, ExceptSeq
    <3>. QED BY <1>4, <2>1, <3>3
  <2>3. CASE ~(n < Len(out))
    <3>1. out' = Append(out, byte)
      BY <1>4, <2>3 DEF Put
    <3>2. Len(out') <= MaxData
      BY <1>1, <1>2, <2>3, <3>1
    <3>. QED BY <1>2, <1>4, <2>1, <3>1, <3>2
  <2>. QED BY <2>2, <2>3
<1>. QED BY <1>3, <1>4

LEMMA PutNulTyped ==
  ASSUME TypeInv, PutNul
  PROVE  /\ out' \in Seq(AnyByte) /\ n' \in 0..MaxData - 1
         /\ dest = "VAR" /\ Len(out) <= MaxData => Len(out') <= MaxData
         /\ dest # "VAR" => out' = out
<1>1. NUL \in AnyByte
  BY DEF NUL, Byte, AnyByte
<1>2. CASE dest = "VAR"
  BY <1>1, <1>2, PutTyped DEF PutNul
<1>3. CASE dest # "VAR"
  BY <1>3 DEF PutNul, TypeInv, TypeOK
<1>. QED BY <1>2, <1>3

LEMMA AnswerTyped ==
  ASSUME NEW r \in Responses, NEW before \in Seq(AnyByte), Answer(r, before)
  PROVE  /\ response' = r /\ stream' \in Seq(AnyByte)
         /\ head' \in Nat /\ head' <= Len(stream')
<1>1. /\ Header(r) \in Seq(AnyByte) /\ Payload(r) \in Seq(AnyByte)
      /\ Len(Header(r)) \in Nat /\ Len(Payload(r)) \in Nat /\ Len(before) \in Nat
  BY MessageTyped, LenProperties
<1>2. /\ before \o Header(r) \in Seq(AnyByte)
      /\ Len(before \o Header(r)) = Len(before) + Len(Header(r))
  BY <1>1, ConcatProperties
<1>3. /\ before \o Header(r) \o Payload(r) \in Seq(AnyByte)
      /\ Len(before \o Header(r) \o Payload(r)) = Len(before) + Len(Header(r)) + Len(Payload(r))
  BY <1>1, <1>2, ConcatProperties
<1>. QED BY <1>1, <1>3 DEF Answer

LEMMA InitTyped == Init => TypeInv
<1>. SUFFICES ASSUME Init PROVE TypeInv
  OBVIOUS
<1>1. <<>> \in Seq(AnyByte) /\ Len(<<>>) = 0
  OBVIOUS
<1>2. trykeepalive \in BOOLEAN /\ alive \in BOOLEAN /\ is_chunked \in BOOLEAN
      /\ is_redirect \in BOOLEAN /\ chunked_data_available \in BOOLEAN
  BY TransferAssumption DEF Init
<1>3. BufferSize \in Nat /\ MaxData \in Nat \ {0} /\ MaxRequests \in Nat
  BY TransferAssumption
<1>4. /\ size \in 0..Len(data) /\ current_pos \in 0..Len(data) /\ Len(data) <= BufferSize
      /\ head \in Nat /\ head <= Len(stream) /\ n \in 0..MaxData - 1 /\ Len(out) <= MaxData
      /\ requests \in 0..MaxRequests
  BY <1>1, <1>3 DEF Init
<1>. QED BY <1>1, <1>2, <1>4 DEF Init, TypeInv, TypeOK

LEMMA NextTypes == TypeInv /\ [Next]_vars => TypeInv'
<1>. SUFFICES ASSUME TypeInv, [Next]_vars PROVE TypeInv'
  OBVIOUS
<1>. USE Lengths
<1>e. <<>> \in Seq(AnyByte) /\ Len(<<>>) = 0
  OBVIOUS
<1>1. CASE Request
  <2>1. PICK r \in Responses : Answer(r, stream)
    BY <1>1 DEF Request
  <2>2. /\ response' = r /\ stream' \in Seq(AnyByte)
        /\ head' \in Nat /\ head' <= Len(stream')
    BY <2>1, AnswerTyped DEF TypeInv
  <2>3. trykeepalive' \in BOOLEAN /\ alive' \in BOOLEAN /\ is_chunked' \in BOOLEAN
        /\ is_redirect' \in BOOLEAN /\ chunked_data_available' \in BOOLEAN
    BY <1>1, TransferAssumption DEF Request, InitHeadersInfo, chunks, TypeInv, TypeOK
  <2>4. requests' \in 0..MaxRequests
    BY <1>1 DEF Request, TypeInv, TypeOK
  <2>. QED BY <1>1, <2>2, <2>3, <2>4
       DEF TypeInv, TypeOK, Request, InitHeadersInfo, buffer, chunks
<1>2. CASE Redirect
  <2>1. PICK r \in Responses : Answer(r, <<>>)
    BY <1>2 DEF Redirect
  <2>2. /\ response' = r /\ stream' \in Seq(AnyByte)
        /\ head' \in Nat /\ head' <= Len(stream')
    BY <1>e, <2>1, AnswerTyped
  <2>3. trykeepalive' \in BOOLEAN /\ alive' \in BOOLEAN /\ is_chunked' \in BOOLEAN
        /\ is_redirect' \in BOOLEAN /\ chunked_data_available' \in BOOLEAN
    BY <1>2 DEF Redirect, InitHeadersInfo, chunks, TypeInv, TypeOK
  <2>4. requests' \in 0..MaxRequests
    BY <1>2 DEF Redirect, TypeInv, TypeOK
  <2>. QED BY <1>2, <2>2, <2>3, <2>4
       DEF TypeInv, TypeOK, Redirect, InitHeadersInfo, buffer, chunks
<1>3. CASE GetHeaders
  <2>1. PICK k \in 1..BufferSize : Receive(k) /\ size' = k
    BY <1>3 DEF GetHeaders
  <2>2. /\ k \in 0..Len(data') /\ Len(data) <= Len(data') /\ Len(data') \in Nat
        /\ Len(data') <= BufferSize /\ data' \in Seq(AnyByte) /\ stream' \in Seq(AnyByte)
        /\ head' \in Nat /\ head' <= Len(stream') /\ alive' = alive
    BY <2>1, ReceiveTyped
  <2>3. size' \in 0..Len(data') /\ current_pos' \in 0..Len(data')
    BY <1>3, <2>1, <2>2 DEF GetHeaders
  <2>4. /\ trykeepalive' \in BOOLEAN /\ is_chunked' \in BOOLEAN
        /\ is_redirect' \in BOOLEAN /\ chunked_data_available' \in BOOLEAN
    BY <1>3 DEF GetHeaders, TypeInv, TypeOK, headers_info
  <2>5. pc' = "line" /\ chunk_size' \in Nat
    BY <1>3 DEF GetHeaders
  <2>. QED BY <1>3, <2>2, <2>3, <2>4, <2>5
       DEF TypeInv, TypeOK, GetHeaders, call, headers_info
<1>4. CASE ScanOutside
  BY <1>4 DEF TypeInv, TypeOK, ScanOutside, call, network, buffer, headers_info, chunks
<1>5. CASE BadStatus
  BY <1>5 DEF TypeInv, TypeOK, BadStatus, call, network, buffer, headers_info, chunks
<1>6. CASE HeaderLine
  <2>1. LineEnd \in Nat /\ LineEnd <= Len(data) /\ Value \in Nat
    BY <1>6, LineEndTyped, ValueTyped DEF HeaderLine
  <2>2. is_redirect' \in BOOLEAN /\ is_chunked' \in BOOLEAN /\ trykeepalive' \in BOOLEAN
        /\ chunked_data_available' \in BOOLEAN
    BY <1>6 DEF HeaderLine, TypeInv, TypeOK
  <2>3. content_length' \in Nat /\ location' \in Nat
    BY <1>6, <2>1 DEF HeaderLine, TypeInv, TypeOK
  <2>. QED BY <1>6, <2>1, <2>2, <2>3 DEF TypeInv, TypeOK, HeaderLine, call, network
<1>7. CASE EmptyLine
  <2>1. LineEnd \in Nat /\ LineEnd <= Len(data)
    BY <1>7, LineEndTyped DEF EmptyLine
  <2>2. pc' \in {"redirect", "rest", "byte"} /\ (pc' = "rest" => dest = "file")
    BY <1>7 DEF EmptyLine, AfterHeaders
  <2>3. out' \in Seq(AnyByte) /\ Len(out') <= MaxData /\ n' \in 0..MaxData - 1
    BY <1>7, <1>e DEF EmptyLine
  <2>4. size' \in 0..Len(data') /\ current_pos' \in 0..Len(data')
    BY <1>7, <2>1 DEF EmptyLine, TypeInv, TypeOK
  <2>. QED BY <1>7, <2>2, <2>3, <2>4
       DEF TypeInv, TypeOK, EmptyLine, call, network, headers_info
<1>8. CASE WriteRest
  <2>1. SubSeq(data, current_pos + 1, size) \in Seq(AnyByte)
    BY PartOf DEF TypeInv, TypeOK
  <2>. QED BY <1>8, <2>1
       DEF TypeInv, TypeOK, WriteRest, call, network, buffer, headers_info, chunks
<1>9. CASE Copy
  <2>1. PICK k \in 1..BufferSize : Receive(k) /\ out' = out \o SubSeq(stream, 1, k)
    BY <1>9 DEF Copy
  <2>2. k \in 0..Len(stream)
    BY <2>1 DEF Receive
  <2>3. out' \in Seq(AnyByte)
    BY <2>1, <2>2, Parts, ConcatProperties DEF TypeInv
  <2>4. /\ k \in 0..Len(data') /\ Len(data) <= Len(data') /\ Len(data') \in Nat
        /\ Len(data') <= BufferSize /\ data' \in Seq(AnyByte) /\ stream' \in Seq(AnyByte)
        /\ head' \in Nat /\ head' <= Len(stream') /\ alive' = alive
    BY <2>1, ReceiveTyped
  <2>5. size \in 0..Len(data') /\ current_pos \in 0..Len(data')
    BY <2>4, SMTT(20) DEF TypeInv, TypeOK
  <2>. QED BY <1>9, <2>3, <2>4, <2>5
       DEF TypeInv, TypeOK, Copy, call, headers_info, chunks
<1>10. CASE EndCopy
  <2>1. dest # "VAR"
    BY <1>10 DEF EndCopy, TypeInv
  <2>. QED BY <1>10, <2>1
       DEF TypeInv, TypeOK, EndCopy, call, network, buffer, headers_info, chunks
<1>11. CASE Refill
  <2>1. PICK k \in 1..BufferSize : Receive(k) /\ size' = k
    BY <1>11 DEF Refill
  <2>2. /\ k \in 0..Len(data') /\ Len(data) <= Len(data') /\ Len(data') \in Nat
        /\ Len(data') <= BufferSize /\ data' \in Seq(AnyByte) /\ stream' \in Seq(AnyByte)
        /\ head' \in Nat /\ head' <= Len(stream') /\ alive' = alive
    BY <2>1, ReceiveTyped
  <2>. QED BY <1>11, <2>1, <2>2
       DEF TypeInv, TypeOK, Refill, call, headers_info, chunks
<1>12. CASE GetByte
  <2>1. Next_byte \in AnyByte /\ current_pos < size
    BY <1>12, NextTyped DEF GetByte, Take
  <2>2. /\ out' \in Seq(AnyByte) /\ n' \in 0..MaxData - 1
        /\ dest = "VAR" /\ Len(out) <= MaxData => Len(out') <= MaxData
    BY <1>12, <2>1, PutTyped DEF GetByte
  <2>3. chunk_size' \in Nat
    BY <1>12 DEF GetByte, AtData, TypeInv, TypeOK
  <2>4. current_pos' \in 0..Len(data) /\ data_fetched' \in Nat
    BY <1>12, TakeTyped DEF GetByte
  <2>. QED BY <1>12, <2>1, <2>2, <2>3, <2>4
       DEF TypeInv, TypeOK, GetByte, AtData, call, network, headers_info
<1>13. CASE EndOfData
  <2>1. /\ out' \in Seq(AnyByte) /\ n' \in 0..MaxData - 1
        /\ dest = "VAR" /\ Len(out) <= MaxData => Len(out') <= MaxData
    BY <1>13, PutNulTyped DEF EndOfData
  <2>. QED BY <1>13, <2>1
       DEF TypeInv, TypeOK, EndOfData, AtData, call, network, buffer, headers_info, chunks
<1>14. CASE BeginSize
  BY <1>14 DEF TypeInv, TypeOK, BeginSize, call, network, buffer, headers_info
<1>15. CASE ReadSize
  <2>1. Next_byte \in AnyByte /\ current_pos < size
    BY <1>15, NextTyped DEF ReadSize, Take
  <2>2. Next_byte.value \in Nat
    BY <2>1 DEF AnyByte
  <2>3. chunk_size' \in Nat /\ digits' \in Nat /\ pc' \in {"size", "skip"}
    BY <1>15, <2>2 DEF ReadSize, TypeInv, TypeOK
  <2>4. current_pos' \in 0..Len(data) /\ data_fetched' \in Nat
    BY <1>15, TakeTyped DEF ReadSize
  <2>. QED BY <1>15, <2>1, <2>3, <2>4
       DEF TypeInv, TypeOK, ReadSize, call, network, headers_info
<1>16. CASE SizeOutside
  BY <1>16 DEF TypeInv, TypeOK, SizeOutside, call, network, buffer, headers_info, chunks
<1>17. CASE SkipLine
  <2>1. /\ out' \in Seq(AnyByte) /\ n' \in 0..MaxData - 1
        /\ dest = "VAR" /\ Len(out) <= MaxData => Len(out') <= MaxData
        /\ chunked_data_available' \in BOOLEAN /\ pc' \in {"skip", "byte", "end"}
    BY <1>17, PutNulTyped DEF SkipLine, TypeInv, TypeOK
  <2>2. current_pos' \in 0..Len(data) /\ data_fetched' \in Nat
    BY <1>17, TakeTyped DEF SkipLine
  <2>. QED BY <1>17, <2>1, <2>2
       DEF TypeInv, TypeOK, SkipLine, call, network, headers_info
<1>18. CASE Finish
  <2>1. stream' \in Seq(AnyByte) /\ head' \in Nat /\ head' <= Len(stream')
    <3>1. CASE trykeepalive
      BY <1>18, <3>1 DEF Finish, TypeInv, TypeOK
    <3>2. CASE ~trykeepalive
      BY <1>18, <1>e, <3>2 DEF Finish
    <3>. QED BY <3>1, <3>2
  <2>. QED BY <1>18, <2>1
       DEF TypeInv, TypeOK, Finish, call, buffer, headers_info, chunks
<1>19. CASE Die
  BY <1>19 DEF TypeInv, TypeOK, Die, call, network, buffer, headers_info, chunks
<1>20. CASE Drop
  <2>1. stream' = <<>> /\ head' = 0 /\ alive' = FALSE
    BY <1>20 DEF Drop
  <2>2. stream' \in Seq(AnyByte) /\ head' \in Nat /\ head' <= Len(stream')
    BY <1>e, <2>1
  <2>. QED BY <1>20, <2>1, <2>2, ZenonT(40) DEF TypeInv, TypeOK, Drop, call, buffer,
                                                headers_info, chunks
<1>21. CASE UNCHANGED vars
  BY <1>21 DEF TypeInv, TypeOK, vars, call, network, buffer, headers_info, chunks
<1>. QED
  BY <1>1, <1>2, <1>3, <1>4, <1>5, <1>6, <1>7, <1>8, <1>9, <1>10, <1>11, <1>12, <1>13,
     <1>14, <1>15, <1>16, <1>17, <1>18, <1>19, <1>20, <1>21
  DEF Next, Step, Headers, ToFile, ByBytes, Terminated

\* For any responses and sizes, and whether or not connections are lost: every
\* variable has its type, and the variable that a body goes to is never written
\* past its end.
THEOREM AlwaysTyped == Spec => []TypeOK
<1>1. TypeInv => TypeOK
  BY DEF TypeInv
<1>. QED BY InitTyped, NextTypes, <1>1, PTL DEF Spec

-----------------------------------------------------------------------------
(* Sequences that end alike                                                *)

\* One of the sequences is the end of the other, said byte by byte.
EndsAlike(a, b) ==
  \A i \in Nat : i < Len(a) /\ i < Len(b) => a[Len(a) - i] = b[Len(b) - i]

LEMMA EndsAlikeDrop ==
  ASSUME NEW S, NEW p \in Seq(S), NEW s \in Seq(S), NEW m \in Seq(S), EndsAlike(p \o s, m)
  PROVE  EndsAlike(s, m)
<1>1. /\ Len(p) \in Nat /\ Len(s) \in Nat /\ Len(m) \in Nat
      /\ Len(p \o s) = Len(p) + Len(s)
      /\ \A i \in 1..Len(p) + Len(s) :
           (p \o s)[i] = IF i <= Len(p) THEN p[i] ELSE s[i - Len(p)]
  BY LenProperties, ConcatProperties
<1>2. SUFFICES ASSUME NEW i \in Nat, i < Len(s), i < Len(m)
               PROVE  s[Len(s) - i] = m[Len(m) - i]
  BY DEF EndsAlike
<1>. DEFINE j == Len(p) + Len(s) - i
<1>3. (p \o s)[j] = m[Len(m) - i]
  BY <1>1, <1>2, SMTT(20) DEF EndsAlike
<1>4. j \in 1..Len(p) + Len(s) /\ ~(j <= Len(p)) /\ j - Len(p) = Len(s) - i
  BY <1>1, <1>2
<1>. HIDE DEF j
<1>5. (p \o s)[j] = s[j - Len(p)]
  BY <1>1, <1>4
<1>. QED BY <1>3, <1>4, <1>5

LEMMA EndsAlikeAdd ==
  ASSUME NEW S, NEW p \in Seq(S), NEW m \in Seq(S)
  PROVE  EndsAlike(p \o m, m)
<1>1. /\ Len(p) \in Nat /\ Len(m) \in Nat /\ Len(p \o m) = Len(p) + Len(m)
      /\ \A i \in 1..Len(p) + Len(m) :
           (p \o m)[i] = IF i <= Len(p) THEN p[i] ELSE m[i - Len(p)]
  BY LenProperties, ConcatProperties
<1>2. SUFFICES ASSUME NEW i \in Nat, i < Len(m)
               PROVE  (p \o m)[Len(p) + Len(m) - i] = m[Len(m) - i]
  BY <1>1 DEF EndsAlike
<1>. DEFINE j == Len(p) + Len(m) - i
<1>3. j \in 1..Len(p) + Len(m) /\ ~(j <= Len(p)) /\ j - Len(p) = Len(m) - i
  BY <1>1, <1>2
<1>. HIDE DEF j
<1>4. (p \o m)[j] = m[j - Len(p)]
  BY <1>1, <1>3
<1>. QED BY <1>3, <1>4 DEF j

\* The shorter of two sequences that end alike is the end of the other.
LEMMA EndsAlikeSuffix ==
  ASSUME NEW S, NEW a \in Seq(S), NEW b \in Seq(S), EndsAlike(a, b), Len(a) <= Len(b)
  PROVE  IsSuffix(a, b)
<1>1. Len(a) \in Nat /\ Len(b) \in Nat
  BY LenProperties
<1>. DEFINE ra == Reverse(a)
            rb == Reverse(b)
<1>2. /\ ra \in Seq(S) /\ Len(ra) = Len(a)
      /\ \A i \in 1..Len(a) : ra[i] = a[Len(a) - i + 1]
  <2>1. \A i \in 1..Len(a) : a[Len(a) - i + 1] \in S
    BY <1>1, ElementOfSeq
  <2>2. ra = [i \in 1..Len(a) |-> a[Len(a) - i + 1]]
    BY DEF Reverse
  <2>3. ra \in Seq(S)
    BY <1>1, <2>1, <2>2, IsASeq
  <2>. QED BY <1>1, <2>2, <2>3
<1>3. /\ rb \in Seq(S) /\ Len(rb) = Len(b)
      /\ \A i \in 1..Len(b) : rb[i] = b[Len(b) - i + 1]
  <2>1. \A i \in 1..Len(b) : b[Len(b) - i + 1] \in S
    BY <1>1, ElementOfSeq
  <2>2. rb = [i \in 1..Len(b) |-> b[Len(b) - i + 1]]
    BY DEF Reverse
  <2>3. rb \in Seq(S)
    BY <1>1, <2>1, <2>2, IsASeq
  <2>. QED BY <1>1, <2>2, <2>3
<1>. HIDE DEF ra, rb
<1>4. ASSUME NEW i \in 1..Len(a)
      PROVE  ra[i] = rb[i]
  <2>1. i - 1 \in Nat /\ i - 1 < Len(a) /\ i - 1 < Len(b) /\ i \in 1..Len(b)
    BY <1>1
  <2>2. a[Len(a) - (i - 1)] = b[Len(b) - (i - 1)]
    BY <2>1 DEF EndsAlike
  <2>3. Len(a) - (i - 1) = Len(a) - i + 1 /\ Len(b) - (i - 1) = Len(b) - i + 1
    BY <1>1
  <2>. QED BY <1>2, <1>3, <2>1, <2>2, <2>3
<1>5. /\ SubSeq(rb, 1, Len(a)) \in Seq(S)
      /\ Len(SubSeq(rb, 1, Len(a))) = Len(a)
      /\ \A i \in 1..Len(a) : SubSeq(rb, 1, Len(a))[i] = rb[i]
  <2>1. /\ SubSeq(rb, 0 + 1, Len(a)) \in Seq(S)
        /\ Len(SubSeq(rb, 0 + 1, Len(a))) = IF 0 < Len(a) THEN Len(a) - 0 ELSE 0
        /\ \A i \in 1..Len(a) - 0 : SubSeq(rb, 0 + 1, Len(a))[i] = rb[0 + i]
    BY <1>1, <1>3, PartOf
  <2>2. 0 + 1 = 1 /\ Len(a) - 0 = Len(a) /\ \A i \in 1..Len(a) : 0 + i = i
    BY <1>1
  <2>. QED BY <1>1, <2>1, <2>2
<1>6. ra = SubSeq(rb, 1, Len(a))
  BY <1>2, <1>4, <1>5, SeqEqual
<1>7. SubSeq(ra, 1, Len(ra)) = ra
  BY <1>2, SubSeqFull
<1>. QED BY <1>2, <1>3, <1>6, <1>7 DEF IsSuffix, IsPrefix, ra, rb

LEMMA EndsAlikeSuffixes ==
  ASSUME NEW S, NEW a \in Seq(S), NEW b \in Seq(S), EndsAlike(a, b)
  PROVE  IsSuffix(a, b) \/ IsSuffix(b, a)
<1>1. Len(a) \in Nat /\ Len(b) \in Nat
  BY LenProperties
<1>2. EndsAlike(b, a)
  BY <1>1 DEF EndsAlike
<1>. QED BY <1>1, <1>2, EndsAlikeSuffix

-----------------------------------------------------------------------------
(* Bodies are taken in order                                               *)

Message == Header(response) \o Payload(response)
Unread == SubSeq(data, current_pos + 1, size)

\* A body that is not chunked goes to a file or to the screen.
Plain == ~is_chunked /\ dest # "VAR"

\* What the client has of the end of the message, with what is to come, is the
\* end of it from the first segment on; in which part of the client depends on
\* where it is.
Order ==
  /\ pc = "headers" => EndsAlike(stream, Message)
  /\ pc = "line" => EndsAlike(Unread \o stream, Message)
  /\ pc = "rest" /\ dest # "VAR" => out = <<>> /\ EndsAlike(out \o Unread \o stream, Message)
  /\ pc = "copy" \/ (pc = "end" /\ Plain /\ dest = "file") =>
       EndsAlike(out \o <<>> \o stream, Message)
  /\ pc \in {"byte", "end"} /\ Plain /\ dest # "file" =>
       EndsAlike(out \o Unread \o stream, Message)
  /\ pc \in {"rest", "copy"} => ~is_chunked
  /\ pc \in {"size", "skip"} => is_chunked
  /\ pc = "byte" /\ ~is_chunked => dest # "file"

LEMMA OrderTaken ==
  ASSUME TypeInv, Order
  PROVE  TakenInOrder
<1>. DEFINE unread == IF dest = "file" /\ pc # "rest" THEN <<>> ELSE Unread
            all == out \o unread \o stream
<1>1. SUFFICES ASSUME pc \in {"rest", "copy", "byte", "end"}, Plain
               PROVE  IsSuffix(all, Message) \/ IsSuffix(Message, all)
  BY DEF TakenInOrder, Plain, Message, Unread
<1>2. Message \in Seq(AnyByte)
  BY MessageTyped, ConcatProperties DEF TypeInv, TypeOK, Message
<1>3. Unread \in Seq(AnyByte)
  BY Lengths, PartOf DEF TypeInv, TypeOK, Unread
<1>4. <<>> \in Seq(AnyByte)
  OBVIOUS
<1>5. all \in Seq(AnyByte)
  BY <1>3, <1>4, ConcatProperties DEF TypeInv
<1>6. EndsAlike(all, Message)
  BY <1>1 DEF Order, TypeInv, Plain
<1>. HIDE DEF all
<1>. QED BY <1>2, <1>5, <1>6, EndsAlikeSuffixes

LEMMA InitOrder == Init => Order
BY DEF Init, Order

\* What has been passed over is gone.
LEMMA UnreadLess ==
  ASSUME TypeInv, NEW c \in Nat, current_pos <= c
  PROVE  /\ SubSeq(data, c + 1, size) \in Seq(AnyByte)
         /\ \E p \in Seq(AnyByte) : Unread = p \o SubSeq(data, c + 1, size)
         /\ c >= size => SubSeq(data, c + 1, size) = <<>>
<1>. USE Lengths
<1>1. size <= Len(data) /\ data \in Seq(AnyByte)
  BY DEF TypeInv, TypeOK
<1>2. SubSeq(data, c + 1, size) \in Seq(AnyByte) /\ Unread \in Seq(AnyByte)
  BY <1>1, PartOf DEF Unread
<1>3. CASE c >= size
  <2>1. SubSeq(data, c + 1, size) = <<>>
    BY <1>3, SubSeqEmpty
  <2>2. Unread = Unread \o <<>>
    BY <1>2, ConcatEmptySeq
  <2>. QED BY <1>2, <2>1, <2>2
<1>4. CASE c < size
  <2>1. SubSeq(data, current_pos + 1, c) \in Seq(AnyByte)
    BY <1>1, <1>4, PartOf
  <2>2. /\ current_pos + 1 \in 1..Len(data) + 1
        /\ c \in (current_pos + 1) - 1..Len(data)
        /\ size \in c..Len(data)
    BY <1>1, <1>4
  <2>3. SubSeq(data, current_pos + 1, c) \o SubSeq(data, c + 1, size)
        = SubSeq(data, current_pos + 1, size)
    BY <1>1, <2>2, ConcatAdjacentSubSeq
  <2>4. Unread = SubSeq(data, current_pos + 1, c) \o SubSeq(data, c + 1, size)
    BY <2>3 DEF Unread
  <2>5. ~(c >= size)
    BY <1>4
  <2>. QED BY <1>2, <2>1, <2>4, <2>5
<1>5. c >= size \/ c < size
  OBVIOUS
<1>. QED BY <1>3, <1>4, <1>5

\* A line that is read takes away from what comes before the body.
LEMMA LineOrder ==
  ASSUME TypeInv, Order, pc = "line", Ends # {}
  PROVE  /\ EndsAlike(SubSeq(data, LineEnd + 1, size) \o stream, Message)
         /\ LineEnd >= size => EndsAlike(stream, Message)
<1>1. LineEnd \in Nat /\ current_pos <= LineEnd
  BY LineEndTyped, Lengths
<1>. DEFINE rest == SubSeq(data, LineEnd + 1, size)
<1>2. rest \in Seq(AnyByte) /\ stream \in Seq(AnyByte) /\ Message \in Seq(AnyByte)
  BY <1>1, UnreadLess, MessageTyped, ConcatProperties DEF TypeInv, TypeOK, Message
<1>3. PICK p \in Seq(AnyByte) : Unread = p \o rest
  BY <1>1, UnreadLess
<1>4. LineEnd >= size => rest = <<>>
  BY <1>1, UnreadLess
<1>5. EndsAlike(Unread \o stream, Message)
  BY DEF Order
<1>. HIDE DEF rest
<1>6. Unread \o stream = p \o (rest \o stream) /\ rest \o stream \in Seq(AnyByte)
  BY <1>2, <1>3, ConcatAssociative, ConcatProperties, SMTT(20)
<1>7. EndsAlike(rest \o stream, Message)
  BY <1>2, <1>5, <1>6, EndsAlikeDrop
<1>8. <<>> \o stream = stream
  BY <1>2, ConcatEmptySeq
<1>. QED BY <1>4, <1>7, <1>8 DEF rest

\* A segment that is received is what was first in the stream.
LEMMA SegmentOrder ==
  ASSUME TypeInv, NEW k, Receive(k)
  PROVE  /\ SubSeq(stream, 1, k) \in Seq(AnyByte) /\ stream' \in Seq(AnyByte)
         /\ SubSeq(data', 1, k) = SubSeq(stream, 1, k)
         /\ SubSeq(stream, 1, k) \o stream' = stream
<1>1. k \in 0..Len(stream) /\ stream' = SubSeq(stream, k + 1, Len(stream))
  BY DEF Receive
<1>. QED BY <1>1, Parts, ReceiveTyped DEF TypeInv

LEMMA AnswerOrder ==
  ASSUME NEW r \in Responses, NEW before \in Seq(AnyByte), Answer(r, before)
  PROVE  EndsAlike(stream', Message')
<1>. DEFINE h == Header(r)
            p == Payload(r)
<1>1. h \in Seq(AnyByte) /\ p \in Seq(AnyByte)
  BY MessageTyped
<1>2. stream' = before \o h \o p /\ Message' = h \o p
  BY DEF Answer, Message
<1>. HIDE DEF h, p
<1>3. stream' = before \o (h \o p) /\ h \o p \in Seq(AnyByte)
  BY <1>1, <1>2, ConcatAssociative, ConcatProperties, SMTT(20)
<1>. QED BY <1>2, <1>3, EndsAlikeAdd

LEMMA NextOrder ==
  ASSUME ~Drops, TypeInv, Order, [Next]_vars
  PROVE  Order'
<1>. USE Lengths
<1>t. /\ stream \in Seq(AnyByte) /\ out \in Seq(AnyByte) /\ data \in Seq(AnyByte)
      /\ <<>> \in Seq(AnyByte) /\ size <= Len(data) /\ response \in Responses
  BY DEF TypeInv, TypeOK
<1>u. Unread \in Seq(AnyByte)
  BY <1>t, PartOf DEF Unread
<1>1. CASE Request
  <2>1. PICK r \in Responses : Answer(r, stream)
    BY <1>1 DEF Request
  <2>2. EndsAlike(stream', Message') /\ pc' = "headers"
    BY <1>1, <1>t, <2>1, AnswerOrder DEF Request
  <2>. QED BY <2>2 DEF Order
<1>2. CASE Redirect
  <2>1. PICK r \in Responses : Answer(r, <<>>)
    BY <1>2 DEF Redirect
  <2>2. EndsAlike(stream', Message') /\ pc' = "headers"
    BY <1>2, <1>t, <2>1, AnswerOrder DEF Redirect
  <2>. QED BY <2>2 DEF Order
<1>3. CASE GetHeaders
  <2>1. PICK k \in 1..BufferSize : Receive(k) /\ size' = k
    BY <1>3 DEF GetHeaders
  <2>2. pc = "headers" /\ pc' = "line" /\ current_pos' = 0 /\ Message' = Message
    BY <1>3 DEF GetHeaders, call, Message
  <2>0. SubSeq(data', 1, k) = SubSeq(stream, 1, k)
    BY <2>1, SegmentOrder
  <2>3. Unread' = SubSeq(stream, 1, k)
    <3>1. Unread' = SubSeq(data', 0 + 1, k)
      BY <2>1, <2>2 DEF Unread
    <3>2. 0 + 1 = 1
      OBVIOUS
    <3>. QED BY <2>0, <3>1, <3>2
  <2>4. Unread' \o stream' = stream
    BY <2>1, <2>3, SegmentOrder
  <2>5. EndsAlike(Unread' \o stream', Message')
    BY <2>2, <2>4 DEF Order
  <2>. QED BY <2>2, <2>5 DEF Order
<1>4. CASE HeaderLine
  <2>1. /\ pc = "line" /\ Ends # {} /\ Message' = Message /\ stream' = stream
        /\ Unread' = SubSeq(data, LineEnd + 1, size)
        /\ pc' = IF LineEnd < size THEN "line" ELSE "headers"
    BY <1>4 DEF HeaderLine, call, network, Message, Unread
  <2>2. /\ EndsAlike(SubSeq(data, LineEnd + 1, size) \o stream, Message)
        /\ LineEnd >= size => EndsAlike(stream, Message)
    BY <2>1, LineOrder
  <2>3. LineEnd \in Nat
    BY <2>1, LineEndTyped
  <2>4. CASE LineEnd < size
    BY <2>1, <2>2, <2>4 DEF Order
  <2>5. CASE LineEnd >= size
    <3>1. pc' = "headers" /\ EndsAlike(stream', Message')
      BY <2>1, <2>2, <2>3, <2>5
    <3>. QED BY <3>1 DEF Order
  <2>. QED BY <2>3, <2>4, <2>5
<1>5. CASE EmptyLine
  <2>1. /\ pc = "line" /\ Ends # {} /\ Message' = Message /\ stream' = stream
        /\ Unread' = SubSeq(data, LineEnd + 1, size)
        /\ out' = <<>> /\ dest' = dest /\ is_chunked' = is_chunked
        /\ pc' = AfterHeaders
    BY <1>5 DEF EmptyLine, call, network, headers_info, Message, Unread
  <2>2. EndsAlike(Unread' \o stream', Message')
    BY <2>1, LineOrder
  <2>3. Unread' \in Seq(AnyByte)
    <3>1. LineEnd \in Nat /\ current_pos <= LineEnd
      BY <2>1, LineEndTyped
    <3>. QED BY <2>1, <3>1, UnreadLess
  <2>4. out' \o Unread' = Unread'
    BY <2>1, <2>3, ConcatEmptySeq
  <2>5. EndsAlike(out' \o Unread' \o stream', Message')
    BY <2>2, <2>4
  <2>6. \/ pc' = "redirect"
        \/ pc' = "rest" /\ dest' = "file" /\ ~is_chunked'
        \/ pc' = "byte" /\ (~is_chunked' => dest' # "file")
    BY <2>1 DEF AfterHeaders
  <2>. QED BY <2>1, <2>5, <2>6 DEF Order
<1>6. CASE WriteRest
  <2>1. /\ pc = "rest" /\ pc' = "copy" /\ out' = Unread /\ stream' = stream
        /\ Message' = Message /\ is_chunked' = is_chunked
    BY <1>6 DEF WriteRest, Unread, call, network, headers_info, Message
  <2>2. out = <<>> /\ EndsAlike(out \o Unread \o stream, Message) /\ ~is_chunked
    BY <2>1 DEF Order, TypeInv
  <2>3. out \o Unread = Unread /\ out' \o <<>> = Unread
    BY <1>u, <2>1, <2>2, ConcatEmptySeq
  <2>4. EndsAlike(out' \o <<>> \o stream', Message')
    BY <2>1, <2>2, <2>3
  <2>. QED BY <2>1, <2>2, <2>4 DEF Order
<1>7. CASE Copy
  <2>1. PICK k \in 1..BufferSize : Receive(k) /\ out' = out \o SubSeq(stream, 1, k)
    BY <1>7 DEF Copy
  <2>2. pc = "copy" /\ pc' = "copy" /\ Message' = Message /\ is_chunked' = is_chunked
    BY <1>7 DEF Copy, call, headers_info, Message
  <2>3. EndsAlike(out \o <<>> \o stream, Message) /\ ~is_chunked
    BY <2>2 DEF Order
  <2>. DEFINE segment == SubSeq(stream, 1, k)
  <2>4. /\ segment \in Seq(AnyByte) /\ stream' \in Seq(AnyByte)
        /\ segment \o stream' = stream
    BY <2>1, SegmentOrder
  <2>5. out' = out \o segment
    BY <2>1
  <2>. HIDE DEF segment
  <2>6. out' \in Seq(AnyByte) /\ out' \o <<>> = out' /\ out \o <<>> = out
    BY <1>t, <2>4, <2>5, ConcatProperties, ConcatEmptySeq
  <2>7. out' \o stream' = out \o stream
    <3>0. segment \in Seq(AnyByte) /\ stream' \in Seq(AnyByte) /\ out \in Seq(AnyByte)
      BY <1>t, <2>4
    <3>1. (out \o segment) \o stream' = out \o (segment \o stream')
      BY ONLY <3>0, ConcatAssociative, SMTT(20)
    <3>. QED BY <2>4, <2>5, <3>1
  <2>8. EndsAlike(out' \o <<>> \o stream', Message')
    BY <2>2, <2>3, <2>6, <2>7
  <2>. QED BY <2>2, <2>3, <2>8 DEF Order
<1>8. CASE EndCopy
  <2>1. /\ pc = "copy" /\ pc' = "end" /\ UNCHANGED <<out, stream, dest, is_chunked>>
        /\ Message' = Message
    BY <1>8 DEF EndCopy, call, network, headers_info, Message
  <2>2. dest = "file" /\ EndsAlike(out \o <<>> \o stream, Message)
    BY <2>1 DEF Order, TypeInv
  <2>. QED BY <2>1, <2>2 DEF Order
<1>9. CASE Refill
  <2>1. PICK k \in 1..BufferSize : Receive(k) /\ size' = k
    BY <1>9 DEF Refill
  <2>2. /\ UNCHANGED <<pc, dest, is_chunked, out>> /\ Message' = Message
        /\ current_pos' = 0 /\ current_pos >= size /\ pc \in {"byte", "size", "skip"}
    BY <1>9 DEF Refill, UsedUp, AtData, call, headers_info, Message
  <2>3. Unread = <<>>
    BY <2>2, SubSeqEmpty DEF Unread
  <2>0. SubSeq(data', 1, k) = SubSeq(stream, 1, k)
    BY <2>1, SegmentOrder
  <2>4. Unread' = SubSeq(stream, 1, k)
    <3>1. Unread' = SubSeq(data', 0 + 1, k)
      BY <2>1, <2>2 DEF Unread
    <3>2. 0 + 1 = 1
      OBVIOUS
    <3>. QED BY <2>0, <3>1, <3>2
  <2>5. Unread' \in Seq(AnyByte) /\ stream' \in Seq(AnyByte) /\ Unread' \o stream' = stream
    BY <2>1, <2>4, SegmentOrder
  <2>6. out \o Unread \o stream = out \o stream
    BY <1>t, <2>3, ConcatEmptySeq
  <2>7. out' \o Unread' \o stream' = out \o stream
    <3>0. Unread' \in Seq(AnyByte) /\ stream' \in Seq(AnyByte) /\ out \in Seq(AnyByte)
      BY <1>t, <2>5
    <3>1. (out \o Unread') \o stream' = out \o (Unread' \o stream')
      BY ONLY <3>0, ConcatAssociative
    <3>. QED BY <2>2, <2>5, <3>1
  <2>. QED BY <2>2, <2>6, <2>7 DEF Order, Plain
<1>10. CASE GetByte
  <2>1. /\ pc = "byte" /\ UNCHANGED <<pc, dest, is_chunked, stream>> /\ Message' = Message
        /\ current_pos < size /\ Put(Next_byte)
        /\ Unread' = SubSeq(data, current_pos + 1 + 1, size)
    BY <1>10 DEF GetByte, AtData, Take, call, network, headers_info, Message, Unread
  <2>2. CASE ~(Plain /\ dest # "file")
    BY <2>1, <2>2 DEF Order, Plain
  <2>3. CASE Plain /\ dest # "file"
    <3>1. Next_byte \in AnyByte
      BY <2>1, NextTyped
    <3>2. out' = Append(out, Next_byte)
      BY <2>1, <2>3, <3>1, PutTyped DEF Plain
    <3>3. out' = out \o <<Next_byte>> /\ <<Next_byte>> \in Seq(AnyByte)
      BY <1>t, <3>1, <3>2, AppendIsConcat
    <3>4. current_pos + 1 \in 1..Len(data) /\ size \in current_pos + 1..Len(data)
      BY <1>t, <2>1
    <3>5. Unread = <<Next_byte>> \o Unread'
      BY <1>t, <2>1, <3>4, SubSeqRecursiveFirst DEF Unread, Next_byte
    <3>6. current_pos + 1 \in Nat /\ current_pos <= current_pos + 1
      OBVIOUS
    <3>7. Unread' \in Seq(AnyByte)
      BY <2>1, <3>6, UnreadLess
    <3>8. out' \o Unread' = out \o Unread
      <4>1. out \in Seq(AnyByte)
        BY <1>t
      <4>2. (out \o <<Next_byte>>) \o Unread' = out \o (<<Next_byte>> \o Unread')
        BY ONLY <3>3, <3>7, <4>1, ConcatAssociative
      <4>. QED BY ONLY <3>3, <3>5, <4>2
    <3>9. EndsAlike(out' \o Unread' \o stream', Message')
      BY <2>1, <2>3, <3>8 DEF Order
    <3>. QED BY <2>1, <2>3, <3>9 DEF Order, Plain
  <2>. QED BY <2>2, <2>3
<1>11. CASE EndOfData
  <2>1. /\ pc = "byte" /\ pc' = "end" /\ UNCHANGED <<dest, is_chunked, stream>>
        /\ Message' = Message /\ Unread' = Unread
        /\ dest # "VAR" => out' = out
    BY <1>11, PutNulTyped
       DEF EndOfData, AtData, call, network, buffer, headers_info, Message, Unread
  <2>. QED BY <2>1 DEF Order, Plain
<1>12. CASE BeginSize
  BY <1>12 DEF BeginSize, Order, Plain, call, headers_info
<1>13. CASE ReadSize
  <2>1. pc = "size" /\ pc' \in {"size", "skip"} /\ is_chunked' = is_chunked
    BY <1>13 DEF ReadSize, headers_info
  <2>. QED BY <2>1 DEF Order
<1>14. CASE SkipLine
  <2>1. pc = "skip" /\ pc' \in {"skip", "byte", "end"} /\ is_chunked' = is_chunked
    BY <1>14 DEF SkipLine, headers_info
  <2>. QED BY <2>1 DEF Order, Plain
<1>15. CASE ScanOutside \/ BadStatus \/ SizeOutside \/ Finish \/ Die
  <2>1. pc' \in {"lost", "dead", "idle"}
    BY <1>15 DEF ScanOutside, BadStatus, SizeOutside, Finish, Die
  <2>. QED BY <2>1 DEF Order
<1>16. CASE Drop
  BY <1>16 DEF Drop
<1>17. CASE UNCHANGED vars
  BY <1>17 DEF Order, Plain, Unread, Message, vars, call, network, buffer, headers_info
<1>. QED
  BY <1>1, <1>2, <1>3, <1>4, <1>5, <1>6, <1>7, <1>8, <1>9, <1>10, <1>11, <1>12, <1>13,
     <1>14, <1>15, <1>16, <1>17
  DEF Next, Step, Headers, ToFile, ByBytes, Terminated

\* For any responses, cut anywhere, and any sizes: as long as the connection
\* lasts, a body that is not chunked is taken in order, to a file and to the
\* screen, with no byte lost, repeated, or left over from an earlier segment.
THEOREM AlwaysTakenInOrder ==
  ASSUME ~Drops
  PROVE  Spec => []TakenInOrder
<1>1. Init => TypeInv /\ Order
  BY InitTyped, InitOrder
<1>2. TypeInv /\ Order /\ [Next]_vars => (TypeInv /\ Order)'
  BY NextTypes, NextOrder
<1>3. TypeInv /\ Order => TakenInOrder
  BY OrderTaken
<1>. QED BY <1>1, <1>2, <1>3, PTL DEF Spec

-----------------------------------------------------------------------------
(* What a header consists of                                               *)

Field(name, value) == [name |-> name, value |-> value]

\* The lines of a header, without the empty one.
Fields(r) ==
  <<Field("status", r.status)>>
  \o (IF IsRedirect(r.status) THEN <<Field("location", r.location)>> ELSE <<>>)
  \o (CASE r.framing = "length"  -> <<Field("content-length", Len(Body(r)))>>
        [] r.framing = "chunked" -> <<Field("transfer-encoding", 0)>>
        [] OTHER                 -> <<>>)
  \o (IF r.close THEN <<Field("connection", 0)>> ELSE <<>>)

AnyField == [name : {"status", "location", "content-length", "transfer-encoding",
                     "connection"}, value : Nat]

TextPart(f, i) == [kind |-> f.name, part |-> i, value |-> f.value]

\* The bytes are those of the lines, four for each.
AreLines(bytes, fields) ==
  /\ Len(bytes) = 4 * Len(fields)
  /\ \A i \in 1..Len(fields) :
       /\ bytes[4 * i - 3] = TextPart(fields[i], 1)
       /\ bytes[4 * i - 2] = TextPart(fields[i], 2)
       /\ bytes[4 * i - 1] = CR
       /\ bytes[4 * i] = LF

\* A line of the header is the bytes of one field.
LEMMA OneLine ==
  ASSUME NEW f \in AnyField
  PROVE  AreLines(Line(f.name, f.value), <<f>>)
<1>. DEFINE t == Text(f.name, f.value)
            e == <<CR, LF>>
<1>0. f.name \in {"status", "location", "content-length", "transfer-encoding",
                  "connection"} /\ f.value \in Nat
  BY DEF AnyField
<1>1. t = [i \in 1..2 |-> TextPart(f, i)]
  BY DEF Text, TextPart
<1>2. \A i \in 1..2 : TextPart(f, i) \in AnyByte
  BY <1>0 DEF TextPart, AnyByte
<1>3. t \in Seq(AnyByte) /\ Len(t) = 2 /\ t[1] = TextPart(f, 1) /\ t[2] = TextPart(f, 2)
  <2>1. t \in Seq(AnyByte)
    BY <1>1, <1>2, IsASeq
  <2>2. DOMAIN t = 1..2
    BY <1>1
  <2>. QED BY <1>1, <2>1, <2>2, LenProperties
<1>4. e \in Seq(AnyByte) /\ Len(e) = 2 /\ e[1] = CR /\ e[2] = LF
  BY DEF CR, LF, Byte, AnyByte
<1>5. Line(f.name, f.value) = t \o e
  BY DEF Line
<1>. HIDE DEF t, e
<1>6. /\ Len(t \o e) = 4
      /\ (t \o e)[1] = t[1] /\ (t \o e)[2] = t[2] /\ (t \o e)[3] = e[1] /\ (t \o e)[4] = e[2]
  BY <1>3, <1>4, ConcatProperties
<1>. DEFINE bytes == t \o e
            fields == <<f>>
<1>7. Len(fields) = 1 /\ fields[1] = f
  OBVIOUS
<1>8. /\ Len(bytes) = 4 /\ bytes[1] = TextPart(f, 1) /\ bytes[2] = TextPart(f, 2)
      /\ bytes[3] = CR /\ bytes[4] = LF
  BY <1>3, <1>4, <1>6
<1>. HIDE DEF bytes, fields
<1>9. AreLines(bytes, fields)
  <2>1. ASSUME NEW i \in 1..Len(fields)
        PROVE  i = 1
    BY ONLY <2>1, <1>7
  <2>2. ASSUME NEW i \in 1..Len(fields)
        PROVE  /\ bytes[4 * i - 3] = TextPart(fields[i], 1)
               /\ bytes[4 * i - 2] = TextPart(fields[i], 2)
               /\ bytes[4 * i - 1] = CR /\ bytes[4 * i] = LF
    <3>1. i = 1 /\ 4 * i - 3 = 1 /\ 4 * i - 2 = 2 /\ 4 * i - 1 = 3 /\ 4 * i = 4
      BY <2>1
    <3>. QED BY ONLY <3>1, <1>7, <1>8
  <2>. QED BY ONLY <1>7, <1>8, <2>2 DEF AreLines
<1>. QED BY <1>5, <1>9 DEF bytes, fields

\* Lines put behind lines are lines.
LEMMA MoreLines ==
  ASSUME NEW bs \in Seq(AnyByte), NEW fs \in Seq(AnyField), AreLines(bs, fs),
         NEW cs \in Seq(AnyByte), NEW gs \in Seq(AnyField), AreLines(cs, gs)
  PROVE  AreLines(bs \o cs, fs \o gs)
<1>1. /\ Len(bs) = 4 * Len(fs) /\ Len(cs) = 4 * Len(gs)
      /\ Len(fs) \in Nat /\ Len(gs) \in Nat
  BY LenProperties DEF AreLines
<1>2. /\ Len(bs \o cs) = Len(bs) + Len(cs)
      /\ \A i \in 1..Len(bs) + Len(cs) :
           (bs \o cs)[i] = IF i <= Len(bs) THEN bs[i] ELSE cs[i - Len(bs)]
  BY ConcatProperties
<1>3. /\ Len(fs \o gs) = Len(fs) + Len(gs)
      /\ \A i \in 1..Len(fs) + Len(gs) :
           (fs \o gs)[i] = IF i <= Len(fs) THEN fs[i] ELSE gs[i - Len(fs)]
  BY ConcatProperties
<1>4. Len(bs \o cs) = 4 * Len(fs \o gs)
  BY <1>1, <1>2, <1>3
<1>5. ASSUME NEW i \in 1..Len(fs) + Len(gs)
      PROVE  LET f == (fs \o gs)[i]
                 b == bs \o cs
             IN  b[4 * i - 3] = TextPart(f, 1) /\ b[4 * i - 2] = TextPart(f, 2)
                 /\ b[4 * i - 1] = CR /\ b[4 * i] = LF
  <2>1. 4 * i - 3 \in 1..Len(bs) + Len(cs) /\ 4 * i - 2 \in 1..Len(bs) + Len(cs)
        /\ 4 * i - 1 \in 1..Len(bs) + Len(cs) /\ 4 * i \in 1..Len(bs) + Len(cs)
    BY <1>1
  <2>2. CASE i <= Len(fs)
    <3>1. i \in 1..Len(fs) /\ (fs \o gs)[i] = fs[i]
      BY <1>1, <1>3, <2>2
    <3>2. 4 * i - 3 <= Len(bs) /\ 4 * i - 2 <= Len(bs) /\ 4 * i - 1 <= Len(bs)
          /\ 4 * i <= Len(bs)
      BY <1>1, <2>2
    <3>3. (bs \o cs)[4 * i - 3] = bs[4 * i - 3] /\ (bs \o cs)[4 * i - 2] = bs[4 * i - 2]
          /\ (bs \o cs)[4 * i - 1] = bs[4 * i - 1] /\ (bs \o cs)[4 * i] = bs[4 * i]
      BY <1>2, <2>1, <3>2
    <3>. QED BY <3>1, <3>3 DEF AreLines
  <2>3. CASE ~(i <= Len(fs))
    <3>. DEFINE j == i - Len(fs)
    <3>1. j \in 1..Len(gs) /\ (fs \o gs)[i] = gs[j]
      BY <1>1, <1>3, <2>3
    <3>2. ~(4 * i - 3 <= Len(bs)) /\ ~(4 * i - 2 <= Len(bs)) /\ ~(4 * i - 1 <= Len(bs))
          /\ ~(4 * i <= Len(bs))
      BY <1>1, <2>3
    <3>3. (4 * i - 3) - Len(bs) = 4 * j - 3 /\ (4 * i - 2) - Len(bs) = 4 * j - 2
          /\ (4 * i - 1) - Len(bs) = 4 * j - 1 /\ 4 * i - Len(bs) = 4 * j
      BY <1>1
    <3>. HIDE DEF j
    <3>4. (bs \o cs)[4 * i - 3] = cs[4 * j - 3] /\ (bs \o cs)[4 * i - 2] = cs[4 * j - 2]
          /\ (bs \o cs)[4 * i - 1] = cs[4 * j - 1] /\ (bs \o cs)[4 * i] = cs[4 * j]
      BY <1>2, <2>1, <3>2, <3>3
    <3>. QED BY <3>1, <3>4 DEF AreLines
  <2>. QED BY <2>2, <2>3
<1>. QED BY <1>3, <1>4, <1>5 DEF AreLines

\* The lines of Fields(r) and the empty one make up the header.
LEMMA HeaderLines ==
  ASSUME NEW r \in Responses
  PROVE  /\ Fields(r) \in Seq(AnyField)
         /\ \E s \in Seq(AnyByte) : Header(r) = s \o <<CR, LF>> /\ AreLines(s, Fields(r))
<1>1. r.status \in Nat /\ r.location \in Nat /\ Len(Body(r)) \in Nat
  BY ResponsesAssumption, LenProperties
<1>. DEFINE l1 == Line("status", r.status)
            f1 == <<Field("status", r.status)>>
            l2 == IF IsRedirect(r.status) THEN Line("location", r.location) ELSE <<>>
            f2 == IF IsRedirect(r.status) THEN <<Field("location", r.location)>> ELSE <<>>
            l3 == CASE r.framing = "length"  -> Line("content-length", Len(Body(r)))
                    [] r.framing = "chunked" -> Line("transfer-encoding", 0)
                    [] OTHER                 -> <<>>
            f3 == CASE r.framing = "length"  -> <<Field("content-length", Len(Body(r)))>>
                    [] r.framing = "chunked" -> <<Field("transfer-encoding", 0)>>
                    [] OTHER                 -> <<>>
            l4 == IF r.close THEN Line("connection", 0) ELSE <<>>
            f4 == IF r.close THEN <<Field("connection", 0)>> ELSE <<>>
            e == <<CR, LF>>
<1>2. ASSUME NEW v \in Nat,
             NEW name \in {"status", "location", "content-length", "transfer-encoding",
                           "connection"}
      PROVE  /\ Line(name, v) \in Seq(AnyByte) /\ <<Field(name, v)>> \in Seq(AnyField)
             /\ AreLines(Line(name, v), <<Field(name, v)>>)
  <2>1. Field(name, v) \in AnyField /\ Field(name, v).name = name /\ Field(name, v).value = v
    BY DEF Field, AnyField
  <2>2. AreLines(Line(name, v), <<Field(name, v)>>)
    BY <2>1, OneLine
  <2>3. <<Field(name, v)>> \in Seq(AnyField)
    BY <2>1
  <2>. QED BY <2>2, <2>3, LineTyped
<1>3. <<>> \in Seq(AnyByte) /\ <<>> \in Seq(AnyField) /\ AreLines(<<>>, <<>>)
  BY DEF AreLines
<1>4. l1 \in Seq(AnyByte) /\ f1 \in Seq(AnyField) /\ AreLines(l1, f1)
  BY <1>1, <1>2
<1>5. l2 \in Seq(AnyByte) /\ f2 \in Seq(AnyField) /\ AreLines(l2, f2)
  <2>1. CASE IsRedirect(r.status)
    BY <1>1, <1>2, <2>1
  <2>2. CASE ~IsRedirect(r.status)
    BY <1>3, <2>2
  <2>. QED BY <2>1, <2>2
<1>6. l3 \in Seq(AnyByte) /\ f3 \in Seq(AnyField) /\ AreLines(l3, f3)
  <2>1. CASE r.framing = "length"
    BY <1>1, <1>2, <2>1
  <2>2. CASE r.framing = "chunked"
    BY <1>1, <1>2, <2>2
  <2>3. CASE r.framing # "length" /\ r.framing # "chunked"
    BY <1>3, <2>3
  <2>. QED BY <2>1, <2>2, <2>3
<1>7. l4 \in Seq(AnyByte) /\ f4 \in Seq(AnyField) /\ AreLines(l4, f4)
  <2>1. CASE r.close
    BY <1>2, <2>1
  <2>2. CASE ~r.close
    BY <1>3, <2>2
  <2>. QED BY <2>1, <2>2
<1>8. Header(r) = l1 \o l2 \o l3 \o l4 \o e /\ Fields(r) = f1 \o f2 \o f3 \o f4
  BY DEF Header, Fields
<1>. HIDE DEF l1, l2, l3, l4, f1, f2, f3, f4
<1>9. /\ l1 \o l2 \in Seq(AnyByte) /\ f1 \o f2 \in Seq(AnyField)
      /\ AreLines(l1 \o l2, f1 \o f2)
  BY <1>4, <1>5, MoreLines, ConcatProperties
<1>10. /\ l1 \o l2 \o l3 \in Seq(AnyByte) /\ f1 \o f2 \o f3 \in Seq(AnyField)
       /\ AreLines(l1 \o l2 \o l3, f1 \o f2 \o f3)
  BY <1>6, <1>9, MoreLines, ConcatProperties
<1>11. /\ l1 \o l2 \o l3 \o l4 \in Seq(AnyByte) /\ f1 \o f2 \o f3 \o f4 \in Seq(AnyField)
       /\ AreLines(l1 \o l2 \o l3 \o l4, f1 \o f2 \o f3 \o f4)
  BY <1>7, <1>10, MoreLines, ConcatProperties
<1>. QED BY <1>8, <1>11

\* What is in a sequence is in a longer one, and so is what was put behind it.
LEMMA Longer ==
  ASSUME NEW S, NEW a \in Seq(S), NEW b \in Seq(S), 0 < Len(a)
  PROVE  /\ a \o b \in Seq(S) /\ Range(a \o b) = Range(a) \cup Range(b)
         /\ Len(a \o b) \in Nat /\ 0 < Len(a \o b) /\ (a \o b)[1] = a[1]
<1>1. Len(a) \in Nat /\ Len(b) \in Nat
  BY LenProperties
<1>2. /\ a \o b \in Seq(S) /\ Len(a \o b) = Len(a) + Len(b)
      /\ \A i \in 1..Len(a) + Len(b) : (a \o b)[i] = IF i <= Len(a) THEN a[i] ELSE b[i - Len(a)]
  BY ConcatProperties
<1>3. 1 \in 1..Len(a) + Len(b) /\ 1 <= Len(a)
  BY <1>1
<1>. QED BY <1>1, <1>2, <1>3, RangeConcatenation

\* The fields say what there is to know of the body and the connection.
LEMMA FieldsTell ==
  ASSUME NEW r \in Responses
  PROVE  /\ Len(Fields(r)) \in Nat /\ 0 < Len(Fields(r))
         /\ Fields(r)[1] = Field("status", r.status)
         /\ \A i \in 1..Len(Fields(r)) : Fields(r)[i] \in
              {Field("status", r.status)}
              \cup (IF IsRedirect(r.status) THEN {Field("location", r.location)} ELSE {})
              \cup (IF r.framing = "length" THEN {Field("content-length", Len(Body(r)))} ELSE {})
              \cup (IF r.framing = "chunked" THEN {Field("transfer-encoding", 0)} ELSE {})
              \cup (IF r.close THEN {Field("connection", 0)} ELSE {})
         /\ IsRedirect(r.status) =>
              \E i \in 1..Len(Fields(r)) : Fields(r)[i] = Field("location", r.location)
         /\ r.framing = "length" =>
              \E i \in 1..Len(Fields(r)) : Fields(r)[i] = Field("content-length", Len(Body(r)))
         /\ r.framing = "chunked" =>
              \E i \in 1..Len(Fields(r)) : Fields(r)[i] = Field("transfer-encoding", 0)
         /\ r.close => \E i \in 1..Len(Fields(r)) : Fields(r)[i] = Field("connection", 0)
<1>1. r.status \in Nat /\ r.location \in Nat /\ Len(Body(r)) \in Nat
  BY ResponsesAssumption, LenProperties
<1>. DEFINE f1 == <<Field("status", r.status)>>
            f2 == IF IsRedirect(r.status) THEN <<Field("location", r.location)>> ELSE <<>>
            f3 == CASE r.framing = "length"  -> <<Field("content-length", Len(Body(r)))>>
                    [] r.framing = "chunked" -> <<Field("transfer-encoding", 0)>>
                    [] OTHER                 -> <<>>
            f4 == IF r.close THEN <<Field("connection", 0)>> ELSE <<>>
            s1 == {Field("status", r.status)}
            s2 == IF IsRedirect(r.status) THEN {Field("location", r.location)} ELSE {}
            s3 == IF r.framing = "length" THEN {Field("content-length", Len(Body(r)))} ELSE {}
            s4 == IF r.framing = "chunked" THEN {Field("transfer-encoding", 0)} ELSE {}
            s5 == IF r.close THEN {Field("connection", 0)} ELSE {}
<1>2. ASSUME NEW v \in Nat,
             NEW name \in {"status", "location", "content-length", "transfer-encoding",
                           "connection"}
      PROVE  <<Field(name, v)>> \in Seq(AnyField) /\ Range(<<Field(name, v)>>) = {Field(name, v)}
  <2>1. <<Field(name, v)>> \in Seq(AnyField) /\ Len(<<Field(name, v)>>) = 1
        /\ <<Field(name, v)>>[1] = Field(name, v)
    BY DEF Field, AnyField
  <2>2. Range(<<Field(name, v)>>) = {<<Field(name, v)>>[i] : i \in 1..1}
    BY <2>1, RangeEquality
  <2>. QED BY <2>1, <2>2
<1>3. <<>> \in Seq(AnyField) /\ Range(<<>>) = {}
  <2>1. <<>> \in Seq(AnyField) /\ Len(<<>>) = 0
    OBVIOUS
  <2>2. Range(<<>>) = {<<>>[i] : i \in 1..Len(<<>>)}
    BY <2>1, RangeEquality
  <2>. QED BY <2>1, <2>2
<1>4. f1 \in Seq(AnyField) /\ Range(f1) = s1 /\ Len(f1) = 1 /\ f1[1] = Field("status", r.status)
  BY <1>1, <1>2
<1>5. f2 \in Seq(AnyField) /\ Range(f2) = s2
  BY <1>1, <1>2, <1>3
<1>6. f3 \in Seq(AnyField) /\ Range(f3) = s3 \cup s4
  <2>1. CASE r.framing = "length"
    BY <1>1, <1>2, <2>1
  <2>2. CASE r.framing = "chunked"
    BY <1>1, <1>2, <2>2
  <2>3. CASE r.framing # "length" /\ r.framing # "chunked"
    BY <1>3, <2>3
  <2>. QED BY <2>1, <2>2, <2>3
<1>7. f4 \in Seq(AnyField) /\ Range(f4) = s5
  BY <1>2, <1>3
<1>8. Fields(r) = f1 \o f2 \o f3 \o f4
  BY DEF Fields
<1>. HIDE DEF f1, f2, f3, f4, s1, s2, s3, s4, s5
<1>l. ASSUME NEW a \in Seq(AnyField), NEW b \in Seq(AnyField), 0 < Len(a)
      PROVE  /\ a \o b \in Seq(AnyField) /\ Range(a \o b) = Range(a) \cup Range(b)
             /\ Len(a \o b) \in Nat /\ 0 < Len(a \o b) /\ (a \o b)[1] = a[1]
  BY ONLY <1>l, Longer
<1>m. 0 < Len(f1)
  BY <1>4
<1>9. f1 \o f2 \in Seq(AnyField) /\ Range(f1 \o f2) = s1 \cup s2
      /\ Len(f1 \o f2) \in Nat /\ 0 < Len(f1 \o f2) /\ (f1 \o f2)[1] = f1[1]
  BY <1>l, <1>m, <1>4, <1>5
<1>10. f1 \o f2 \o f3 \in Seq(AnyField) /\ Range(f1 \o f2 \o f3) = s1 \cup s2 \cup (s3 \cup s4)
       /\ Len(f1 \o f2 \o f3) \in Nat /\ 0 < Len(f1 \o f2 \o f3) /\ (f1 \o f2 \o f3)[1] = f1[1]
  BY <1>l, <1>6, <1>9
<1>11. /\ Fields(r) \in Seq(AnyField) /\ Range(Fields(r)) = s1 \cup s2 \cup (s3 \cup s4) \cup s5
       /\ Len(Fields(r)) \in Nat /\ 0 < Len(Fields(r)) /\ Fields(r)[1] = f1[1]
  <2>. DEFINE g == f1 \o f2 \o f3
  <2>1. g \in Seq(AnyField) /\ Range(g) = s1 \cup s2 \cup (s3 \cup s4)
        /\ 0 < Len(g) /\ g[1] = f1[1] /\ Fields(r) = g \o f4
    BY <1>8, <1>10
  <2>. HIDE DEF g
  <2>2. /\ g \o f4 \in Seq(AnyField) /\ Range(g \o f4) = Range(g) \cup Range(f4)
        /\ Len(g \o f4) \in Nat /\ 0 < Len(g \o f4) /\ (g \o f4)[1] = g[1]
    BY <1>l, <1>7, <2>1
  <2>. QED BY <1>7, <2>1, <2>2
<1>12. Range(Fields(r)) = {Fields(r)[i] : i \in 1..Len(Fields(r))}
  BY <1>11, RangeEquality
<1>13. \A i \in 1..Len(Fields(r)) : Fields(r)[i] \in s1 \cup s2 \cup s3 \cup s4 \cup s5
  BY <1>11, <1>12
<1>14. \A f \in s1 \cup s2 \cup s3 \cup s4 \cup s5 :
         \E i \in 1..Len(Fields(r)) : Fields(r)[i] = f
  BY <1>11, <1>12
<1>. QED BY <1>4, <1>11, <1>13, <1>14, ZenonT(40) DEF s1, s2, s3, s4, s5

-----------------------------------------------------------------------------
(* What the server sends, byte by byte                                     *)

Msg(r) == Header(r) \o Payload(r)

HeaderLen(r) == 4 * Len(Fields(r)) + 2

\* Where everything is in the message.
LEMMA MsgIs ==
  ASSUME NEW r \in Responses
  PROVE  /\ Msg(r) \in Seq(AnyByte)
         /\ Len(Fields(r)) \in Nat \ {0} /\ HeaderLen(r) \in Nat /\ Len(Payload(r)) \in Nat
         /\ Len(Header(r)) = HeaderLen(r)
         /\ Len(Msg(r)) = HeaderLen(r) + Len(Payload(r))
         /\ \A i \in 1..Len(Fields(r)) :
              /\ Msg(r)[4 * i - 3] = TextPart(Fields(r)[i], 1)
              /\ Msg(r)[4 * i - 2] = TextPart(Fields(r)[i], 2)
              /\ Msg(r)[4 * i - 1] = CR
              /\ Msg(r)[4 * i] = LF
         /\ Msg(r)[4 * Len(Fields(r)) + 1] = CR
         /\ Msg(r)[4 * Len(Fields(r)) + 2] = LF
         /\ \A i \in 1..Len(Payload(r)) : Msg(r)[HeaderLen(r) + i] = Payload(r)[i]
<1>. DEFINE h == Len(Fields(r))
            e == <<CR, LF>>
<1>1. h \in Nat \ {0}
  BY FieldsTell
<1>2. Header(r) \in Seq(AnyByte) /\ Payload(r) \in Seq(AnyByte) /\ Len(Payload(r)) \in Nat
  BY MessageTyped, LenProperties
<1>3. PICK s \in Seq(AnyByte) : Header(r) = s \o e /\ AreLines(s, Fields(r))
  BY HeaderLines
<1>4. Len(s) = 4 * h
  BY <1>3 DEF AreLines
<1>5. e \in Seq(AnyByte) /\ Len(e) = 2 /\ e[1] = CR /\ e[2] = LF
  BY DEF CR, LF, Byte, AnyByte
<1>. HIDE DEF e
<1>6. /\ Len(Header(r)) = 4 * h + 2
      /\ \A i \in 1..4 * h + 2 : Header(r)[i] = IF i <= 4 * h THEN s[i] ELSE e[i - 4 * h]
  BY <1>3, <1>4, <1>5, ConcatProperties
<1>7. /\ Msg(r) \in Seq(AnyByte)
      /\ Len(Msg(r)) = 4 * h + 2 + Len(Payload(r))
      /\ \A i \in 1..4 * h + 2 + Len(Payload(r)) :
           Msg(r)[i] = IF i <= 4 * h + 2 THEN Header(r)[i] ELSE Payload(r)[i - (4 * h + 2)]
  <2>1. /\ Header(r) \o Payload(r) \in Seq(AnyByte)
        /\ Len(Header(r) \o Payload(r)) = Len(Header(r)) + Len(Payload(r))
        /\ \A i \in 1..Len(Header(r)) + Len(Payload(r)) :
             (Header(r) \o Payload(r))[i] =
               IF i <= Len(Header(r)) THEN Header(r)[i] ELSE Payload(r)[i - Len(Header(r))]
    BY ONLY <1>2, ConcatProperties
  <2>2. Len(Header(r)) = 4 * h + 2
    BY <1>6
  <2>. QED BY <2>1, <2>2 DEF Msg
<1>. HIDE DEF h
<1>8. ASSUME NEW i \in 1..4 * h
      PROVE  Msg(r)[i] = s[i]
  <2>1. i \in 1..4 * h + 2 /\ i \in 1..4 * h + 2 + Len(Payload(r)) /\ i <= 4 * h /\ i <= 4 * h + 2
    BY <1>1, <1>2
  <2>. QED BY <1>6, <1>7, <2>1
<1>9. ASSUME NEW i \in 1..h
      PROVE  /\ Msg(r)[4 * i - 3] = TextPart(Fields(r)[i], 1)
             /\ Msg(r)[4 * i - 2] = TextPart(Fields(r)[i], 2)
             /\ Msg(r)[4 * i - 1] = CR
             /\ Msg(r)[4 * i] = LF
  <2>1. 4 * i - 3 \in 1..4 * h /\ 4 * i - 2 \in 1..4 * h /\ 4 * i - 1 \in 1..4 * h
        /\ 4 * i \in 1..4 * h
    BY <1>1
  <2>2. /\ Msg(r)[4 * i - 3] = s[4 * i - 3] /\ Msg(r)[4 * i - 2] = s[4 * i - 2]
        /\ Msg(r)[4 * i - 1] = s[4 * i - 1] /\ Msg(r)[4 * i] = s[4 * i]
    BY <1>8, <2>1
  <2>. QED BY <1>3, <2>2 DEF AreLines, h
<1>10. Msg(r)[4 * h + 1] = CR /\ Msg(r)[4 * h + 2] = LF
  <2>1. ASSUME NEW i \in 1..4 * h + 2, ~(i <= 4 * h)
        PROVE  Msg(r)[i] = e[i - 4 * h]
    <3>1. i <= 4 * h + 2 /\ i \in 1..4 * h + 2 + Len(Payload(r))
      BY <1>1, <1>2
    <3>. QED BY <1>6, <1>7, <2>1, <3>1
  <2>2. PICK k \in Nat : k = 4 * h + 1
    BY <1>1
  <2>3. PICK l \in Nat : l = 4 * h + 2
    BY <1>1
  <2>4. /\ k \in 1..4 * h + 2 /\ ~(k <= 4 * h) /\ k - 4 * h = 1
        /\ l \in 1..4 * h + 2 /\ ~(l <= 4 * h) /\ l - 4 * h = 2
    BY <1>1, <2>2, <2>3
  <2>5. Msg(r)[k] = e[k - 4 * h] /\ Msg(r)[l] = e[l - 4 * h]
    BY <2>1, <2>4
  <2>6. Msg(r)[k] = CR /\ Msg(r)[l] = LF
    BY <1>5, <2>4, <2>5
  <2>. QED BY <2>2, <2>3, <2>6
<1>11. ASSUME NEW i \in 1..Len(Payload(r))
       PROVE  Msg(r)[4 * h + 2 + i] = Payload(r)[i]
  <2>1. PICK k \in Nat : k = 4 * h + 2 + i
    BY <1>1
  <2>2. /\ k \in 1..4 * h + 2 + Len(Payload(r)) /\ ~(k <= 4 * h + 2)
        /\ k - (4 * h + 2) = i
    BY <1>1, <1>2, <2>1
  <2>3. Msg(r)[k] = Payload(r)[k - (4 * h + 2)]
    BY <1>7, <2>2
  <2>. QED BY <2>1, <2>2, <2>3
<1>12. HeaderLen(r) = 4 * h + 2 /\ 4 * h + 2 \in Nat
  BY <1>1 DEF HeaderLen, h
<1>. QED BY <1>1, <1>2, <1>6, <1>7, <1>9, <1>10, <1>11, <1>12 DEF h

\* The ends of its lines are where they should be.
LEMMA EndsOfLines ==
  ASSUME NEW r \in Responses, NEW q \in 1..HeaderLen(r), Msg(r)[q] = LF
  PROVE  q >= HeaderLen(r) \/ \E j \in Nat : q = 4 * j
<1>. DEFINE h == Len(Fields(r))
            i == (q + 3) \div 4
<1>1. h \in Nat \ {0} /\ HeaderLen(r) = 4 * h + 2 /\ q \in Nat /\ 1 <= q /\ q <= 4 * h + 2
  BY MsgIs DEF HeaderLen
<1>2. CR # LF
  BY DEF CR, LF, Byte
<1>3. CASE q <= 4 * h
  <2>1. i \in Nat /\ 4 * i <= q + 3 /\ q + 3 < 4 * i + 4
    BY <1>1
  <2>. HIDE DEF i
  <2>2. i \in 1..h /\ (q = 4 * i - 3 \/ q = 4 * i - 2 \/ q = 4 * i - 1 \/ q = 4 * i)
    BY <1>1, <1>3, <2>1
  <2>3. Fields(r)[i] \in AnyField
    BY <2>2, HeaderLines, ElementOfSeq
  <2>4. TextPart(Fields(r)[i], 1) # LF /\ TextPart(Fields(r)[i], 2) # LF
    BY <2>3 DEF TextPart, LF, Byte, AnyField
  <2>5. /\ Msg(r)[4 * i - 3] # LF /\ Msg(r)[4 * i - 2] # LF /\ Msg(r)[4 * i - 1] # LF
    BY <1>2, <2>2, <2>4, MsgIs
  <2>. QED BY <2>1, <2>2, <2>5
<1>4. CASE q = 4 * h + 1
  BY <1>2, <1>4, MsgIs
<1>5. CASE q = 4 * h + 2
  BY <1>1, <1>5
<1>6. q <= 4 * h \/ q = 4 * h + 1 \/ q = 4 * h + 2
  BY <1>1
<1>. QED BY <1>3, <1>4, <1>5, <1>6

-----------------------------------------------------------------------------
(* Reading                                                                 *)

\* The rest of the message was lost with the connection.
Lost == ~alive /\ stream = <<>>

\* What is still to come is all but the first q bytes of the message.
Follows(q) ==
  /\ q \in Nat /\ q <= Len(Msg(response))
  /\ \/ Lost
     \/ /\ Len(stream) = Len(Msg(response)) - q
        /\ \A i \in 1..Len(stream) : stream[i] = Msg(response)[q + i]

\* The client has taken p bytes of the message; those that follow are in the
\* buffer, and then to come.
InBuffer(p) ==
  LET begin == p - current_pos
  IN  /\ begin \in Nat /\ current_pos <= size
      /\ \A i \in current_pos + 1..size : data[i] = Msg(response)[begin + i]
      /\ Follows(begin + size)

Has(k, name) == \E i \in 2..k : Fields(response)[i].name = name

\* What k lines of the header have told.
Parsed(k) ==
  /\ k \in Nat /\ k <= Len(Fields(response))
  /\ k > 0 => response.status = 200 \/ IsRedirect(response.status)
  /\ is_redirect <=> k > 0 /\ IsRedirect(response.status)
  /\ content_length = IF Has(k, "content-length") THEN Len(Body(response)) ELSE 0
  /\ Has(k, "location") => location = response.location
  /\ is_chunked <=> Has(k, "transfer-encoding")
  /\ Has(k, "connection") => ~trykeepalive

\* Where the segment in the buffer ends.
SegmentEnd == 4 * x - current_pos + size

InHeaders ==
  /\ pc = "headers" =>
       /\ Parsed(x) /\ Follows(4 * x)
       /\ Lost \/ head = HeaderLen(response) - 4 * x
       /\ response.framing = "chunked" => x = 0
  /\ pc = "line" =>
       /\ Parsed(x) /\ InBuffer(4 * x) /\ current_pos < size /\ chunk_size = 0
       /\ SegmentEnd >= HeaderLen(response) \/ \E j \in Nat : SegmentEnd = 4 * j
       /\ response.framing = "chunked" => SegmentEnd >= HeaderLen(response)
       /\ \/ Lost
          \/ head = IF SegmentEnd >= HeaderLen(response) THEN 0
                    ELSE HeaderLen(response) - SegmentEnd
       /\ chunked_data_available <=> is_chunked

\* The destination holds the first d bytes of the body.
Holds(d) ==
  /\ d \in Nat /\ d <= Len(Body(response)) /\ Len(out) = d
  /\ \A i \in 1..d : out[i] = Body(response)[i]
  /\ dest = "VAR" => n = d

InLength ==
  /\ pc = "rest" => ~is_chunked /\ dest = "file" /\ InBuffer(HeaderLen(response))
  /\ pc = "copy" =>
       /\ ~is_chunked /\ dest = "file"
       /\ Holds(Len(out)) /\ Follows(HeaderLen(response) + Len(out))
  /\ pc = "byte" /\ ~is_chunked =>
       /\ ~chunked_data_available
       /\ Holds(data_fetched) /\ InBuffer(HeaderLen(response) + data_fetched)

InChunk ==
  LET length == Len(Body(response))
  IN  /\ pc \in {"byte", "size", "skip"} /\ is_chunked =>
           chunked_data_available /\ InBuffer(HeaderLen(response) + data_fetched)
      /\ pc = "byte" /\ is_chunked =>
           \/ data_fetched = 0 /\ chunk_size = 0 /\ Holds(0)
           \/ /\ data_fetched >= 3 /\ length > 0
              /\ chunk_size = length - (data_fetched - 3) /\ Holds(data_fetched - 3)
      /\ pc = "size" =>
           /\ is_chunked
           /\ \/ data_fetched = 0 /\ digits = 0 /\ Holds(0)
              \/ data_fetched = 1 /\ digits = length /\ Holds(0)
              \/ data_fetched = length + 3 /\ length > 0 /\ digits = 0 /\ Holds(length)
      /\ pc = "skip" =>
           /\ is_chunked
           /\ \/ data_fetched = 2 /\ chunk_size = length /\ Holds(0)
              \/ data_fetched = length + 4 /\ length > 0 /\ chunk_size = 0 /\ Holds(length)

Reading ==
  /\ InHeaders /\ InLength /\ InChunk
  /\ pc \in {"rest", "copy", "byte", "size", "skip", "end"} =>
       /\ Framed /\ response.status = 200
       /\ response.close => ~trykeepalive
  /\ pc = "end" => WholeBody /\ (trykeepalive => stream = <<>>)
  /\ pc = "idle" => stream = <<>>

\* Where the first end of a line is, the line ends.
LEMMA LineEndIs ==
  ASSUME TypeInv, NEW e \in current_pos + 1..Len(data), data[e] = LF,
         \A i \in current_pos + 1..e - 1 : data[i] # LF
  PROVE  Ends # {} /\ LineEnd = e
<1>1. Len(data) \in Nat /\ current_pos \in Nat
  BY Lengths
<1>2. e \in Ends
  BY DEF Ends
<1>3. \A f \in Ends : e <= f
  BY <1>1 DEF Ends
<1>4. \A g \in Ends : (\A f \in Ends : g <= f) => g = e
  BY <1>1, <1>2, <1>3 DEF Ends
<1>. QED BY <1>2, <1>3, <1>4 DEF LineEnd

\* The line in the buffer is the next one of the header.
LEMMA LineIs ==
  ASSUME TypeInv, InHeaders, pc = "line"
  PROVE  /\ Ends # {} /\ LineEnd <= size
         /\ x < Len(Fields(response)) =>
              /\ LineEnd = current_pos + 4
              /\ Kept = {current_pos + 1, current_pos + 2}
              /\ data[current_pos + 1] = TextPart(Fields(response)[x + 1], 1)
              /\ data[current_pos + 2] = TextPart(Fields(response)[x + 1], 2)
         /\ x >= Len(Fields(response)) =>
              x = Len(Fields(response)) /\ LineEnd = current_pos + 2 /\ Kept = {}
<1>. DEFINE h == Len(Fields(response))
            M == Msg(response)
            c == current_pos
            b == 4 * x - current_pos
<1>1. response \in Responses
  BY DEF TypeInv, TypeOK
<1>2. /\ h \in Nat \ {0} /\ HeaderLen(response) = 4 * h + 2
      /\ \A i \in 1..h : /\ M[4 * i - 3] = TextPart(Fields(response)[i], 1)
                         /\ M[4 * i - 2] = TextPart(Fields(response)[i], 2)
                         /\ M[4 * i - 1] = CR /\ M[4 * i] = LF
      /\ M[4 * h + 1] = CR /\ M[4 * h + 2] = LF
  BY <1>1, MsgIs DEF HeaderLen
<1>3. /\ x \in Nat /\ x <= h /\ c \in Nat /\ size \in Nat /\ c < size /\ b \in Nat
      /\ \A i \in c + 1..size : data[i] = M[b + i]
      /\ size <= Len(data) /\ Len(data) \in Nat
      /\ SegmentEnd >= 4 * h + 2 \/ \E j \in Nat : SegmentEnd = 4 * j
  BY <1>2, Lengths DEF InHeaders, Parsed, InBuffer, TypeInv, TypeOK
<1>4. SegmentEnd = b + size
  BY <1>3 DEF SegmentEnd
<1>5. CR # LF
  BY DEF CR, LF, Byte
<1>. HIDE DEF M, h
<1>6. ASSUME x < h
      PROVE  /\ Ends # {} /\ LineEnd = c + 4 /\ LineEnd <= size
             /\ Kept = {c + 1, c + 2}
             /\ data[c + 1] = TextPart(Fields(response)[x + 1], 1)
             /\ data[c + 2] = TextPart(Fields(response)[x + 1], 2)
  <2>1. c + 4 <= size
    <3>1. CASE SegmentEnd >= 4 * h + 2
      BY <1>2, <1>3, <1>4, <1>6, <3>1
    <3>2. CASE \E j \in Nat : SegmentEnd = 4 * j
      <4>1. PICK j \in Nat : SegmentEnd = 4 * j
        BY <3>2
      <4>2. 4 * j > 4 * x
        BY <1>3, <1>4, <4>1
      <4>3. j >= x + 1
        BY <1>3, <4>2
      <4>. QED BY <1>3, <1>4, <4>1, <4>3
    <3>. QED BY <1>3, <3>1, <3>2
  <2>2. PICK k \in Nat : k = x + 1
    BY <1>3
  <2>3. /\ k \in 1..h
        /\ b + (c + 1) = 4 * k - 3 /\ b + (c + 2) = 4 * k - 2
        /\ b + (c + 3) = 4 * k - 1 /\ b + (c + 4) = 4 * k
    BY <1>2, <1>3, <1>6, <2>2
  <2>4. /\ c + 1 \in c + 1..size /\ c + 2 \in c + 1..size
        /\ c + 3 \in c + 1..size /\ c + 4 \in c + 1..size
    BY <1>3, <2>1
  <2>5. /\ data[c + 1] = M[4 * k - 3] /\ data[c + 2] = M[4 * k - 2]
        /\ data[c + 3] = M[4 * k - 1] /\ data[c + 4] = M[4 * k]
    BY <1>3, <2>3, <2>4
  <2>6. /\ data[c + 1] = TextPart(Fields(response)[k], 1)
        /\ data[c + 2] = TextPart(Fields(response)[k], 2)
        /\ data[c + 3] = CR /\ data[c + 4] = LF
    BY <1>2, <2>3, <2>5
  <2>7. Fields(response)[k] \in AnyField
    BY <1>1, <2>3, HeaderLines, ElementOfSeq DEF h
  <2>8. /\ data[c + 1] # LF /\ data[c + 2] # LF /\ data[c + 3] # LF
        /\ data[c + 1] # CR /\ data[c + 2] # CR
    BY <1>5, <2>6, <2>7 DEF TextPart, LF, CR, Byte, AnyField
  <2>9. c + 4 \in c + 1..Len(data)
    BY <1>3, <2>1
  <2>10. ASSUME NEW i \in c + 1..c + 4 - 1
         PROVE  i = c + 1 \/ i = c + 2 \/ i = c + 3
    BY <1>3
  <2>11. \A i \in c + 1..c + 4 - 1 : data[i] # LF
    BY <2>8, <2>10
  <2>12. Ends # {} /\ LineEnd = c + 4
    <3>1. PICK e \in Nat : e = c + 4
      BY <1>3
    <3>2. e \in c + 1..Len(data) /\ data[e] = LF /\ \A i \in c + 1..e - 1 : data[i] # LF
      BY <1>3, <2>6, <2>9, <2>11, <3>1
    <3>. QED BY <3>1, <3>2, LineEndIs
  <2>13. Kept = {i \in c + 1..c + 4 - 1 : data[i] # CR}
    <3>. DEFINE f == LineEnd
    <3>1. Kept = {i \in c + 1..f - 1 : data[i] # CR} /\ f = c + 4
      BY <2>12 DEF Kept
    <3>. HIDE DEF f
    <3>2. f - 1 = c + 4 - 1
      BY <1>3, <3>1
    <3>. QED BY <3>1, <3>2
  <2>14. c + 1 \in c + 1..c + 4 - 1 /\ c + 2 \in c + 1..c + 4 - 1
    BY <1>3
  <2>15. Kept = {c + 1, c + 2}
    BY <2>6, <2>8, <2>10, <2>13, <2>14
  <2>. QED BY <2>1, <2>2, <2>6, <2>12, <2>15
<1>7. ASSUME x >= h
      PROVE  x = h /\ Ends # {} /\ LineEnd = c + 2 /\ LineEnd <= size /\ Kept = {}
  <2>1. x = h
    BY <1>2, <1>3, <1>7
  <2>2. c + 2 <= size
    <3>1. CASE SegmentEnd >= 4 * h + 2
      BY <1>2, <1>3, <1>4, <2>1, <3>1
    <3>2. CASE \E j \in Nat : SegmentEnd = 4 * j
      <4>1. PICK j \in Nat : SegmentEnd = 4 * j
        BY <3>2
      <4>2. 4 * j > 4 * x
        BY <1>3, <1>4, <4>1
      <4>3. j >= x + 1
        BY <1>3, <4>2
      <4>. QED BY <1>3, <1>4, <4>1, <4>3
    <3>. QED BY <1>3, <3>1, <3>2
  <2>3. b + (c + 1) = 4 * h + 1 /\ b + (c + 2) = 4 * h + 2
    BY <1>2, <1>3, <2>1
  <2>4. c + 1 \in c + 1..size /\ c + 2 \in c + 1..size /\ c + 2 \in c + 1..Len(data)
    BY <1>3, <2>2
  <2>5. data[c + 1] = CR /\ data[c + 2] = LF
    <3>1. PICK i \in Nat : i = c + 1
      BY <1>3
    <3>2. PICK j \in Nat : j = c + 2
      BY <1>3
    <3>3. data[i] = M[b + i] /\ data[j] = M[b + j]
      BY <1>3, <2>4, <3>1, <3>2
    <3>4. M[b + i] = CR /\ M[b + j] = LF
      BY <1>2, <2>3, <3>1, <3>2
    <3>. QED BY <3>1, <3>2, <3>3, <3>4
  <2>6. ASSUME NEW i \in c + 1..c + 2 - 1
        PROVE  i = c + 1
    BY <1>3
  <2>7. \A i \in c + 1..c + 2 - 1 : data[i] # LF
    BY <1>5, <2>5, <2>6
  <2>8. Ends # {} /\ LineEnd = c + 2
    <3>1. PICK e \in Nat : e = c + 2
      BY <1>3
    <3>2. e \in c + 1..Len(data) /\ data[e] = LF
      BY <2>4, <2>5, <3>1
    <3>3. e - 1 = c + 2 - 1
      BY <1>3, <3>1
    <3>4. \A i \in c + 1..e - 1 : data[i] # LF
      BY <2>7, <3>3
    <3>. QED BY <3>1, <3>2, <3>4, LineEndIs
  <2>9. Kept = {}
    <3>. DEFINE f == LineEnd
    <3>1. Kept = {i \in c + 1..f - 1 : data[i] # CR} /\ f = c + 2
      BY <2>8 DEF Kept
    <3>. HIDE DEF f
    <3>2. f - 1 = c + 2 - 1
      BY <1>3, <3>1
    <3>3. Kept = {i \in c + 1..c + 2 - 1 : data[i] # CR}
      BY <3>1, <3>2
    <3>. QED BY <2>5, <2>6, <3>3
  <2>. QED BY <2>1, <2>2, <2>8, <2>9
<1>8. x < h \/ x >= h
  BY <1>2, <1>3
<1>. QED BY <1>6, <1>7, <1>8 DEF h

\* What the line says is what the field does.
LEMMA NameIs ==
  ASSUME TypeInv, InHeaders, pc = "line", Kept # {}
  PROVE  /\ x < Len(Fields(response)) /\ x + 1 \in 1..Len(Fields(response))
         /\ LineEnd = current_pos + 4 /\ LineEnd <= size
         /\ Value = Fields(response)[x + 1].value
         /\ \A name : Named(name) <=> Fields(response)[x + 1].name = name
<1>. DEFINE h == Len(Fields(response))
            f == Fields(response)[x + 1]
            c == current_pos
<1>1. h \in Nat /\ x \in Nat /\ c \in Nat
  BY MsgIs, Lengths DEF TypeInv, TypeOK
<1>2. x < h /\ x + 1 \in 1..h
  BY <1>1, LineIs
<1>3. /\ LineEnd = c + 4 /\ LineEnd <= size /\ Kept = {c + 1, c + 2}
      /\ data[c + 1] = TextPart(f, 1) /\ data[c + 2] = TextPart(f, 2)
  BY <1>2, LineIs
<1>. HIDE DEF f, h
<1>4. Value = f.value
  <2>. DEFINE P(i) == i \in Kept /\ \A j \in Kept : i <= j
  <2>1. P(c + 1) /\ \A i \in Kept : P(i) => i = c + 1
    BY <1>1, <1>3
  <2>2. (CHOOSE i \in Kept : \A j \in Kept : i <= j) = c + 1
    BY <1>3, <2>1
  <2>3. Value = data[c + 1].value
    BY <2>2 DEF Value
  <2>. QED BY <1>3, <2>3 DEF TextPart
<1>5. ASSUME NEW name, Named(name)
      PROVE  f.name = name
  <2>1. PICK i \in Kept, j \in Kept : i < j /\ <<data[i], data[j]>> = Text(name, Value)
    BY <1>5 DEF Named
  <2>2. i = c + 1
    BY <1>1, <1>3, <2>1
  <2>3. Text(name, Value)[1] = data[c + 1]
    BY <2>1, <2>2
  <2>4. Text(name, Value)[1] = [kind |-> name, part |-> 1, value |-> Value]
    BY DEF Text
  <2>5. TextPart(f, 1).kind = name
    BY <1>3, <2>3, <2>4
  <2>. QED BY <2>5 DEF TextPart
<1>6. ASSUME NEW name, f.name = name
      PROVE  Named(name)
  <2>1. Text(name, Value) = [i \in 1..2 |-> TextPart(f, i)]
    BY <1>4, <1>6 DEF Text, TextPart
  <2>2. [i \in 1..2 |-> TextPart(f, i)] = <<TextPart(f, 1), TextPart(f, 2)>>
    OBVIOUS
  <2>3. <<data[c + 1], data[c + 2]>> = Text(name, Value)
    BY <1>3, <2>1, <2>2
  <2>4. c + 1 < c + 2
    BY <1>1
  <2>. QED BY <1>3, <2>3, <2>4 DEF Named
<1>. QED BY <1>2, <1>3, <1>4, <1>5, <1>6 DEF f, h

\* One more line tells what its field does.
LEMMA LineParsed ==
  ASSUME TypeInv, InHeaders, HeaderLine
  PROVE  Parsed(x)'
<1>. DEFINE h == Len(Fields(response))
            f == Fields(response)[x + 1]
<1>1. /\ pc = "line" /\ Kept # {} /\ (x = 0 => Good)
      /\ response' = response /\ x' = x + 1
  BY DEF HeaderLine, call
<1>2. /\ x < h /\ x + 1 \in 1..h /\ Value = f.value
      /\ \A name : Named(name) <=> f.name = name
  BY <1>1, NameIs
<1>3. Parsed(x) /\ response \in Responses /\ x \in Nat /\ h \in Nat
  BY <1>1, MsgIs DEF InHeaders, TypeInv, TypeOK
<1>4. f \in {Field("status", response.status)}
           \cup (IF IsRedirect(response.status) THEN {Field("location", response.location)} ELSE {})
           \cup (IF response.framing = "length" THEN {Field("content-length", Len(Body(response)))} ELSE {})
           \cup (IF response.framing = "chunked" THEN {Field("transfer-encoding", 0)} ELSE {})
           \cup (IF response.close THEN {Field("connection", 0)} ELSE {})
  BY <1>2, <1>3, FieldsTell
<1>5. x = 0 => f = Field("status", response.status)
  BY <1>3, FieldsTell
<1>. HIDE DEF f
<1>6. ASSUME NEW name
      PROVE  Has(x + 1, name) <=> Has(x, name) \/ (x > 0 /\ f.name = name)
  BY <1>3 DEF Has, f
<1>7. ASSUME NEW name
      PROVE  Has(x + 1, name) <=> Has(x, name) \/ IsLine(name)
  BY <1>2, <1>6 DEF IsLine
<1>8. \A name : Has(x, name)' <=> Has(x + 1, name)
  BY <1>1 DEF Has
<1>9. content_length' = IF Has(x, "content-length")' THEN Len(Body(response)) ELSE 0
  <2>1. content_length' = IF IsLine("content-length") THEN f.value ELSE content_length
    BY <1>2 DEF HeaderLine
  <2>2. IsLine("content-length") => f.value = Len(Body(response))
    BY <1>2, <1>4 DEF IsLine, Field
  <2>. QED BY <1>3, <1>7, <1>8, <2>1, <2>2 DEF Parsed
<1>10. Has(x, "location")' => location' = response.location
  <2>1. location' = IF IsLine("location") THEN f.value ELSE location
    BY <1>2 DEF HeaderLine
  <2>2. IsLine("location") => f.value = response.location
    BY <1>2, <1>4 DEF IsLine, Field
  <2>. QED BY <1>3, <1>7, <1>8, <2>1, <2>2 DEF Parsed
<1>11. is_chunked' <=> Has(x, "transfer-encoding")'
  <2>1. is_chunked' <=> is_chunked \/ IsLine("transfer-encoding")
    BY DEF HeaderLine
  <2>. QED BY <1>3, <1>7, <1>8, <2>1 DEF Parsed
<1>12. Has(x, "connection")' => ~trykeepalive'
  <2>1. trykeepalive' = (trykeepalive /\ ~IsLine("connection"))
    BY DEF HeaderLine
  <2>. QED BY <1>3, <1>7, <1>8, <2>1 DEF Parsed
<1>13. /\ response.status = 200 \/ IsRedirect(response.status)
       /\ is_redirect' <=> IsRedirect(response.status)
  <2>1. CASE x = 0
    <3>1. f.value = response.status
      BY <1>5, <2>1 DEF Field
    <3>2. response.status = 200 \/ IsRedirect(response.status)
      BY <1>1, <1>2, <2>1, <3>1 DEF Good
    <3>3. ~is_redirect
      BY <1>3, <2>1 DEF Parsed
    <3>4. is_redirect' <=> response.status # 200
      BY <1>2, <2>1, <3>1, <3>3 DEF HeaderLine
    <3>5. IsRedirect(response.status) => response.status # 200
      BY DEF IsRedirect
    <3>. QED BY <3>2, <3>4, <3>5
  <2>2. CASE x # 0
    <3>1. x > 0
      BY <1>3, <2>2
    <3>2. is_redirect' <=> is_redirect
      BY <2>2 DEF HeaderLine
    <3>. QED BY <1>3, <3>1, <3>2 DEF Parsed
  <2>. QED BY <2>1, <2>2
<1>14. x' \in Nat /\ x' <= h /\ x' > 0
  <2>. HIDE DEF h
  <2>. QED BY <1>1, <1>2, <1>3
<1>. QED BY <1>1, <1>9, <1>10, <1>11, <1>12, <1>13, <1>14 DEF Parsed

-----------------------------------------------------------------------------
(* Steps in the headers                                                    *)

\* The first part of a sequence.
LEMMA FirstOf ==
  ASSUME NEW S, NEW s \in Seq(S), NEW k \in 1..Len(s)
  PROVE  /\ SubSeq(s, 1, k) \in Seq(S) /\ Len(SubSeq(s, 1, k)) = k
         /\ \A i \in 1..k : SubSeq(s, 1, k)[i] = s[i]
<1>1. Len(s) \in Nat /\ k \in Nat /\ 1 <= k
  BY LenProperties
<1>2. \A i \in 1..k : s[i] \in S
  BY <1>1, ElementOfSeq
<1>3. /\ SubSeq(s, 1, k) \in Seq(S)
      /\ Len(SubSeq(s, 1, k)) = IF 1 <= k THEN k - 1 + 1 ELSE 0
      /\ \A i \in 1..k - 1 + 1 : SubSeq(s, 1, k)[i] = s[1 + i - 1]
  BY <1>1, <1>2, SubSeqProperties
<1>4. k - 1 + 1 = k
  BY <1>1
<1>5. ASSUME NEW i \in 1..k
      PROVE  SubSeq(s, 1, k)[i] = s[i]
  <2>1. 1 + i - 1 = i /\ i \in 1..k - 1 + 1
    BY <1>1
  <2>. QED BY <1>3, <2>1
<1>. QED BY <1>1, <1>3, <1>4, <1>5

\* A segment that is received is the next piece of the message.
LEMMA SegmentRead ==
  ASSUME TypeInv, NEW k, Receive(k), NEW q \in Nat, Follows(q)
  PROVE  /\ k \in Nat /\ 0 < k /\ q + k <= Len(Msg(response))
         /\ alive' = alive /\ ~Lost
         /\ Len(stream') = Len(Msg(response)) - (q + k)
         /\ \A i \in 1..Len(stream') : stream'[i] = Msg(response)[q + k + i]
         /\ \A i \in 1..k : stream[i] = Msg(response)[q + i]
         /\ \A i \in 1..k : data'[i] = Msg(response)[q + i]
<1>. DEFINE M == Msg(response)
<1>1. Len(stream) \in Nat /\ stream \in Seq(AnyByte) /\ data \in Seq(AnyByte)
      /\ Len(M) \in Nat /\ Len(data) \in Nat
  BY Lengths, MsgIs, LenProperties DEF TypeInv, TypeOK
<1>2. /\ k \in 1..Len(stream)
      /\ data' = SubSeq(stream, 1, k) \o SubSeq(data, k + 1, Len(data))
      /\ stream' = SubSeq(stream, k + 1, Len(stream))
      /\ alive' = alive
  BY DEF Receive
<1>3. k \in Nat /\ 0 < k /\ k <= Len(stream)
  BY <1>1, <1>2
<1>4. stream # <<>>
  <2>1. Len(<<>>) = 0
    OBVIOUS
  <2>. QED BY <1>1, <1>3, <2>1
<1>5. ~Lost /\ Len(stream) = Len(M) - q /\ \A i \in 1..Len(stream) : stream[i] = M[q + i]
  BY <1>4 DEF Follows, Lost
<1>. HIDE DEF M
<1>6. /\ Len(stream') = IF k < Len(stream) THEN Len(stream) - k ELSE 0
      /\ \A i \in 1..Len(stream) - k : stream'[i] = stream[k + i]
  BY <1>1, <1>2, <1>3, PartOf, SMTT(20)
<1>7. Len(stream') = Len(M) - (q + k) /\ q + k <= Len(M) /\ Len(stream') = Len(stream) - k
  <2>1. Len(stream') = Len(stream) - k
    <3>1. Len(stream') = IF k < Len(stream) THEN Len(stream) - k ELSE 0
      BY <1>6
    <3>. QED BY ONLY <1>1, <1>3, <3>1
  <2>2. q \in Nat /\ Len(stream) = Len(M) - q
    BY <1>5
  <2>. QED BY ONLY <1>1, <1>3, <2>1, <2>2
<1>8. ASSUME NEW i \in 1..Len(stream')
      PROVE  stream'[i] = M[q + k + i]
  <2>1. PICK j \in Nat : j = k + i
    BY <1>3, <1>8
  <2>2. j \in 1..Len(stream) /\ i \in 1..Len(stream) - k /\ q + j = q + k + i
    BY <1>1, <1>3, <1>7, <2>1
  <2>3. stream'[i] = stream[j]
    BY <1>6, <2>1, <2>2
  <2>4. stream[j] = M[q + j]
    BY <1>5, <2>2
  <2>. QED BY <2>2, <2>3, <2>4
<1>9. \A i \in 1..k : stream[i] = M[q + i]
  BY <1>1, <1>3, <1>5
<1>11. SubSeq(stream, 1, k) \in Seq(AnyByte) /\ Len(SubSeq(stream, 1, k)) = k
       /\ \A i \in 1..k : SubSeq(stream, 1, k)[i] = stream[i]
  <2>1. k \in 1..Len(stream)
    BY <1>2
  <2>. QED BY <1>1, <2>1, FirstOf
<1>12. SubSeq(data, k + 1, Len(data)) \in Seq(AnyByte)
       /\ Len(SubSeq(data, k + 1, Len(data))) \in Nat
  BY <1>1, <1>3, PartOf, LenProperties
<1>13. \A i \in 1..k : data'[i] = stream[i]
  <2>. DEFINE f == SubSeq(stream, 1, k)
              g == SubSeq(data, k + 1, Len(data))
  <2>1. \A i \in 1..Len(f) + Len(g) : (f \o g)[i] = IF i <= Len(f) THEN f[i] ELSE g[i - Len(f)]
    BY <1>11, <1>12, ConcatProperties
  <2>2. data' = f \o g
    BY <1>2
  <2>3. Len(f) = k /\ Len(g) \in Nat /\ \A i \in 1..k : f[i] = stream[i]
    BY <1>11, <1>12
  <2>. HIDE DEF f, g
  <2>. QED BY <1>3, <2>1, <2>2, <2>3
<1>. QED BY <1>2, <1>3, <1>5, <1>7, <1>8, <1>9, <1>13 DEF M

\* In the headers, nothing else is to be shown.
LEMMA HeadersOnly == (pc \in {"headers", "line"} /\ InHeaders => Reading)'
BY DEF Reading, InLength, InChunk

\* An answer on a connection that has nothing under way is the message.
LEMMA AnswerRead ==
  ASSUME NEW r \in Responses, Answer(r, <<>>)
  PROVE  /\ response' = r /\ head' = HeaderLen(r) /\ Len(stream') = Len(Msg(r))
         /\ \A i \in 1..Len(stream') : stream'[i] = Msg(r)[i]
<1>1. Header(r) \in Seq(AnyByte) /\ Payload(r) \in Seq(AnyByte) /\ Len(Header(r)) = HeaderLen(r)
      /\ HeaderLen(r) \in Nat
  BY MessageTyped, MsgIs
<1>2. <<>> \o Header(r) = Header(r) /\ Len(<<>>) = 0
  BY <1>1, ConcatEmptySeq
<1>3. stream' = Msg(r) /\ response' = r /\ head' = 0 + HeaderLen(r)
  BY <1>1, <1>2 DEF Answer, Msg
<1>. QED BY <1>1, <1>3

\* A new request begins at the beginning of the message.
LEMMA BeginRead ==
  ASSUME NEW r \in Responses, Answer(r, <<>>), InitHeadersInfo, x' = 0, pc' = "headers"
  PROVE  Reading'
<1>1. /\ response' = r /\ head' = HeaderLen(r) /\ Len(stream') = Len(Msg(r))
      /\ \A i \in 1..Len(stream') : stream'[i] = Msg(r)[i]
  BY AnswerRead
<1>2. /\ Len(Fields(r)) \in Nat \ {0} /\ HeaderLen(r) \in Nat /\ Len(Msg(r)) \in Nat
  BY MsgIs, LenProperties
<1>3. 4 * x' = 0
  OBVIOUS
<1>4. Follows(4 * x)'
  BY <1>1, <1>2, <1>3 DEF Follows
<1>5. Parsed(x)'
  <2>1. \A name : ~Has(x, name)'
    BY DEF Has
  <2>. QED BY <1>1, <1>2, <2>1 DEF Parsed, InitHeadersInfo
<1>6. head' = HeaderLen(response') - 4 * x'
  BY <1>1, <1>2, <1>3
<1>7. InHeaders'
  BY <1>4, <1>5, <1>6 DEF InHeaders
<1>. QED BY <1>7, HeadersOnly

\* A request is made, anew or after a redirect, with nothing under way.
LEMMA RequestRead ==
  ASSUME Reading, Request \/ Redirect
  PROVE  Reading'
<1>1. CASE Request
  <2>1. stream = <<>>
    BY <1>1 DEF Request, Reading
  <2>2. PICK r \in Responses : Answer(r, <<>>)
    BY <1>1, <2>1 DEF Request
  <2>. QED BY <1>1, <2>2, BeginRead DEF Request
<1>2. CASE Redirect
  <2>1. PICK r \in Responses : Answer(r, <<>>)
    BY <1>2 DEF Redirect
  <2>. QED BY <1>2, <2>1, BeginRead DEF Redirect
<1>. QED BY <1>1, <1>2

\* What the lines so far have told is so, and all of them tell everything.
LEMMA HasTells ==
  ASSUME response \in Responses, NEW k \in 0..Len(Fields(response))
  PROVE  /\ Has(k, "location") => IsRedirect(response.status)
         /\ Has(k, "content-length") => response.framing = "length"
         /\ Has(k, "transfer-encoding") => response.framing = "chunked"
         /\ k = Len(Fields(response)) =>
              /\ IsRedirect(response.status) => Has(k, "location")
              /\ response.framing = "length" => Has(k, "content-length")
              /\ response.framing = "chunked" => Has(k, "transfer-encoding")
              /\ response.close => Has(k, "connection")
<1>. DEFINE h == Len(Fields(response))
            F == Fields(response)
<1>1. h \in Nat /\ F[1] = Field("status", response.status)
  BY FieldsTell
<1>2. \A i \in 1..h : F[i] \in
        {Field("status", response.status)}
        \cup (IF IsRedirect(response.status) THEN {Field("location", response.location)} ELSE {})
        \cup (IF response.framing = "length" THEN {Field("content-length", Len(Body(response)))} ELSE {})
        \cup (IF response.framing = "chunked" THEN {Field("transfer-encoding", 0)} ELSE {})
        \cup (IF response.close THEN {Field("connection", 0)} ELSE {})
  BY FieldsTell
<1>3. ASSUME NEW i \in 2..k
      PROVE  /\ F[i].name = "location" => IsRedirect(response.status)
             /\ F[i].name = "content-length" => response.framing = "length"
             /\ F[i].name = "transfer-encoding" => response.framing = "chunked"
  <2>1. i \in 1..h
    BY <1>1
  <2>. QED BY <1>2, <2>1 DEF Field
<1>4. ASSUME k = h, NEW i \in 1..h, F[i].name # "status"
      PROVE  i \in 2..k
  <2>1. i # 1
    BY <1>1, <1>4 DEF Field
  <2>. QED BY <1>1, <1>4, <2>1
<1>5. ASSUME NEW name, NEW v, name # "status", k = h, \E i \in 1..h : F[i] = Field(name, v)
      PROVE  Has(k, name)
  BY <1>4, <1>5 DEF Has, Field
<1>6. /\ IsRedirect(response.status) => \E i \in 1..h : F[i] = Field("location", response.location)
      /\ response.framing = "length" =>
           \E i \in 1..h : F[i] = Field("content-length", Len(Body(response)))
      /\ response.framing = "chunked" => \E i \in 1..h : F[i] = Field("transfer-encoding", 0)
      /\ response.close => \E i \in 1..h : F[i] = Field("connection", 0)
  BY FieldsTell
<1>7. ASSUME k = h
      PROVE  /\ IsRedirect(response.status) => Has(k, "location")
             /\ response.framing = "length" => Has(k, "content-length")
             /\ response.framing = "chunked" => Has(k, "transfer-encoding")
             /\ response.close => Has(k, "connection")
  BY <1>5, <1>6, <1>7
<1>8. /\ Has(k, "location") => IsRedirect(response.status)
      /\ Has(k, "content-length") => response.framing = "length"
      /\ Has(k, "transfer-encoding") => response.framing = "chunked"
  BY <1>3 DEF Has
<1>. QED BY <1>7, <1>8

\* A segment of the headers ends where a line does, or behind the headers.
LEMMA GetHeadersRead ==
  ASSUME \A r \in Responses : CanRead(r), TypeInv, Reading, GetHeaders
  PROVE  Reading'
<1>. DEFINE M == Msg(response)
            l == HeaderLen(response)
<1>1. PICK k \in 1..BufferSize : Receive(k) /\ size' = k
  BY DEF GetHeaders
<1>2. /\ pc = "headers" /\ pc' = "line" /\ current_pos' = 0 /\ chunk_size' = 0
      /\ chunked_data_available' = FALSE
      /\ UNCHANGED <<x, response, is_redirect, content_length, location, is_chunked,
                     trykeepalive>>
  BY DEF GetHeaders, call, headers_info
<1>3. /\ Parsed(x) /\ Follows(4 * x) /\ (Lost \/ head = l - 4 * x)
      /\ response.framing = "chunked" => x = 0
  BY <1>2 DEF Reading, InHeaders
<1>4. response \in Responses /\ x \in Nat /\ head \in Nat /\ x <= Len(Fields(response))
  BY <1>3 DEF TypeInv, TypeOK, Parsed
<1>5. l \in Nat /\ Len(M) \in Nat /\ l <= Len(M) /\ Len(Fields(response)) \in Nat
  BY <1>4, MsgIs, LenProperties
<1>6. PICK q \in Nat : q = 4 * x
  BY <1>4
<1>7. Follows(q)
  BY <1>3, <1>6
<1>8. /\ k \in Nat /\ 0 < k /\ q + k <= Len(M)
      /\ alive' = alive /\ ~Lost
      /\ Len(stream') = Len(M) - (q + k)
      /\ \A i \in 1..Len(stream') : stream'[i] = M[q + k + i]
      /\ \A i \in 1..k : stream[i] = M[q + i]
      /\ \A i \in 1..k : data'[i] = M[q + i]
  BY <1>1, <1>7, SegmentRead
<1>. HIDE DEF M, l
<1>9. head = l - q
  BY <1>3, <1>6, <1>8
<1>10. CutAt(k) /\ head' = IF k >= head THEN 0 ELSE head - k
  BY <1>1 DEF Receive
<1>11. CanRead(response)
  BY <1>4
<1>12. q + k >= l \/ \E j \in Nat : q + k = 4 * j
  <2>1. CASE k >= head
    BY <1>5, <1>8, <1>9, <2>1
  <2>2. CASE ~(k >= head)
    <3>1. stream[k] = LF
      BY <1>10, <1>11, <2>2 DEF CutAt, CanRead
    <3>2. M[q + k] = LF
      BY <1>8, <3>1
    <3>3. q + k \in 1..l
      BY <1>4, <1>5, <1>8, <1>9, <2>2
    <3>4. PICK e \in 1..l : e = q + k
      BY <3>3
    <3>5. Msg(response)[e] = LF /\ e \in 1..HeaderLen(response)
      BY <3>2, <3>4 DEF M, l
    <3>6. e >= HeaderLen(response) \/ \E j \in Nat : e = 4 * j
      BY <1>4, <3>5, EndsOfLines
    <3>. QED BY <3>4, <3>6 DEF l
  <2>. QED BY <2>1, <2>2
<1>13. response.framing = "chunked" => q + k >= l
  <2>1. response.framing = "chunked" => k >= head
    BY <1>10, <1>11 DEF CutAt, CanRead
  <2>. QED BY <1>4, <1>5, <1>8, <1>9, <2>1
<1>14. head' = IF q + k >= l THEN 0 ELSE l - (q + k)
  <2>1. k >= head <=> q + k >= l
    BY <1>4, <1>5, <1>8, <1>9
  <2>2. head - k = l - (q + k)
    BY <1>4, <1>5, <1>8, <1>9
  <2>. QED BY <1>10, <2>1, <2>2
<1>15. ~is_chunked
  <2>1. CASE response.framing = "chunked"
    BY <1>3, <2>1 DEF Parsed, Has
  <2>2. CASE response.framing # "chunked"
    <3>1. x \in 0..Len(Fields(response))
      BY <1>4, <1>5
    <3>. QED BY <1>3, <1>4, <2>2, <3>1, HasTells DEF Parsed
  <2>. QED BY <2>1, <2>2
<1>16. SegmentEnd' = q + k
  <2>1. SegmentEnd' = 4 * x - 0 + k
    BY <1>1, <1>2 DEF SegmentEnd
  <2>. QED BY <1>4, <1>6, <1>8, <2>1
<1>17. Parsed(x)'
  BY <1>2, <1>3 DEF Parsed, Has
<1>18. InBuffer(4 * x)'
  <2>1. q - 0 = q /\ q + k \in Nat
    BY <1>8
  <2>2. \A i \in 0 + 1..k : data'[i] = M[q + i]
    BY <1>8
  <2>3. (4 * x)' - current_pos' = q
    BY <1>2, <1>6, <2>1
  <2>4. Follows((4 * x - current_pos) + size)'
    <3>1. PICK e \in Nat : e = q + k
      BY <2>1
    <3>2. ((4 * x)' - current_pos') + size' = e
      BY <1>1, <2>3, <3>1
    <3>3. Len(stream') = Len(M) - e /\ e <= Len(M)
          /\ \A i \in 1..Len(stream') : stream'[i] = M[e + i]
      BY <1>8, <3>1
    <3>. QED BY <1>2, <3>2, <3>3 DEF Follows, M
  <2>5. current_pos' = 0 /\ size' = k /\ 0 <= k /\ response' = response
    BY <1>1, <1>2, <1>8
  <2>. QED BY <2>2, <2>3, <2>4, <2>5 DEF InBuffer, M
<1>19. InHeaders'
  <2>1. current_pos' < size'
    BY <1>1, <1>2, <1>8
  <2>2. chunked_data_available' <=> is_chunked'
    BY <1>2, <1>15
  <2>3. /\ SegmentEnd' >= HeaderLen(response') \/ \E j \in Nat : SegmentEnd' = 4 * j
        /\ response'.framing = "chunked" => SegmentEnd' >= HeaderLen(response')
        /\ head' = IF SegmentEnd' >= HeaderLen(response') THEN 0
                   ELSE HeaderLen(response') - SegmentEnd'
    BY <1>2, <1>12, <1>13, <1>14, <1>16 DEF l
  <2>. QED BY <1>2, <1>17, <1>18, <2>1, <2>2, <2>3 DEF InHeaders
<1>. QED BY <1>2, <1>19, HeadersOnly

\* A header line tells what it says, and the next one follows.
LEMMA HeaderLineRead ==
  ASSUME TypeInv, Reading, HeaderLine
  PROVE  Reading'
<1>. DEFINE l == HeaderLen(response)
<1>1. InHeaders /\ pc = "line" /\ Kept # {}
  BY DEF Reading, HeaderLine
<1>2. /\ x < Len(Fields(response)) /\ LineEnd = current_pos + 4 /\ LineEnd <= size
  BY <1>1, NameIs
<1>3. /\ Parsed(x) /\ InBuffer(4 * x) /\ chunk_size = 0
      /\ SegmentEnd >= l \/ \E j \in Nat : SegmentEnd = 4 * j
      /\ response.framing = "chunked" => SegmentEnd >= l
      /\ Lost \/ head = IF SegmentEnd >= l THEN 0 ELSE l - SegmentEnd
      /\ chunked_data_available <=> is_chunked
  BY <1>1 DEF InHeaders
<1>4. /\ x \in Nat /\ current_pos \in Nat /\ size \in Nat /\ Len(Fields(response)) \in Nat
      /\ l = 4 * Len(Fields(response)) + 2
  BY Lengths, MsgIs DEF TypeInv, TypeOK, HeaderLen
<1>5. /\ x' = x + 1 /\ current_pos' = LineEnd
      /\ UNCHANGED <<response, stream, head, alive, data, size, chunk_size>>
      /\ pc' = IF LineEnd < size THEN "line" ELSE "headers"
      /\ chunked_data_available' <=> chunked_data_available \/ IsLine("transfer-encoding")
      /\ is_chunked' <=> is_chunked \/ IsLine("transfer-encoding")
  BY DEF HeaderLine, call, network
<1>. HIDE DEF l
<1>6. Parsed(x)'
  BY <1>1, LineParsed
<1>7. PICK begin \in Nat : begin = 4 * x - current_pos
  BY <1>3 DEF InBuffer
<1>8. /\ \A i \in current_pos + 1..size : data[i] = Msg(response)[begin + i]
      /\ Follows(begin + size) /\ SegmentEnd = begin + size
  BY <1>3, <1>7 DEF InBuffer, SegmentEnd
<1>9. 4 * x' - current_pos' = begin
  BY <1>2, <1>4, <1>5, <1>7
<1>10. SegmentEnd' = begin + size
  BY <1>5, <1>9 DEF SegmentEnd
<1>11. chunked_data_available' <=> is_chunked'
  BY <1>3, <1>5
<1>12. CASE LineEnd < size
  <2>1. current_pos' < size' /\ current_pos' <= size'
    BY <1>2, <1>4, <1>5, <1>12
  <2>2. \A i \in current_pos' + 1..size' : data'[i] = Msg(response')[begin + i]
    <3>1. \A i \in current_pos' + 1..size' : i \in current_pos + 1..size
      BY <1>2, <1>4, <1>5
    <3>. QED BY <1>5, <1>8, <3>1
  <2>3. Follows((4 * x - current_pos) + size)'
    BY <1>5, <1>8, <1>9 DEF Follows, Lost
  <2>4. InBuffer(4 * x)'
    BY <1>9, <2>1, <2>2, <2>3 DEF InBuffer
  <2>5. /\ SegmentEnd' >= HeaderLen(response') \/ \E j \in Nat : SegmentEnd' = 4 * j
        /\ response'.framing = "chunked" => SegmentEnd' >= HeaderLen(response')
        /\ Lost' \/ head' = IF SegmentEnd' >= HeaderLen(response') THEN 0
                   ELSE HeaderLen(response') - SegmentEnd'
    BY <1>3, <1>5, <1>8, <1>10 DEF l, Lost
  <2>6. InHeaders'
    BY <1>3, <1>5, <1>6, <1>11, <1>12, <2>1, <2>4, <2>5 DEF InHeaders
  <2>. QED BY <1>5, <1>12, <2>6, HeadersOnly
<1>13. CASE ~(LineEnd < size)
  <2>1. size = LineEnd
    BY <1>2, <1>4, <1>13
  <2>2. begin + size = 4 * x' /\ 4 * x' < l
    BY <1>2, <1>4, <1>5, <1>7, <2>1
  <2>3. Follows(4 * x)'
    BY <1>5, <1>8, <2>2 DEF Follows, Lost
  <2>4. ~(SegmentEnd >= l) /\ SegmentEnd = 4 * x'
    BY <1>4, <1>5, <1>8, <2>2
  <2>5. Lost' \/ head' = HeaderLen(response') - 4 * x'
    BY <1>3, <1>5, <2>4 DEF l, Lost
  <2>6. response'.framing # "chunked"
    BY <1>3, <1>5, <2>4
  <2>7. InHeaders'
    BY <1>5, <1>6, <1>13, <2>3, <2>5, <2>6 DEF InHeaders
  <2>. QED BY <1>5, <1>13, <2>7, HeadersOnly
<1>. QED BY <1>12, <1>13

\* At the empty line everything has been told.
LEMMA FramedNow ==
  ASSUME TypeInv, Reading, EmptyLine
  PROVE  /\ Framed /\ chunked_data_available = is_chunked
         /\ x = Len(Fields(response)) /\ LineEnd = current_pos + 2 /\ LineEnd <= size
         /\ response.status = 200 \/ is_redirect
         /\ response.close => ~trykeepalive
<1>1. InHeaders /\ pc = "line" /\ Kept = {}
  BY DEF Reading, EmptyLine
<1>2. /\ response \in Responses /\ is_redirect \in BOOLEAN /\ is_chunked \in BOOLEAN
      /\ chunked_data_available \in BOOLEAN /\ current_pos \in Nat
  BY Lengths DEF TypeInv, TypeOK
<1>3. Parsed(x) /\ (chunked_data_available <=> is_chunked)
  BY <1>1 DEF InHeaders
<1>4. Len(Fields(response)) \in Nat \ {0} /\ x \in Nat /\ x <= Len(Fields(response))
  BY <1>2, <1>3, MsgIs DEF Parsed
<1>5. ~(x < Len(Fields(response)))
  <2>1. SUFFICES ASSUME x < Len(Fields(response)) PROVE FALSE
    OBVIOUS
  <2>2. Kept = {current_pos + 1, current_pos + 2}
    BY <1>1, <2>1, LineIs
  <2>. QED BY <1>1, <2>2
<1>6. x = Len(Fields(response)) /\ LineEnd = current_pos + 2 /\ LineEnd <= size
  BY <1>1, <1>4, <1>5, LineIs
<1>7. x \in 0..Len(Fields(response)) /\ x > 0
  BY <1>4, <1>6
<1>8. /\ IsRedirect(response.status) <=> Has(x, "location")
      /\ response.framing = "length" <=> Has(x, "content-length")
      /\ response.framing = "chunked" <=> Has(x, "transfer-encoding")
      /\ response.close => Has(x, "connection")
  BY <1>2, <1>6, <1>7, HasTells
<1>9. /\ response.status = 200 \/ IsRedirect(response.status)
      /\ is_redirect <=> IsRedirect(response.status)
      /\ is_chunked <=> response.framing = "chunked"
      /\ content_length = IF response.framing = "length" THEN Len(Body(response)) ELSE 0
      /\ is_redirect => location = response.location
      /\ response.close => ~trykeepalive
  BY <1>3, <1>7, <1>8 DEF Parsed
<1>10. IsRedirect(response.status) \in BOOLEAN
  BY DEF IsRedirect
<1>11. is_redirect = IsRedirect(response.status)
  BY <1>2, <1>9, <1>10
<1>12. is_chunked = (response.framing = "chunked")
  BY <1>2, <1>9
<1>13. chunked_data_available = is_chunked
  BY <1>2, <1>3
<1>14. Framed
  BY <1>9, <1>11, <1>12 DEF Framed
<1>. QED BY <1>6, <1>9, <1>13, <1>14

-----------------------------------------------------------------------------
(* Steps in the body                                                       *)

\* Behind the empty line follows the body.
LEMMA EmptyLineRead ==
  ASSUME TypeInv, Reading, EmptyLine
  PROVE  Reading'
<1>. DEFINE l == HeaderLen(response)
<1>1. InHeaders /\ pc = "line"
  BY DEF Reading, EmptyLine
<1>2. /\ Framed /\ (chunked_data_available <=> is_chunked)
      /\ x = Len(Fields(response)) /\ LineEnd = current_pos + 2 /\ LineEnd <= size
      /\ response.status = 200 \/ is_redirect
      /\ response.close => ~trykeepalive
  BY FramedNow
<1>3. /\ current_pos' = LineEnd /\ data_fetched' = 0 /\ n' = 0 /\ out' = <<>>
      /\ pc' = AfterHeaders
      /\ UNCHANGED <<response, dest, stream, alive, data, size, chunk_size, content_length,
                     is_chunked, is_redirect, location, trykeepalive, chunked_data_available>>
  BY DEF EmptyLine, call, network, headers_info
<1>4. InBuffer(4 * x) /\ chunk_size = 0
  BY <1>1 DEF InHeaders
<1>5. /\ x \in Nat /\ current_pos \in Nat /\ size \in Nat /\ Len(Fields(response)) \in Nat
      /\ l = 4 * Len(Fields(response)) + 2 /\ l \in Nat
  BY Lengths, MsgIs DEF TypeInv, TypeOK, HeaderLen
<1>6. PICK begin \in Nat : begin = 4 * x - current_pos
  BY <1>4 DEF InBuffer
<1>7. /\ \A i \in current_pos + 1..size : data[i] = Msg(response)[begin + i]
      /\ Follows(begin + size)
  BY <1>4, <1>6 DEF InBuffer
<1>. HIDE DEF l
<1>8. l - current_pos' = begin /\ current_pos' <= size'
  BY <1>2, <1>3, <1>5, <1>6
<1>9. \A i \in current_pos' + 1..size' : data'[i] = Msg(response')[begin + i]
  <2>1. \A i \in current_pos' + 1..size' : i \in current_pos + 1..size
    BY <1>2, <1>3, <1>5
  <2>. QED BY <1>3, <1>7, <2>1
<1>10. Follows((l - current_pos) + size)'
  <2>1. (l' - current_pos') + size' = begin + size
    BY <1>3, <1>8 DEF l
  <2>. QED BY <1>3, <1>7, <2>1 DEF Follows, Lost
<1>11. InBuffer(l)'
  BY <1>3, <1>8, <1>9, <1>10 DEF InBuffer, l
<1>12. InBuffer(l + data_fetched)'
  <2>1. l' + data_fetched' = l' /\ l' = l
    BY <1>3, <1>5 DEF l
  <2>. QED BY <1>11, <2>1 DEF InBuffer
<1>13. Holds(0)' /\ Holds(data_fetched)'
  <2>1. Len(Body(response)) \in Nat
    BY ResponsesAssumption, LenProperties DEF TypeInv, TypeOK
  <2>2. Len(<<>>) = 0
    OBVIOUS
  <2>. QED BY <1>3, <2>1, <2>2 DEF Holds
<1>14. Framed'
  BY <1>2, <1>3 DEF Framed
<1>15. \/ pc' = "redirect"
       \/ pc' = "rest" /\ dest = "file" /\ ~is_chunked /\ ~is_redirect
       \/ pc' = "byte" /\ ~is_redirect
  BY <1>3 DEF AfterHeaders
<1>16. CASE pc' = "redirect"
  BY <1>16 DEF Reading, InHeaders, InLength, InChunk
<1>17. CASE pc' = "rest" /\ dest = "file" /\ ~is_chunked /\ ~is_redirect
  BY <1>2, <1>3, <1>11, <1>14, <1>17 DEF Reading, InHeaders, InLength, InChunk, l
<1>18. CASE pc' = "byte" /\ ~is_redirect
  BY <1>2, <1>3, <1>4, <1>12, <1>13, <1>14, <1>18 DEF Reading, InHeaders, InLength, InChunk, l
<1>. QED BY <1>15, <1>16, <1>17, <1>18

\* A byte that is taken is the next one.
LEMMA TakeRead ==
  ASSUME TypeInv, InBuffer(HeaderLen(response) + data_fetched), Take,
         UNCHANGED <<response, data, size, stream, alive>>
  PROVE  /\ InBuffer(HeaderLen(response) + data_fetched)'
         /\ data_fetched + 1 <= Len(Payload(response))
         /\ Next_byte = Payload(response)[data_fetched + 1]
<1>. DEFINE p == HeaderLen(response) + data_fetched
<1>1. /\ current_pos \in Nat /\ size \in Nat /\ current_pos < size /\ data_fetched \in Nat
      /\ current_pos' = current_pos + 1 /\ data_fetched' = data_fetched + 1
  BY Lengths DEF Take, TypeInv, TypeOK
<1>2. /\ HeaderLen(response) \in Nat /\ Len(Payload(response)) \in Nat
      /\ Len(Msg(response)) = HeaderLen(response) + Len(Payload(response))
      /\ \A i \in 1..Len(Payload(response)) :
           Msg(response)[HeaderLen(response) + i] = Payload(response)[i]
  BY MsgIs DEF TypeInv, TypeOK
<1>3. p \in Nat
  BY <1>1, <1>2
<1>4. PICK begin \in Nat : begin = p - current_pos
  BY DEF InBuffer
<1>5. /\ \A i \in current_pos + 1..size : data[i] = Msg(response)[begin + i]
      /\ Follows(begin + size)
  BY <1>4 DEF InBuffer
<1>6. p' = p + 1 /\ p' - current_pos' = begin /\ current_pos' <= size'
  <2>1. HeaderLen(response)' = HeaderLen(response)
    OBVIOUS
  <2>2. p' = p + 1
    BY <1>1, <1>2, <2>1
  <2>. HIDE DEF p
  <2>. QED BY <1>1, <1>3, <1>4, <2>2
<1>7. begin + size <= Len(Msg(response))
  BY <1>5 DEF Follows
<1>8. data_fetched + 1 \in 1..Len(Payload(response))
  BY <1>1, <1>2, <1>4, <1>7, SMTT(20)
<1>9. Next_byte = Payload(response)[data_fetched + 1]
  <2>1. PICK i \in Nat : i = current_pos + 1
    BY <1>1
  <2>2. i \in current_pos + 1..size
    BY <1>1, <2>1
  <2>3. PICK j \in Nat : j = data_fetched + 1
    BY <1>1
  <2>4. begin + i = HeaderLen(response) + j
    <3>1. PICK l \in Nat : l = HeaderLen(response)
      BY <1>2
    <3>2. begin = (l + data_fetched) - current_pos
      BY <1>4, <3>1
    <3>. QED BY <1>1, <2>1, <2>3, <3>1, <3>2
  <2>5. data[i] = Msg(response)[begin + i]
    BY <1>5, <2>2
  <2>6. Msg(response)[HeaderLen(response) + j] = Payload(response)[j]
    BY <1>2, <1>8, <2>3
  <2>. QED BY <2>1, <2>3, <2>4, <2>5, <2>6 DEF Next_byte
<1>10. InBuffer(p)'
  <2>1. \A i \in current_pos' + 1..size' : data'[i] = Msg(response')[begin + i]
    <3>1. \A i \in current_pos' + 1..size' : i \in current_pos + 1..size
      BY <1>1
    <3>. QED BY <1>5, <3>1
  <2>2. Follows((p - current_pos) + size)'
    <3>1. (p' - current_pos') + size' = begin + size
      BY <1>6
    <3>. HIDE DEF p
    <3>. QED BY <1>5, <3>1 DEF Follows, Lost
  <2>. HIDE DEF p
  <2>. QED BY <1>6, <2>1, <2>2 DEF InBuffer
<1>. QED BY <1>8, <1>9, <1>10

\* When the buffer is used up, what follows is what is received next.
LEMMA RefillRead ==
  ASSUME TypeInv, InBuffer(HeaderLen(response) + data_fetched), Refill
  PROVE  InBuffer(HeaderLen(response) + data_fetched)'
<1>. DEFINE p == HeaderLen(response) + data_fetched
<1>1. PICK k \in 1..BufferSize : Receive(k) /\ size' = k
  BY DEF Refill
<1>2. /\ current_pos >= size /\ current_pos' = 0 /\ UNCHANGED <<response, data_fetched>>
  BY DEF Refill, UsedUp, call, chunks
<1>3. current_pos \in Nat /\ size \in Nat /\ data_fetched \in Nat /\ HeaderLen(response) \in Nat
  BY Lengths, MsgIs DEF TypeInv, TypeOK
<1>4. p \in Nat /\ p' = p
  BY <1>2, <1>3
<1>5. PICK q \in Nat : q = p
  BY <1>4
<1>6. Follows((p - current_pos) + size) /\ current_pos <= size
  BY DEF InBuffer
<1>7. (p - current_pos) + size = q
  BY <1>2, <1>3, <1>4, <1>5, <1>6
<1>8. Follows(q)
  BY <1>6, <1>7
<1>9. /\ k \in Nat /\ 0 < k /\ q + k <= Len(Msg(response))
      /\ alive' = alive /\ ~Lost
      /\ Len(stream') = Len(Msg(response)) - (q + k)
      /\ \A i \in 1..Len(stream') : stream'[i] = Msg(response)[q + k + i]
      /\ \A i \in 1..k : data'[i] = Msg(response)[q + i]
  BY <1>1, <1>8, SegmentRead
<1>10. p' - current_pos' = q
  BY <1>2, <1>4, <1>5
<1>. HIDE DEF p
<1>11. Follows((p - current_pos) + size)'
  <2>1. PICK e \in Nat : e = q + k
    BY <1>9
  <2>2. (p' - current_pos') + size' = e
    BY <1>1, <1>10, <2>1
  <2>3. Len(stream') = Len(Msg(response)) - e /\ e <= Len(Msg(response))
        /\ \A i \in 1..Len(stream') : stream'[i] = Msg(response)[e + i]
    BY <1>9, <2>1
  <2>. QED BY <1>2, <2>2, <2>3 DEF Follows
<1>12. \A i \in 0 + 1..k : data'[i] = Msg(response)[q + i]
  BY <1>9
<1>13. InBuffer(p)'
  BY <1>1, <1>2, <1>9, <1>10, <1>11, <1>12 DEF InBuffer
<1>. QED BY <1>13 DEF p

\* How the body is framed, once the headers have told.
LEMMA BodyKnown ==
  ASSUME \A r \in Responses : CanRead(r), TypeInv, Framed, response.status = 200
  PROVE  /\ Body(response) \in Seq(AnyByte) /\ Len(Body(response)) \in Nat
         /\ ~is_chunked => /\ Payload(response) = Body(response)
                           /\ content_length = Len(Body(response))
         /\ is_chunked => /\ response.close
                          /\ Payload(response) = IF Body(response) = <<>> THEN Chunk(<<>>)
                               ELSE Chunk(Body(response)) \o Chunk(<<>>)
         /\ dest = "VAR" => /\ Len(Body(response)) < MaxData
                            /\ \A i \in 1..Len(Body(response)) : Body(response)[i] # NUL
<1>1. response \in Responses /\ dest \in Dests /\ is_chunked \in BOOLEAN
  BY DEF TypeInv, TypeOK
<1>2. CanRead(response)
  BY <1>1
<1>3. Body(response) \in Seq(AnyByte) /\ Len(Body(response)) \in Nat
  BY <1>1, ResponsesAssumption, LenProperties
<1>4. is_chunked <=> response.framing = "chunked"
  BY <1>1 DEF Framed
<1>5. content_length = IF response.framing = "length" THEN Len(Body(response)) ELSE 0
  BY DEF Framed
<1>. QED BY <1>1, <1>2, <1>3, <1>4, <1>5 DEF CanRead, Payload

\* What is in the buffer is the next piece of the payload.
LEMMA BufferIs ==
  ASSUME TypeInv, NEW d \in Nat, InBuffer(HeaderLen(response) + d)
  PROVE  /\ current_pos <= size
         /\ d + (size - current_pos) <= Len(Payload(response))
         /\ \A i \in 1..size - current_pos : data[current_pos + i] = Payload(response)[d + i]
         /\ Follows(HeaderLen(response) + d + (size - current_pos))
<1>1. /\ HeaderLen(response) \in Nat /\ Len(Payload(response)) \in Nat
      /\ Len(Msg(response)) = HeaderLen(response) + Len(Payload(response))
      /\ \A i \in 1..Len(Payload(response)) :
           Msg(response)[HeaderLen(response) + i] = Payload(response)[i]
  BY MsgIs DEF TypeInv, TypeOK
<1>2. PICK l \in Nat : l = HeaderLen(response)
  BY <1>1
<1>3. current_pos \in Nat /\ size \in Nat
  BY Lengths
<1>4. PICK begin \in Nat : begin = (l + d) - current_pos
  BY <1>2 DEF InBuffer
<1>5. /\ current_pos <= size
      /\ \A i \in current_pos + 1..size : data[i] = Msg(response)[begin + i]
      /\ Follows(begin + size)
  BY <1>2, <1>4 DEF InBuffer
<1>6. begin + size <= Len(Msg(response))
  BY <1>5 DEF Follows
<1>7. begin + size = l + d + (size - current_pos)
  BY <1>3, <1>4
<1>8. d + (size - current_pos) <= Len(Payload(response))
  BY <1>1, <1>2, <1>3, <1>5, <1>6, <1>7
<1>9. ASSUME NEW i \in 1..size - current_pos
      PROVE  data[current_pos + i] = Payload(response)[d + i]
  <2>1. PICK j \in Nat : j = current_pos + i
    BY <1>3
  <2>2. PICK m \in Nat : m = d + i
    OBVIOUS
  <2>3. j \in current_pos + 1..size /\ begin + j = l + m /\ m \in 1..Len(Payload(response))
    BY <1>1, <1>3, <1>4, <1>5, <1>8, <2>1, <2>2
  <2>4. data[j] = Msg(response)[l + m]
    BY <1>5, <2>3
  <2>5. Msg(response)[l + m] = Payload(response)[m]
    BY <1>1, <1>2, <2>3
  <2>. QED BY <2>1, <2>2, <2>4, <2>5
<1>. QED BY <1>2, <1>5, <1>7, <1>8, <1>9

\* When all of the message is in sight, nothing is to come.
LEMMA NothingLeft ==
  ASSUME TypeInv, Follows(HeaderLen(response) + Len(Payload(response)))
  PROVE  stream = <<>>
<1>1. /\ HeaderLen(response) \in Nat /\ Len(Payload(response)) \in Nat
      /\ Len(Msg(response)) = HeaderLen(response) + Len(Payload(response))
  BY MsgIs DEF TypeInv, TypeOK
<1>2. stream \in Seq(AnyByte)
  BY DEF TypeInv
<1>3. Lost \/ Len(stream) = 0
  BY <1>1 DEF Follows
<1>. QED BY <1>2, <1>3, EmptySeq DEF Lost

\* What came with the headers is the beginning of the body.
LEMMA WriteRestRead ==
  ASSUME \A r \in Responses : CanRead(r), TypeInv, Reading, WriteRest
  PROVE  Reading'
<1>1. /\ ~is_chunked /\ dest = "file" /\ InBuffer(HeaderLen(response))
      /\ Framed /\ response.status = 200
      /\ response.close => ~trykeepalive
  BY DEF WriteRest, Reading, InLength
<1>2. /\ out' = SubSeq(data, current_pos + 1, size) /\ pc' = "copy"
      /\ UNCHANGED <<response, dest, stream, alive, is_chunked, content_length, is_redirect,
                     location, trykeepalive>>
  BY DEF WriteRest, call, network, headers_info
<1>3. Payload(response) = Body(response) /\ Len(Body(response)) \in Nat
  BY <1>1, BodyKnown
<1>4. /\ current_pos \in Nat /\ size \in Nat /\ size <= Len(data) /\ data \in Seq(AnyByte)
      /\ HeaderLen(response) \in Nat
  BY Lengths, MsgIs DEF TypeInv, TypeOK
<1>5. HeaderLen(response) + 0 = HeaderLen(response)
  BY <1>4
<1>6. /\ current_pos <= size
      /\ 0 + (size - current_pos) <= Len(Body(response))
      /\ \A i \in 1..size - current_pos : data[current_pos + i] = Body(response)[0 + i]
      /\ Follows(HeaderLen(response) + 0 + (size - current_pos))
  BY <1>1, <1>3, <1>5, BufferIs
<1>7. PICK m \in Nat : m = size - current_pos
  BY <1>4, <1>6
<1>8. Len(out') = m /\ \A i \in 1..m : out'[i] = data[current_pos + i]
  BY <1>2, <1>4, <1>6, <1>7, PartOf
<1>9. \A i \in 1..m : out'[i] = Body(response)[i]
  BY <1>6, <1>7, <1>8
<1>10. m <= Len(Body(response)) /\ Follows(HeaderLen(response) + m)
  BY <1>4, <1>5, <1>6, <1>7
<1>11. Holds(Len(out))'
  BY <1>1, <1>2, <1>8, <1>9, <1>10 DEF Holds
<1>12. Follows(HeaderLen(response) + Len(out))'
  BY <1>2, <1>8, <1>10 DEF Follows, Lost
<1>13. Framed'
  BY <1>1, <1>2 DEF Framed
<1>. QED BY <1>1, <1>2, <1>11, <1>12, <1>13 DEF Reading, InHeaders, InLength, InChunk

\* The next segment is the next piece of the body.
LEMMA CopyRead ==
  ASSUME \A r \in Responses : CanRead(r), TypeInv, Reading, Copy
  PROVE  Reading'
<1>1. /\ ~is_chunked /\ dest = "file" /\ Holds(Len(out))
      /\ Follows(HeaderLen(response) + Len(out))
      /\ Framed /\ response.status = 200
      /\ response.close => ~trykeepalive
  BY DEF Copy, Reading, InLength
<1>2. PICK k \in 1..BufferSize : Receive(k) /\ out' = out \o SubSeq(stream, 1, k)
  BY DEF Copy
<1>3. /\ pc' = "copy"
      /\ UNCHANGED <<response, dest, is_chunked, content_length, is_redirect, location,
                     trykeepalive>>
  BY DEF Copy, call, headers_info
<1>4. Payload(response) = Body(response) /\ Len(Body(response)) \in Nat
  BY <1>1, BodyKnown
<1>5. /\ HeaderLen(response) \in Nat
      /\ Len(Msg(response)) = HeaderLen(response) + Len(Payload(response))
      /\ \A i \in 1..Len(Payload(response)) :
           Msg(response)[HeaderLen(response) + i] = Payload(response)[i]
  BY MsgIs DEF TypeInv, TypeOK
<1>6. Len(out) \in Nat /\ out \in Seq(AnyByte) /\ stream \in Seq(AnyByte) /\ Len(stream) \in Nat
  BY Lengths DEF TypeInv
<1>7. PICK d \in Nat : d = Len(out)
  BY <1>6
<1>8. PICK q \in Nat : q = HeaderLen(response) + d
  BY <1>5
<1>9. Follows(q)
  BY <1>1, <1>7, <1>8
<1>10. /\ k \in Nat /\ 0 < k /\ q + k <= Len(Msg(response))
       /\ alive' = alive /\ ~Lost
       /\ Len(stream') = Len(Msg(response)) - (q + k)
       /\ \A i \in 1..Len(stream') : stream'[i] = Msg(response)[q + k + i]
       /\ \A i \in 1..k : stream[i] = Msg(response)[q + i]
  BY <1>2, <1>9, SegmentRead
<1>11. k \in 1..Len(stream)
  BY <1>2 DEF Receive
<1>12. /\ SubSeq(stream, 1, k) \in Seq(AnyByte) /\ Len(SubSeq(stream, 1, k)) = k
       /\ \A i \in 1..k : SubSeq(stream, 1, k)[i] = stream[i]
  BY <1>6, <1>11, FirstOf
<1>13. /\ Len(out') = d + k
       /\ \A i \in 1..d + k : out'[i] = IF i <= d THEN out[i] ELSE SubSeq(stream, 1, k)[i - d]
  BY <1>2, <1>6, <1>7, <1>12, ConcatProperties
<1>14. d + k <= Len(Body(response))
  BY <1>4, <1>5, <1>8, <1>10, SMTT(20)
<1>15. ASSUME NEW i \in 1..d + k
       PROVE  out'[i] = Body(response)[i]
  <2>1. CASE i <= d
    <3>1. out'[i] = out[i] /\ i \in 1..d
      BY <1>10, <1>13, <2>1
    <3>. QED BY <1>1, <1>7, <3>1 DEF Holds
  <2>2. CASE ~(i <= d)
    <3>1. PICK j \in Nat : j = i - d
      BY <1>10, <2>2
    <3>2. j \in 1..k /\ q + j = HeaderLen(response) + i /\ i \in 1..Len(Payload(response))
      <4>1. i \in Nat /\ 1 <= i /\ i <= d + k /\ d + j = i
        BY <1>10, <2>2, <3>1
      <4>2. j \in 1..k
        BY <1>10, <2>2, <4>1
      <4>3. q + j = HeaderLen(response) + i
        BY <1>5, <1>8, <4>1
      <4>4. i \in 1..Len(Payload(response))
        BY <1>4, <1>10, <1>14, <4>1
      <4>. QED BY <4>2, <4>3, <4>4
    <3>3. out'[i] = SubSeq(stream, 1, k)[j]
      BY <1>13, <2>2, <3>1
    <3>4. SubSeq(stream, 1, k)[j] = stream[j] /\ stream[j] = Msg(response)[q + j]
      BY <1>10, <1>12, <3>2
    <3>5. Msg(response)[HeaderLen(response) + i] = Payload(response)[i]
      BY <1>5, <3>2
    <3>. QED BY <1>4, <3>2, <3>3, <3>4, <3>5
  <2>. QED BY <2>1, <2>2
<1>16. Holds(Len(out))'
  <2>1. Len(out') \in Nat
    BY <1>10, <1>13
  <2>. QED BY <1>1, <1>3, <1>13, <1>14, <1>15, <2>1 DEF Holds
<1>17. Follows(HeaderLen(response) + Len(out))'
  <2>1. PICK e \in Nat : e = q + k
    BY <1>10
  <2>2. HeaderLen(response)' + Len(out') = e
    BY <1>3, <1>5, <1>8, <1>10, <1>13, <2>1, SMTT(20)
  <2>. QED BY <1>3, <1>10, <2>1, <2>2 DEF Follows
<1>18. Framed'
  BY <1>1, <1>3 DEF Framed
<1>. QED BY <1>1, <1>3, <1>16, <1>17, <1>18 DEF Reading, InHeaders, InLength, InChunk

\* The destination holds the whole body.
LEMMA HoldsAll ==
  ASSUME TypeInv, Holds(Len(Body(response)))
  PROVE  out = Body(response)
<1>1. Body(response) \in Seq(AnyByte) /\ out \in Seq(AnyByte)
  BY ResponsesAssumption DEF TypeInv, TypeOK
<1>. QED BY <1>1, SeqEqual DEF Holds

\* When there is enough, it is the body.
LEMMA EndCopyRead ==
  ASSUME \A r \in Responses : CanRead(r), TypeInv, Reading, EndCopy
  PROVE  Reading'
<1>1. /\ ~is_chunked /\ dest = "file" /\ Holds(Len(out))
      /\ Follows(HeaderLen(response) + Len(out))
      /\ Framed /\ response.status = 200
      /\ response.close => ~trykeepalive
  BY DEF EndCopy, Reading, InLength
<1>2. /\ pc' = "end" /\ Len(out) >= content_length
      /\ UNCHANGED <<response, dest, out, stream, is_chunked, content_length, is_redirect,
                     location, trykeepalive>>
  BY DEF EndCopy, call, network, headers_info
<1>3. /\ Payload(response) = Body(response) /\ Len(Body(response)) \in Nat
      /\ content_length = Len(Body(response))
  BY <1>1, BodyKnown
<1>4. Len(out) = Len(Body(response))
  BY <1>1, <1>2, <1>3 DEF Holds
<1>5. out = Body(response)
  BY <1>1, <1>4, HoldsAll
<1>6. stream = <<>>
  BY <1>1, <1>3, <1>4, NothingLeft
<1>7. WholeBody' /\ Framed'
  BY <1>1, <1>2, <1>5 DEF WholeBody, Received, Framed
<1>. QED BY <1>1, <1>2, <1>6, <1>7 DEF Reading, InHeaders, InLength, InChunk

\* The next byte of the body goes where it belongs.
LEMMA PutRead ==
  ASSUME TypeInv, NEW d \in Nat, Holds(d), d + 1 <= Len(Body(response)),
         dest = "VAR" => Len(Body(response)) < MaxData,
         Put(Body(response)[d + 1]), UNCHANGED <<response, dest>>
  PROVE  Holds(d + 1)'
<1>1. Body(response) \in Seq(AnyByte) /\ out \in Seq(AnyByte) /\ Len(Body(response)) \in Nat
  BY ResponsesAssumption, LenProperties DEF TypeInv, TypeOK
<1>2. PICK e \in Nat : e = d + 1
  OBVIOUS
<1>3. Len(out) = d /\ \A i \in 1..d : out[i] = Body(response)[i]
  BY DEF Holds
<1>4. dest = "VAR" => n = d
  BY DEF Holds
<1>5. MaxData \in Nat
  BY TransferAssumption
<1>6. out' = Append(out, Body(response)[e]) /\ (dest = "VAR" => n' = e)
  <2>1. CASE dest = "VAR"
    <3>1. ~(n < Len(out)) /\ n = d /\ e < MaxData /\ n + 1 = e
      BY <1>1, <1>2, <1>3, <1>4, <1>5, <2>1
    <3>2. n + 1 # MaxData
      BY <1>5, <3>1
    <3>. QED BY <1>2, <2>1, <3>1, <3>2 DEF Put
  <2>2. CASE dest # "VAR"
    BY <1>2, <2>2 DEF Put
  <2>. QED BY <2>1, <2>2
<1>7. e \in 1..Len(Body(response))
  BY <1>1, <1>2
<1>8. Body(response)[e] \in AnyByte
  BY <1>1, <1>7, ElementOfSeq
<1>9. /\ Len(out') = e
      /\ \A i \in 1..d : out'[i] = out[i]
      /\ out'[e] = Body(response)[e]
  BY <1>1, <1>2, <1>3, <1>6, <1>8, AppendProperties
<1>10. ASSUME NEW i \in 1..e
       PROVE  out'[i] = Body(response)[i]
  <2>1. i \in 1..d \/ i = e
    BY <1>2
  <2>. QED BY <1>3, <1>9, <2>1
<1>11. Holds(e)'
  <2>1. UNCHANGED <<response, dest>>
    OBVIOUS
  <2>. QED BY <1>6, <1>7, <1>9, <1>10, <2>1 DEF Holds
<1>. QED BY <1>2, <1>11

\* What is read of a variable is what was put there before the null character.
LEMMA StringIs ==
  ASSUME NEW s \in Seq(AnyByte), \A i \in 1..Len(s) : s[i] # NUL
  PROVE  String(Append(s, NUL)) = s
<1>. DEFINE t == Append(s, NUL)
            E == {i \in 1..Len(t) : t[i] = NUL}
<1>1. NUL \in AnyByte /\ Len(s) \in Nat
  BY LenProperties DEF NUL, Byte, AnyByte
<1>2. /\ t \in Seq(AnyByte) /\ Len(t) = Len(s) + 1
      /\ \A i \in 1..Len(s) : t[i] = s[i]
      /\ t[Len(s) + 1] = NUL
  BY <1>1, AppendProperties
<1>. HIDE DEF t
<1>3. E = {Len(s) + 1}
  <2>1. ASSUME NEW i \in 1..Len(t), t[i] = NUL
        PROVE  i = Len(s) + 1
    <3>1. i \in 1..Len(s) \/ i = Len(s) + 1
      BY <1>1, <1>2
    <3>. QED BY <1>2, <2>1, <3>1
  <2>2. Len(s) + 1 \in 1..Len(t)
    BY <1>1, <1>2
  <2>. QED BY <1>2, <2>1, <2>2
<1>4. E # {} /\ Min(E) = Len(s) + 1
  <2>. HIDE DEF E
  <2>. QED BY <1>1, <1>3 DEF Min
<1>5. SelectInSeq(t, LAMBDA b : b = NUL) = Len(s) + 1
  BY <1>4 DEF SelectInSeq
<1>6. NUL \in ToSet(t)
  <2>1. DOMAIN t = 1..Len(t) /\ Len(s) + 1 \in 1..Len(t)
    BY <1>1, <1>2, LenProperties
  <2>. QED BY <1>2, <2>1 DEF ToSet
<1>7. SubSeq(t, 1, Len(s)) = s
  <2>1. CASE Len(s) = 0
    <3>1. /\ Len(SubSeq(t, 0 + 1, 0)) = 0 /\ SubSeq(t, 0 + 1, 0) \in Seq(AnyByte)
      BY <1>1, <1>2, PartOf
    <3>2. SubSeq(t, 1, Len(s)) = <<>> /\ s = <<>>
      BY <2>1, <3>1, EmptySeq
    <3>. QED BY <3>2
  <2>2. CASE Len(s) # 0
    <3>1. Len(s) \in 1..Len(t)
      BY <1>1, <1>2, <2>2
    <3>2. /\ SubSeq(t, 1, Len(s)) \in Seq(AnyByte) /\ Len(SubSeq(t, 1, Len(s))) = Len(s)
          /\ \A i \in 1..Len(s) : SubSeq(t, 1, Len(s))[i] = t[i]
      BY <1>2, <3>1, FirstOf
    <3>. QED BY <1>2, <3>2, SeqEqual
  <2>. QED BY <2>1, <2>2
<1>8. SelectInSeq(t, LAMBDA b : b = NUL) - 1 = Len(s)
  BY <1>1, <1>5
<1>9. String(t) = s
  BY <1>6, <1>7, <1>8 DEF String
<1>. QED BY <1>9 DEF t

\* The end of the data leaves the destination with the body.
LEMMA NulRead ==
  ASSUME TypeInv, Holds(Len(Body(response))), PutNul, UNCHANGED <<response, dest>>,
         dest = "VAR" => \A i \in 1..Len(Body(response)) : Body(response)[i] # NUL
  PROVE  WholeBody'
<1>1. out = Body(response) /\ out \in Seq(AnyByte)
  BY HoldsAll DEF TypeInv
<1>2. CASE dest = "VAR"
  <2>1. ~(n < Len(out))
    BY <1>2, Lengths DEF Holds
  <2>2. out' = Append(out, NUL)
    BY <1>2, <2>1 DEF PutNul, Put
  <2>3. String(out') = out
    BY <1>1, <1>2, <2>2, StringIs
  <2>. QED BY <1>1, <1>2, <2>3 DEF WholeBody, Received
<1>3. CASE dest # "VAR"
  <2>1. out' = out
    BY <1>3 DEF PutNul
  <2>. QED BY <1>1, <1>3, <2>1 DEF WholeBody, Received
<1>. QED BY <1>2, <1>3

\* Where everything is in a chunk.
LEMMA OneChunk ==
  ASSUME NEW s \in Seq(AnyByte)
  PROVE  /\ Chunk(s) \in Seq(AnyByte) /\ Len(s) \in Nat /\ Len(Chunk(s)) = Len(s) + 5
         /\ Chunk(s)[1] = Size(Len(s)) /\ Chunk(s)[2] = CR /\ Chunk(s)[3] = LF
         /\ \A i \in 1..Len(s) : Chunk(s)[3 + i] = s[i]
         /\ Chunk(s)[Len(s) + 4] = CR /\ Chunk(s)[Len(s) + 5] = LF
<1>. DEFINE f == <<Size(Len(s)), CR, LF>>
            e == <<CR, LF>>
            c == f \o s
<1>1. Len(s) \in Nat
  BY LenProperties
<1>2. Size(Len(s)) \in AnyByte /\ CR \in AnyByte /\ LF \in AnyByte
  BY <1>1 DEF Size, CR, LF, Byte, AnyByte
<1>3. f \in Seq(AnyByte) /\ Len(f) = 3 /\ f[1] = Size(Len(s)) /\ f[2] = CR /\ f[3] = LF
  BY <1>2
<1>4. e \in Seq(AnyByte) /\ Len(e) = 2 /\ e[1] = CR /\ e[2] = LF
  BY <1>2
<1>. HIDE DEF f, e
<1>5. /\ c \in Seq(AnyByte) /\ Len(c) = 3 + Len(s)
      /\ \A i \in 1..3 + Len(s) : c[i] = IF i <= 3 THEN f[i] ELSE s[i - 3]
  <2>1. s \in Seq(AnyByte)
    OBVIOUS
  <2>2. /\ f \o s \in Seq(AnyByte) /\ Len(f \o s) = Len(f) + Len(s)
        /\ \A i \in 1..Len(f) + Len(s) :
             (f \o s)[i] = IF i <= Len(f) THEN f[i] ELSE s[i - Len(f)]
    BY ONLY <1>3, <2>1, ConcatProperties
  <2>3. Len(f) = 3
    BY <1>3
  <2>. QED BY ONLY <2>2, <2>3 DEF c
<1>6. Chunk(s) = c \o e
  BY DEF Chunk, f, e
<1>. HIDE DEF c
<1>7. /\ Chunk(s) \in Seq(AnyByte) /\ Len(Chunk(s)) = 3 + Len(s) + 2
      /\ \A i \in 1..3 + Len(s) + 2 :
           Chunk(s)[i] = IF i <= 3 + Len(s) THEN c[i] ELSE e[i - (3 + Len(s))]
  <2>1. /\ c \o e \in Seq(AnyByte) /\ Len(c \o e) = Len(c) + Len(e)
        /\ \A i \in 1..Len(c) + Len(e) :
             (c \o e)[i] = IF i <= Len(c) THEN c[i] ELSE e[i - Len(c)]
    BY ONLY <1>4, <1>5, ConcatProperties
  <2>2. Len(c) = 3 + Len(s) /\ Len(e) = 2
    BY <1>4, <1>5
  <2>. QED BY ONLY <1>6, <2>1, <2>2
<1>8. \A i \in 1..3 + Len(s) : Chunk(s)[i] = c[i]
  <2>1. \A i \in 1..3 + Len(s) : i \in 1..3 + Len(s) + 2 /\ i <= 3 + Len(s)
    BY <1>1
  <2>. QED BY <1>7, <2>1
<1>9. \A i \in 1..3 : i \in 1..3 + Len(s) /\ i <= 3
  BY <1>1
<1>10. \A i \in 1..3 : Chunk(s)[i] = f[i]
  BY <1>5, <1>8, <1>9
<1>11. ASSUME NEW i \in 1..Len(s)
       PROVE  Chunk(s)[3 + i] = s[i]
  <2>1. PICK j \in Nat : j = 3 + i
    OBVIOUS
  <2>2. j \in 1..3 + Len(s) /\ ~(j <= 3) /\ j - 3 = i
    BY <1>1, <2>1
  <2>3. Chunk(s)[j] = c[j] /\ c[j] = s[j - 3]
    BY <1>5, <1>8, <2>2
  <2>. QED BY <2>1, <2>2, <2>3
<1>12. ASSUME NEW i \in 1..2
       PROVE  Chunk(s)[Len(s) + 3 + i] = e[i]
  <2>1. PICK j \in Nat : j = Len(s) + 3 + i
    BY <1>1
  <2>2. j \in 1..3 + Len(s) + 2 /\ ~(j <= 3 + Len(s)) /\ j - (3 + Len(s)) = i
    BY <1>1, <2>1
  <2>3. Chunk(s)[j] = e[j - (3 + Len(s))]
    BY <1>7, <2>2
  <2>. QED BY <2>1, <2>2, <2>3
<1>13. /\ Len(s) + 3 + 1 = Len(s) + 4 /\ Len(s) + 3 + 2 = Len(s) + 5
       /\ 3 + Len(s) + 2 = Len(s) + 5
  BY <1>1
<1>14. Chunk(s)[Len(s) + 3 + 1] = CR /\ Chunk(s)[Len(s) + 3 + 2] = LF
  <2>1. 1 \in 1..2 /\ 2 \in 1..2
    OBVIOUS
  <2>. QED BY <1>4, <1>12, <2>1
<1>15. Chunk(s)[1] = Size(Len(s)) /\ Chunk(s)[2] = CR /\ Chunk(s)[3] = LF
  <2>1. 1 \in 1..3 /\ 2 \in 1..3 /\ 3 \in 1..3
    OBVIOUS
  <2>. QED BY <1>3, <1>10, <2>1
<1>. QED BY <1>1, <1>7, <1>11, <1>13, <1>14, <1>15

\* The payload of a chunked body is its chunk, if there is one, and the last one.
LEMMA ChunksAre ==
  ASSUME NEW r \in Responses,
         Payload(r) = IF Body(r) = <<>> THEN Chunk(<<>>) ELSE Chunk(Body(r)) \o Chunk(<<>>)
  PROVE  LET l == Len(Body(r))
         IN  /\ l \in Nat
             /\ Payload(r)[1] = Size(l) /\ Payload(r)[2] = CR /\ Payload(r)[3] = LF
             /\ \A i \in 1..l : Payload(r)[3 + i] = Body(r)[i]
             /\ Payload(r)[l + 4] = CR /\ Payload(r)[l + 5] = LF
<1>. DEFINE l == Len(Body(r))
<1>1. Body(r) \in Seq(AnyByte) /\ <<>> \in Seq(AnyByte)
  BY ResponsesAssumption
<1>2. l \in Nat /\ Chunk(Body(r)) \in Seq(AnyByte) /\ Len(Chunk(Body(r))) = l + 5
  BY <1>1, OneChunk
<1>3. \A i \in 1..l + 5 : Payload(r)[i] = Chunk(Body(r))[i]
  <2>1. CASE Body(r) = <<>>
    BY <2>1
  <2>2. CASE Body(r) # <<>>
    <3>. DEFINE f == Chunk(Body(r))
                g == Chunk(<<>>)
    <3>1. f \in Seq(AnyByte) /\ g \in Seq(AnyByte) /\ Len(f) = l + 5
      BY <1>1, <1>2, OneChunk
    <3>2. Payload(r) = f \o g
      BY <2>2
    <3>. HIDE DEF f, g
    <3>3. Len(g) \in Nat /\ \A i \in 1..Len(f) + Len(g) :
            (f \o g)[i] = IF i <= Len(f) THEN f[i] ELSE g[i - Len(f)]
      BY <3>1, ConcatProperties, LenProperties
    <3>4. \A i \in 1..l + 5 : i <= Len(f) /\ i \in 1..Len(f) + Len(g)
      BY <1>2, <3>1, <3>3
    <3>. QED BY <3>2, <3>3, <3>4 DEF f
  <2>. QED BY <2>1, <2>2
<1>4. /\ Chunk(Body(r))[1] = Size(l) /\ Chunk(Body(r))[2] = CR /\ Chunk(Body(r))[3] = LF
      /\ \A i \in 1..l : Chunk(Body(r))[3 + i] = Body(r)[i]
      /\ Chunk(Body(r))[l + 4] = CR /\ Chunk(Body(r))[l + 5] = LF
  BY <1>1, OneChunk
<1>. HIDE DEF l
<1>5. 1 \in 1..l + 5 /\ 2 \in 1..l + 5 /\ 3 \in 1..l + 5
  BY <1>2
<1>6. l + 4 \in 1..l + 5 /\ l + 5 \in 1..l + 5
  BY <1>2
<1>7. \A i \in 1..l : 3 + i \in 1..l + 5
  BY <1>2
<1>8. Payload(r)[1] = Size(l) /\ Payload(r)[2] = CR /\ Payload(r)[3] = LF
  BY <1>3, <1>4, <1>5
<1>9. Payload(r)[l + 4] = CR /\ Payload(r)[l + 5] = LF
  BY <1>3, <1>4, <1>6
<1>10. \A i \in 1..l : Payload(r)[3 + i] = Body(r)[i]
  BY <1>3, <1>4, <1>7
<1>. QED BY <1>2, <1>8, <1>9, <1>10 DEF l

\* In the loops that go byte by byte the buffer holds what follows.
LEMMA ByBytesRead ==
  ASSUME TypeInv, Reading, pc \in {"byte", "size", "skip"}
  PROVE  /\ InBuffer(HeaderLen(response) + data_fetched)
         /\ Framed /\ response.status = 200
         /\ response.close => ~trykeepalive
         /\ pc \in {"size", "skip"} => is_chunked
         /\ is_chunked => chunked_data_available
<1>1. is_chunked \in BOOLEAN
  BY DEF TypeInv, TypeOK
<1>2. CASE pc = "byte" /\ ~is_chunked
  BY <1>2 DEF Reading, InLength
<1>3. CASE pc = "byte" /\ is_chunked
  BY <1>3 DEF Reading, InChunk
<1>4. CASE pc \in {"size", "skip"}
  BY <1>4 DEF Reading, InChunk
<1>. QED BY <1>1, <1>2, <1>3, <1>4

\* A segment that is received between two bytes changes nothing else.
LEMMA RefillBody ==
  ASSUME TypeInv, Reading, Refill
  PROVE  Reading'
<1>1. pc \in {"byte", "size", "skip"}
  BY DEF Refill, UsedUp, AtData
<1>2. /\ InBuffer(HeaderLen(response) + data_fetched)
      /\ Framed /\ response.status = 200
      /\ response.close => ~trykeepalive
      /\ is_chunked => chunked_data_available
  BY <1>1, ByBytesRead
<1>3. UNCHANGED <<pc, dest, response, content_length, is_chunked, is_redirect, location,
                  trykeepalive, chunked_data_available, chunk_size, data_fetched, digits, n, out>>
  BY DEF Refill, call, headers_info, chunks
<1>4. InBuffer(HeaderLen(response) + data_fetched)'
  BY <1>2, RefillRead
<1>5. Framed'
  BY <1>2, <1>3 DEF Framed
<1>6. CASE pc = "byte" /\ ~is_chunked
  <2>1. ~chunked_data_available /\ Holds(data_fetched)
    BY <1>6 DEF Reading, InLength
  <2>2. Holds(data_fetched)'
    BY <1>3, <2>1 DEF Holds
  <2>. QED BY <1>2, <1>3, <1>4, <1>5, <1>6, <2>1, <2>2 DEF Reading, InHeaders, InLength, InChunk
<1>7. CASE pc = "byte" /\ is_chunked
  <2>1. \/ data_fetched = 0 /\ chunk_size = 0 /\ Holds(0)
        \/ /\ data_fetched >= 3 /\ Len(Body(response)) > 0
           /\ chunk_size = Len(Body(response)) - (data_fetched - 3) /\ Holds(data_fetched - 3)
    BY <1>7 DEF Reading, InChunk
  <2>2. (Holds(0) => Holds(0)') /\ (Holds(data_fetched - 3) => Holds(data_fetched - 3)')
    BY <1>3 DEF Holds
  <2>. QED BY <1>2, <1>3, <1>4, <1>5, <1>7, <2>1, <2>2 DEF Reading, InHeaders, InLength, InChunk
<1>8. CASE pc = "size"
  <2>1. /\ is_chunked
        /\ \/ data_fetched = 0 /\ digits = 0 /\ Holds(0)
           \/ data_fetched = 1 /\ digits = Len(Body(response)) /\ Holds(0)
           \/ /\ data_fetched = Len(Body(response)) + 3 /\ Len(Body(response)) > 0 /\ digits = 0
              /\ Holds(Len(Body(response)))
    BY <1>8 DEF Reading, InChunk
  <2>2. (Holds(0) => Holds(0)') /\ (Holds(Len(Body(response))) => Holds(Len(Body(response)))')
    BY <1>3 DEF Holds
  <2>. QED BY <1>2, <1>3, <1>4, <1>5, <1>8, <2>1, <2>2 DEF Reading, InHeaders, InLength, InChunk
<1>9. CASE pc = "skip"
  <2>1. /\ is_chunked
        /\ \/ data_fetched = 2 /\ chunk_size = Len(Body(response)) /\ Holds(0)
           \/ /\ data_fetched = Len(Body(response)) + 4 /\ Len(Body(response)) > 0
              /\ chunk_size = 0 /\ Holds(Len(Body(response)))
    BY <1>9 DEF Reading, InChunk
  <2>2. (Holds(0) => Holds(0)') /\ (Holds(Len(Body(response))) => Holds(Len(Body(response)))')
    BY <1>3 DEF Holds
  <2>. QED BY <1>2, <1>3, <1>4, <1>5, <1>9, <2>1, <2>2 DEF Reading, InHeaders, InLength, InChunk
<1>10. is_chunked \in BOOLEAN
  BY DEF TypeInv, TypeOK
<1>. QED BY <1>1, <1>6, <1>7, <1>8, <1>9, <1>10

\* A byte of the body goes to the destination.
LEMMA GetByteRead ==
  ASSUME \A r \in Responses : CanRead(r), TypeInv, Reading, GetByte
  PROVE  Reading'
<1>1. pc = "byte" /\ (is_chunked => chunk_size > 0) /\ Take /\ Put(Next_byte)
      /\ chunk_size' = (IF is_chunked THEN chunk_size - 1 ELSE chunk_size)
      /\ UNCHANGED <<pc, dest, response, stream, alive, data, size, content_length, is_chunked,
                     is_redirect, location, trykeepalive, chunked_data_available, digits>>
  BY DEF GetByte, AtData, call, network, headers_info
<1>2. /\ InBuffer(HeaderLen(response) + data_fetched)
      /\ Framed /\ response.status = 200
      /\ response.close => ~trykeepalive
      /\ is_chunked => chunked_data_available
  BY <1>1, ByBytesRead
<1>3. /\ InBuffer(HeaderLen(response) + data_fetched)'
      /\ data_fetched + 1 <= Len(Payload(response))
      /\ Next_byte = Payload(response)[data_fetched + 1]
  BY <1>1, <1>2, TakeRead
<1>4. Framed'
  BY <1>1, <1>2 DEF Framed
<1>5. /\ is_chunked \in BOOLEAN /\ data_fetched \in Nat /\ chunk_size \in Nat
      /\ response \in Responses
  BY DEF TypeInv, TypeOK
<1>6. data_fetched' = data_fetched + 1
  BY <1>1 DEF Take
<1>7. /\ Len(Body(response)) \in Nat
      /\ ~is_chunked => Payload(response) = Body(response)
      /\ is_chunked => Payload(response) = IF Body(response) = <<>> THEN Chunk(<<>>)
                         ELSE Chunk(Body(response)) \o Chunk(<<>>)
      /\ dest = "VAR" => Len(Body(response)) < MaxData
  BY <1>2, BodyKnown
<1>8. CASE ~is_chunked
  <2>1. ~chunked_data_available /\ Holds(data_fetched)
    BY <1>1, <1>8 DEF Reading, InLength
  <2>2. PICK d \in Nat : d = data_fetched
    BY <1>5
  <2>3. Put(Body(response)[d + 1]) /\ d + 1 <= Len(Body(response)) /\ Holds(d)
    BY <1>1, <1>3, <1>7, <1>8, <2>1, <2>2
  <2>4. Holds(d + 1)'
    BY <1>1, <1>7, <2>3, PutRead
  <2>5. Holds(data_fetched)'
    BY <1>6, <2>2, <2>4 DEF Holds
  <2>. QED BY <1>1, <1>2, <1>3, <1>4, <1>8, <2>1, <2>5
           DEF Reading, InHeaders, InLength, InChunk
<1>9. CASE is_chunked
  <2>1. /\ data_fetched >= 3 /\ Len(Body(response)) > 0
        /\ chunk_size = Len(Body(response)) - (data_fetched - 3) /\ Holds(data_fetched - 3)
    BY <1>1, <1>9 DEF Reading, InChunk
  <2>2. PICK d \in Nat : d = data_fetched - 3
    BY <1>5, <2>1
  <2>3. PICK e \in Nat : e = d + 1
    OBVIOUS
  <2>4. e \in 1..Len(Body(response)) /\ data_fetched + 1 = 3 + e /\ data_fetched' - 3 = e
        /\ chunk_size' = Len(Body(response)) - e /\ data_fetched' >= 3
    BY <1>1, <1>5, <1>6, <1>7, <1>9, <2>1, <2>2, <2>3
  <2>5. Payload(response)[3 + e] = Body(response)[e]
    BY <1>5, <1>7, <1>9, <2>4, ChunksAre
  <2>6. Put(Body(response)[d + 1]) /\ d + 1 <= Len(Body(response)) /\ Holds(d)
    BY <1>1, <1>3, <2>1, <2>2, <2>3, <2>4, <2>5
  <2>7. Holds(d + 1)'
    BY <1>1, <1>7, <2>6, PutRead
  <2>8. Holds(data_fetched - 3)'
    BY <2>3, <2>4, <2>7 DEF Holds
  <2>9. chunk_size' = Len(Body(response')) - (data_fetched' - 3)
    BY <1>1, <2>4
  <2>. QED BY <1>1, <1>2, <1>3, <1>4, <1>9, <2>1, <2>4, <2>8, <2>9
           DEF Reading, InHeaders, InLength, InChunk
<1>. QED BY <1>5, <1>8, <1>9

\* The data ends when all of it has been fetched.
LEMMA EndOfDataRead ==
  ASSUME \A r \in Responses : CanRead(r), TypeInv, Reading, EndOfData
  PROVE  Reading'
<1>1. /\ pc = "byte" /\ ~MoreData /\ PutNul /\ pc' = "end"
      /\ UNCHANGED <<dest, response, stream, content_length, is_chunked, is_redirect, location,
                     trykeepalive>>
  BY DEF EndOfData, AtData, call, network, headers_info
<1>2. /\ InBuffer(HeaderLen(response) + data_fetched)
      /\ Framed /\ response.status = 200
      /\ response.close => ~trykeepalive
      /\ is_chunked => chunked_data_available
  BY <1>1, ByBytesRead
<1>3. ~is_chunked /\ data_fetched >= content_length /\ data_fetched \in Nat
  BY <1>1, <1>2 DEF MoreData, TypeInv, TypeOK
<1>4. /\ Payload(response) = Body(response) /\ Len(Body(response)) \in Nat
      /\ content_length = Len(Body(response))
      /\ dest = "VAR" => \A i \in 1..Len(Body(response)) : Body(response)[i] # NUL
  BY <1>2, <1>3, BodyKnown
<1>5. Holds(data_fetched)
  BY <1>1, <1>3 DEF Reading, InLength
<1>6. data_fetched = Len(Body(response))
  BY <1>3, <1>4, <1>5 DEF Holds
<1>7. WholeBody'
  BY <1>1, <1>4, <1>5, <1>6, NulRead
<1>8. stream = <<>>
  <2>1. /\ current_pos <= size
        /\ data_fetched + (size - current_pos) <= Len(Payload(response))
        /\ Follows(HeaderLen(response) + data_fetched + (size - current_pos))
    BY <1>2, <1>3, BufferIs
  <2>2. current_pos \in Nat /\ size \in Nat /\ HeaderLen(response) \in Nat
    BY Lengths, MsgIs DEF TypeInv, TypeOK
  <2>3. HeaderLen(response) + data_fetched + (size - current_pos)
          = HeaderLen(response) + Len(Payload(response))
    BY <1>3, <1>4, <1>6, <2>1, <2>2
  <2>. QED BY <2>1, <2>3, NothingLeft
<1>9. Framed'
  BY <1>1, <1>2 DEF Framed
<1>. QED BY <1>1, <1>2, <1>7, <1>8, <1>9 DEF Reading, InHeaders, InLength, InChunk

\* A chunk size is read at the beginning, and when the chunk has been.
LEMMA BeginSizeRead ==
  ASSUME TypeInv, Reading, BeginSize
  PROVE  Reading'
<1>1. /\ pc = "byte" /\ is_chunked /\ chunk_size = 0 /\ digits' = 0 /\ pc' = "size"
      /\ UNCHANGED <<dest, response, stream, alive, data, size, current_pos, content_length,
                     is_chunked, is_redirect, location, trykeepalive, chunked_data_available,
                     data_fetched, n, out>>
  BY DEF BeginSize, call, network, buffer, headers_info
<1>2. /\ InBuffer(HeaderLen(response) + data_fetched)
      /\ Framed /\ response.status = 200
      /\ response.close => ~trykeepalive
      /\ chunked_data_available
  BY <1>1, ByBytesRead
<1>3. InBuffer(HeaderLen(response) + data_fetched)'
  BY <1>1, <1>2 DEF InBuffer, Follows, Lost
<1>4. Framed'
  BY <1>1, <1>2 DEF Framed
<1>5. Len(Body(response)) \in Nat /\ data_fetched \in Nat
  BY ResponsesAssumption, LenProperties DEF TypeInv, TypeOK
<1>6. \/ data_fetched = 0 /\ Holds(0)
      \/ /\ data_fetched = Len(Body(response)) + 3 /\ Len(Body(response)) > 0
         /\ Holds(Len(Body(response)))
  <2>1. CASE data_fetched = 0 /\ Holds(0)
    BY <2>1
  <2>2. CASE /\ data_fetched >= 3 /\ Len(Body(response)) > 0
             /\ chunk_size = Len(Body(response)) - (data_fetched - 3)
             /\ Holds(data_fetched - 3)
    <3>1. data_fetched = Len(Body(response)) + 3 /\ data_fetched - 3 = Len(Body(response))
      BY <1>1, <1>5, <2>2
    <3>. QED BY <2>2, <3>1
  <2>. QED BY <1>1, <2>1, <2>2 DEF Reading, InChunk
<1>7. (Holds(0) => Holds(0)') /\ (Holds(Len(Body(response))) => Holds(Len(Body(response)))')
  BY <1>1 DEF Holds
<1>. QED BY <1>1, <1>2, <1>3, <1>4, <1>6, <1>7 DEF Reading, InHeaders, InLength, InChunk

\* The size that is read is that of the chunk, or of the last one.
LEMMA ReadSizeRead ==
  ASSUME \A r \in Responses : CanRead(r), TypeInv, Reading, ReadSize
  PROVE  Reading'
<1>. DEFINE l == Len(Body(response))
<1>1. /\ pc = "size" /\ Take
      /\ IF Next_byte = CR
         THEN chunk_size' = digits /\ pc' = "skip" /\ UNCHANGED digits
         ELSE /\ digits' = IF Next_byte.kind = "size" THEN Next_byte.value ELSE digits
              /\ UNCHANGED <<pc, chunk_size>>
      /\ UNCHANGED <<dest, response, stream, alive, data, size, content_length, is_chunked,
                     is_redirect, location, trykeepalive, chunked_data_available, n, out>>
  BY DEF ReadSize, call, network, headers_info
<1>2. /\ InBuffer(HeaderLen(response) + data_fetched)
      /\ Framed /\ response.status = 200
      /\ response.close => ~trykeepalive
      /\ is_chunked /\ chunked_data_available
  BY <1>1, ByBytesRead
<1>3. /\ InBuffer(HeaderLen(response) + data_fetched)'
      /\ Next_byte = Payload(response)[data_fetched + 1]
  BY <1>1, <1>2, TakeRead
<1>4. Framed'
  BY <1>1, <1>2 DEF Framed
<1>5. data_fetched' = data_fetched + 1 /\ data_fetched \in Nat /\ response \in Responses
  BY <1>1 DEF Take, TypeInv, TypeOK
<1>6. Payload(response) = IF Body(response) = <<>> THEN Chunk(<<>>)
        ELSE Chunk(Body(response)) \o Chunk(<<>>)
  BY <1>2, BodyKnown
<1>7. /\ l \in Nat
      /\ Payload(response)[1] = Size(l) /\ Payload(response)[2] = CR
      /\ Payload(response)[l + 4] = CR
  BY <1>5, <1>6, ChunksAre
<1>8. (Holds(0) => Holds(0)') /\ (Holds(l) => Holds(l)')
  BY <1>1 DEF Holds
<1>9. l' = l
  BY <1>1
<1>. HIDE DEF l
<1>10. CASE data_fetched = 0 /\ digits = 0 /\ Holds(0)
  <2>1. Next_byte = Size(l) /\ data_fetched' = 1
    BY <1>3, <1>5, <1>7, <1>10
  <2>2. Next_byte # CR /\ digits' = l /\ pc' = "size"
    BY <1>1, <2>1 DEF Size, CR, Byte
  <2>. QED BY <1>1, <1>2, <1>3, <1>4, <1>8, <1>9, <1>10, <2>1, <2>2
           DEF Reading, InHeaders, InLength, InChunk, l
<1>11. CASE data_fetched = 1 /\ digits = l /\ Holds(0)
  <2>1. Next_byte = CR /\ data_fetched' = 2
    BY <1>3, <1>5, <1>7, <1>11
  <2>2. chunk_size' = l /\ pc' = "skip"
    BY <1>1, <1>11, <2>1
  <2>. QED BY <1>1, <1>2, <1>3, <1>4, <1>8, <1>9, <1>11, <2>1, <2>2
           DEF Reading, InHeaders, InLength, InChunk, l
<1>12. CASE data_fetched = l + 3 /\ l > 0 /\ digits = 0 /\ Holds(l)
  <2>1. data_fetched' = l + 4 /\ data_fetched + 1 = l + 4
    BY <1>5, <1>7, <1>12
  <2>2. Next_byte = CR
    BY <1>3, <1>7, <2>1
  <2>3. chunk_size' = 0 /\ pc' = "skip"
    BY <1>1, <1>12, <2>2
  <2>. QED BY <1>1, <1>2, <1>3, <1>4, <1>8, <1>9, <1>12, <2>1, <2>3
           DEF Reading, InHeaders, InLength, InChunk, l
<1>. QED BY <1>1, <1>10, <1>11, <1>12 DEF Reading, InChunk, l

\* Behind the size comes the chunk, or the end.
LEMMA SkipLineRead ==
  ASSUME \A r \in Responses : CanRead(r), TypeInv, Reading, SkipLine
  PROVE  Reading'
<1>. DEFINE l == Len(Body(response))
<1>1. /\ pc = "skip" /\ Take
      /\ IF Next_byte # LF
         THEN UNCHANGED <<pc, chunked_data_available, n, out>>
         ELSE IF chunk_size > 0
         THEN pc' = "byte" /\ UNCHANGED <<chunked_data_available, n, out>>
         ELSE chunked_data_available' = FALSE /\ pc' = "end" /\ PutNul
      /\ UNCHANGED <<dest, response, stream, alive, data, size, content_length, is_chunked,
                     is_redirect, location, trykeepalive, chunk_size, digits>>
  BY DEF SkipLine, call, network, headers_info
<1>2. /\ InBuffer(HeaderLen(response) + data_fetched)
      /\ Framed /\ response.status = 200
      /\ response.close => ~trykeepalive
      /\ is_chunked /\ chunked_data_available
  BY <1>1, ByBytesRead
<1>3. /\ InBuffer(HeaderLen(response) + data_fetched)'
      /\ Next_byte = Payload(response)[data_fetched + 1]
  BY <1>1, <1>2, TakeRead
<1>4. Framed'
  BY <1>1, <1>2 DEF Framed
<1>5. data_fetched' = data_fetched + 1 /\ data_fetched \in Nat /\ response \in Responses
  BY <1>1 DEF Take, TypeInv, TypeOK
<1>6. /\ Payload(response) = IF Body(response) = <<>> THEN Chunk(<<>>)
           ELSE Chunk(Body(response)) \o Chunk(<<>>)
      /\ response.close
      /\ dest = "VAR" => \A i \in 1..Len(Body(response)) : Body(response)[i] # NUL
  BY <1>2, BodyKnown
<1>7. l \in Nat /\ Payload(response)[3] = LF /\ Payload(response)[l + 5] = LF
  BY <1>5, <1>6, ChunksAre
<1>8. /\ \/ data_fetched = 2 /\ chunk_size = l /\ Holds(0)
         \/ data_fetched = l + 4 /\ l > 0 /\ chunk_size = 0 /\ Holds(l)
  BY <1>1 DEF Reading, InChunk
<1>9. Next_byte = LF
  <2>1. data_fetched + 1 = 3 \/ data_fetched + 1 = l + 5
    <3>. HIDE DEF l
    <3>. QED BY <1>5, <1>7, <1>8
  <2>. QED BY <1>3, <1>7, <2>1
<1>10. CASE chunk_size > 0
  <2>1. data_fetched = 2 /\ chunk_size = l /\ Holds(0)
    BY <1>8, <1>10
  <2>2. pc' = "byte" /\ UNCHANGED <<chunked_data_available, n, out, chunk_size>>
    BY <1>1, <1>9, <1>10
  <2>3. data_fetched' = 3 /\ data_fetched' - 3 = 0 /\ chunk_size' = l' - (data_fetched' - 3)
        /\ l' > 0
    <3>1. l' = l
      BY <1>1
    <3>. HIDE DEF l
    <3>. QED BY <1>5, <1>7, <1>10, <2>1, <2>2, <3>1
  <2>4. Holds(0)'
    BY <1>1, <2>1, <2>2 DEF Holds
  <2>5. Holds(data_fetched - 3)'
    BY <2>3, <2>4 DEF Holds
  <2>. QED BY <1>1, <1>2, <1>3, <1>4, <2>2, <2>3, <2>5 DEF Reading, InHeaders, InLength, InChunk
<1>11. CASE ~(chunk_size > 0)
  <2>1. PutNul /\ pc' = "end"
    BY <1>1, <1>9, <1>11
  <2>2. Holds(l)
    <3>1. (l = 0 /\ Holds(0)) \/ Holds(l)
      <4>. HIDE DEF l
      <4>. QED BY <1>7, <1>8, <1>11
    <3>. QED BY <3>1
  <2>3. WholeBody'
    BY <1>1, <1>6, <2>1, <2>2, NulRead
  <2>. QED BY <1>1, <1>2, <1>4, <1>6, <2>1, <2>3 DEF Reading, InHeaders, InLength, InChunk
<1>. QED BY <1>10, <1>11

\* What is lost with the connection is only what was to come.
LEMMA LostRead ==
  ASSUME Reading, stream' = <<>>, alive' = FALSE,
         UNCHANGED <<pc, call, buffer, x, headers_info, trykeepalive, chunks, n, out>>
  PROVE  Reading'
<1>1. /\ stream' = <<>> /\ alive' = FALSE
      /\ UNCHANGED <<pc, dest, response, data, size, current_pos, x, content_length, is_chunked,
                     is_redirect, location, trykeepalive, chunked_data_available, chunk_size,
                     data_fetched, digits, n, out>>
  BY DEF call, buffer, headers_info, chunks
<1>2. Lost'
  BY <1>1 DEF Lost
<1>3. InHeaders'
  <2>1. CASE pc = "headers"
    <3>1. /\ Parsed(x) /\ Follows(4 * x)
          /\ response.framing = "chunked" => x = 0
      BY <2>1 DEF Reading, InHeaders
    <3>2. Parsed(x)' /\ Follows(4 * x)'
      BY <1>1, <1>2, <3>1 DEF Parsed, Has, Follows
    <3>. QED BY <1>1, <1>2, <2>1, <3>1, <3>2 DEF InHeaders
  <2>2. CASE pc = "line"
    <3>1. /\ Parsed(x) /\ InBuffer(4 * x) /\ current_pos < size /\ chunk_size = 0
          /\ SegmentEnd >= HeaderLen(response) \/ \E j \in Nat : SegmentEnd = 4 * j
          /\ response.framing = "chunked" => SegmentEnd >= HeaderLen(response)
          /\ chunked_data_available <=> is_chunked
      BY <2>2 DEF Reading, InHeaders
    <3>2. Parsed(x)' /\ InBuffer(4 * x)'
      BY <1>1, <1>2, <3>1 DEF Parsed, Has, InBuffer, Follows
    <3>3. SegmentEnd' = SegmentEnd
      BY <1>1 DEF SegmentEnd
    <3>. QED BY <1>1, <1>2, <2>2, <3>1, <3>2, <3>3 DEF InHeaders
  <2>. QED BY <1>1, <2>1, <2>2 DEF InHeaders
<1>4. InBuffer(HeaderLen(response) + data_fetched) => InBuffer(HeaderLen(response) + data_fetched)'
  BY <1>1, <1>2 DEF InBuffer, Follows
<1>5. InBuffer(HeaderLen(response)) => InBuffer(HeaderLen(response))'
  BY <1>1, <1>2 DEF InBuffer, Follows
<1>6. Follows(HeaderLen(response) + Len(out)) => Follows(HeaderLen(response) + Len(out))'
  BY <1>1, <1>2 DEF Follows
<1>7. /\ Holds(0) => Holds(0)'
      /\ Holds(Len(out)) => Holds(Len(out))'
      /\ Holds(Len(Body(response))) => Holds(Len(Body(response)))'
      /\ Holds(data_fetched) => Holds(data_fetched)'
      /\ Holds(data_fetched - 3) => Holds(data_fetched - 3)'
  BY <1>1 DEF Holds
<1>8. InLength'
  BY <1>1, <1>4, <1>5, <1>6, <1>7 DEF Reading, InLength
<1>9. InChunk'
  BY <1>1, <1>4, <1>7 DEF Reading, InChunk
<1>10. (Framed => Framed') /\ (WholeBody => WholeBody')
  BY <1>1 DEF Framed, WholeBody, Received
<1>. QED BY <1>1, <1>3, <1>8, <1>9, <1>10 DEF Reading

\* A connection is kept only if nothing of the answer is left on it.
LEMMA FinishRead ==
  ASSUME Reading, Finish
  PROVE  Reading'
<1>1. pc' = "idle" /\ stream' = <<>>
  BY DEF Finish, Reading
<1>. QED BY <1>1 DEF Reading, InHeaders, InLength, InChunk

\* Where hub stops there is nothing to be shown.
LEMMA StopRead ==
  ASSUME pc' \in {"dead", "lost"}
  PROVE  Reading'
BY DEF Reading, InHeaders, InLength, InChunk

\* Nothing changes if nothing does but the peer, once everything has arrived.
LEMMA SameRead ==
  ASSUME Reading, Lost' <=> Lost, UNCHANGED <<stream, head>>,
         UNCHANGED <<pc, call, buffer, x, headers_info, trykeepalive, chunks, n, out>>
  PROVE  Reading'
<1>. USE DEF call, buffer, headers_info, chunks
<1>0. (Parsed(x) => Parsed(x)') /\ SegmentEnd' = SegmentEnd
  BY DEF Parsed, Has, SegmentEnd
<1>1. InHeaders'
  <2>1. (Follows(4 * x) => Follows(4 * x)') /\ (InBuffer(4 * x) => InBuffer(4 * x)')
    BY DEF InBuffer, Follows
  <2>. QED BY <1>0, <2>1 DEF Reading, InHeaders
<1>2. InLength'
  <2>1. (pc = "rest" => ~is_chunked /\ dest = "file" /\ InBuffer(HeaderLen(response)))'
    BY DEF Reading, InLength, InBuffer, Follows
  <2>2. (pc = "copy" => /\ ~is_chunked /\ dest = "file"
                        /\ Holds(Len(out)) /\ Follows(HeaderLen(response) + Len(out)))'
    BY DEF Reading, InLength, Holds, Follows
  <2>3. (pc = "byte" /\ ~is_chunked =>
           /\ ~chunked_data_available
           /\ Holds(data_fetched) /\ InBuffer(HeaderLen(response) + data_fetched))'
    BY DEF Reading, InLength, Holds, InBuffer, Follows
  <2>. QED BY ONLY <2>1, <2>2, <2>3 DEF InLength
<1>3. InChunk'
  BY DEF Reading, InChunk, Holds, InBuffer, Follows
<1>4. (Framed => Framed') /\ (WholeBody => WholeBody')
  BY DEF Framed, WholeBody, Received
<1>. QED BY <1>1, <1>2, <1>3, <1>4 DEF Reading

\* The peer may close the connection, and what was still to come arrive or not.
LEMMA ClosesRead ==
  ASSUME Reading, alive' = FALSE, UNCHANGED <<stream, head>> \/ stream' = <<>>,
         UNCHANGED <<pc, call, buffer, x, headers_info, trykeepalive, chunks, n, out>>
  PROVE  Reading'
<1>1. CASE stream' = <<>>
  BY <1>1, LostRead
<1>2. CASE stream' # <<>>
  BY <1>2, SameRead DEF Lost
<1>. QED BY <1>1, <1>2

\* Nothing is sent before the first request.
LEMMA InitReading == Init => Reading
BY DEF Init, Reading, InHeaders, InLength, InChunk

\* Every step keeps count.
LEMMA NextReading ==
  ASSUME \A r \in Responses : CanRead(r), TypeInv, Reading, [Next]_vars
  PROVE  Reading'
<1>1. CASE Request \/ Redirect
  BY <1>1, RequestRead
<1>2. CASE GetHeaders
  BY <1>2, GetHeadersRead
<1>3. CASE HeaderLine
  BY <1>3, HeaderLineRead
<1>4. CASE EmptyLine
  BY <1>4, EmptyLineRead
<1>5. CASE WriteRest
  BY <1>5, WriteRestRead
<1>6. CASE Copy
  BY <1>6, CopyRead
<1>7. CASE EndCopy
  BY <1>7, EndCopyRead
<1>8. CASE Refill
  BY <1>8, RefillBody
<1>9. CASE GetByte
  BY <1>9, GetByteRead
<1>10. CASE EndOfData
  BY <1>10, EndOfDataRead
<1>11. CASE BeginSize
  BY <1>11, BeginSizeRead
<1>12. CASE ReadSize
  BY <1>12, ReadSizeRead
<1>13. CASE SkipLine
  BY <1>13, SkipLineRead
<1>14. CASE Finish
  BY <1>14, FinishRead
<1>15. CASE Drop
  BY <1>15, LostRead DEF Drop
<1>16. CASE ScanOutside \/ BadStatus \/ SizeOutside \/ Die
  <2>1. pc' \in {"dead", "lost"}
    BY <1>16 DEF ScanOutside, BadStatus, SizeOutside, Die
  <2>. QED BY <2>1, StopRead
<1>17. CASE Terminated \/ UNCHANGED vars
  BY <1>17, SameRead DEF Terminated, vars, network, Lost
<1>. QED BY <1>1, <1>2, <1>3, <1>4, <1>5, <1>6, <1>7, <1>8, <1>9, <1>10, <1>11, <1>12, <1>13,
            <1>14, <1>15, <1>16, <1>17 DEF Next, Step, Headers, ToFile, ByBytes

-----------------------------------------------------------------------------
(* The theorems.  They are about servers that hub can read; the runs       *)
(* HttpTransferAnywhere and HttpTransferTwoChunks show one that it cannot. *)

\* The inductive invariant.
LEMMA AlwaysReading ==
  ASSUME \A r \in Responses : CanRead(r)
  PROVE  Spec => [](TypeInv /\ Reading)
<1>1. Init => TypeInv /\ Reading
  BY InitTyped, InitReading
<1>2. TypeInv /\ Reading /\ [Next]_vars => (TypeInv /\ Reading)'
  BY NextTypes, NextReading
<1>. QED BY <1>1, <1>2, PTL DEF Spec

\* When a transfer ends, the destination holds the body the server sent, for
\* every body, destination, size of the buffer and of the segments, and
\* wherever the connection is lost.
THEOREM AlwaysWholeBody ==
  ASSUME \A r \in Responses : CanRead(r)
  PROVE  Spec => []WholeBody
<1>1. Reading => WholeBody
  BY DEF Reading, WholeBody
<1>. QED BY <1>1, AlwaysReading, PTL

\* A connection that is kept has nothing left of the response before.
THEOREM AlwaysInSync ==
  ASSUME \A r \in Responses : CanRead(r)
  PROVE  Spec => []InSync
<1>1. Reading => InSync
  BY DEF Reading, InSync
<1>. QED BY <1>1, AlwaysReading, PTL

\* At the empty line hub knows how the body is framed, however the headers were
\* cut between their lines.
THEOREM AlwaysFramingKnown ==
  ASSUME \A r \in Responses : CanRead(r)
  PROVE  Spec => FramingKnown
<1>1. TypeInv /\ Reading /\ [Next]_vars
        => [EmptyLine => Framed /\ chunked_data_available = is_chunked]_vars
  BY FramedNow
<1>. QED BY <1>1, AlwaysReading, PTL DEF Spec, FramingKnown
=============================================================================
