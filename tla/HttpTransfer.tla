---------------------------- MODULE HttpTransfer ----------------------------
(***************************************************************************)
(* How the HTTP client of src/hub.c takes an answer from a connection:     *)
(* http_get_headers() reads the header lines, and the loops at the end of  *)
(* http_get_content() move the body to a file, to a variable or to the     *)
(* screen.  TCP delivers the bytes in segments of any length, each call of *)
(* tcp_get() replaces the buffer by the next one, and where a line or a    *)
(* chunk is cut is up to the network.                                      *)
(*                                                                         *)
(* A byte is a record.  The text of a header line is two bytes, enough to  *)
(* be cut in the middle; the text of a chunk size is one.                  *)
(***************************************************************************)
EXTENDS Naturals, SequencesExt

CONSTANTS
  Responses,    \* what the server may answer (see Response below)
  Dests,        \* where bodies go: "file", "VAR" or "CON"
  MaxData,      \* maxdata, the size of the variable
  BufferSize,   \* TCP_BUFFER_SIZE
  Drops,        \* whether the connection may be lost
  KeepAlive,    \* the keepalive argument
  MaxRequests   \* bound of the model: requests on one connection

ASSUME TransferAssumption ==
  /\ BufferSize \in Nat \ {0} /\ MaxData \in Nat \ {0} /\ MaxRequests \in Nat
  /\ Dests \subseteq {"file", "VAR", "CON"}
  /\ KeepAlive \in BOOLEAN /\ Drops \in BOOLEAN

-----------------------------------------------------------------------------
(* What the server sends: a response is a record of its status, its        *)
(* location (a number) if that is a redirect, its framing ("length" for a  *)
(* Content-Length, "chunked", or "close" for neither), its chunks (one if  *)
(* it is not chunked), whether it says "Connection: close", and where      *)
(* segments may cut its headers: "never", "lines" (between lines) or       *)
(* "anywhere".                                                             *)

Byte(kind, value) == [kind |-> kind, part |-> 1, value |-> value]
CR  == Byte("cr", 0)
LF  == Byte("lf", 0)
NUL == Byte("nul", 0)
Size(k) == Byte("size", k)

\* A line is cut, if it is, in the middle of its name.
Text(name, value) == [i \in 1..2 |-> [kind |-> name, part |-> i, value |-> value]]
Line(name, value) == Text(name, value) \o <<CR, LF>>

Body(r) == FlattenSeq(r.chunks)

IsRedirect(status) == status \in 300..399

Header(r) ==
  Line("status", r.status)
  \o (IF IsRedirect(r.status) THEN Line("location", r.location) ELSE <<>>)
  \o (CASE r.framing = "length"  -> Line("content-length", Len(Body(r)))
        [] r.framing = "chunked" -> Line("transfer-encoding", 0)
        [] OTHER                 -> <<>>)
  \o (IF r.close THEN Line("connection", 0) ELSE <<>>)
  \o <<CR, LF>>

Chunk(bytes) == <<Size(Len(bytes)), CR, LF>> \o bytes \o <<CR, LF>>

Payload(r) ==
  IF r.framing = "chunked"
  THEN FlattenSeq([i \in DOMAIN r.chunks |-> Chunk(r.chunks[i])]) \o Chunk(<<>>)
  ELSE Body(r)

\* The server sends bytes.
AnyByte ==
  [kind : {"cr", "lf", "nul", "size", "byte", "status", "location", "content-length",
           "transfer-encoding", "connection"},
   part : 1..2, value : Nat]

ASSUME ResponsesAssumption == \A r \in Responses :
  /\ r.status \in Nat /\ r.location \in Nat
  /\ Body(r) \in Seq(AnyByte) /\ Payload(r) \in Seq(AnyByte)

VARIABLES
  pc,              \* where http_get_content() is
  requests,        \* requests made
  dest,            \* pathfilename of the request
  response,        \* what the server answers it with
  stream,          \* bytes sent by the server and not received
  head,            \* how many of them are headers
  alive,           \* the connection has not been lost
  data,            \* data_buffer->data, as far as it was ever filled
  size,            \* data_buffer->size
  current_pos,     \* data_buffer->current_pos
  x,               \* header lines seen
  content_length, is_chunked, is_redirect, location,   \* headers_info
  trykeepalive,
  chunked_data_available, chunk_size, data_fetched,   \* of data_buffer
  digits,          \* value of the chunk size read so far
  n,               \* index into the variable
  out              \* what the destination holds

network == <<stream, head, alive>>
buffer == <<data, size, current_pos>>
headers_info == <<content_length, is_chunked, is_redirect, location>>
chunks == <<chunked_data_available, chunk_size, data_fetched, digits>>
call == <<requests, dest, response>>
vars == <<pc, call, network, buffer, x, headers_info, trykeepalive, chunks, n, out>>

Init ==
  /\ pc = "idle"
  /\ requests = 0
  /\ dest \in Dests
  /\ response \in Responses
  /\ stream = <<>> /\ head = 0 /\ alive = TRUE
  /\ data = <<>> /\ size = 0 /\ current_pos = 0
  /\ x = 0
  /\ content_length = 0 /\ is_chunked = FALSE /\ is_redirect = FALSE /\ location = 0
  /\ trykeepalive = KeepAlive
  /\ chunked_data_available = FALSE /\ chunk_size = 0 /\ data_fetched = 0 /\ digits = 0
  /\ n = 0 /\ out = <<>>

-----------------------------------------------------------------------------
(* tcp_get(): the next segment                                             *)

\* In the headers the stream is cut as the response says.
CutAt(k) ==
  \/ response.cuts = "anywhere"
  \/ k >= head
  \/ response.cuts = "lines" /\ stream[k] = LF

\* The segment goes over the beginning of what the buffer held before.
Receive(k) ==
  /\ k \in 1..Len(stream) /\ k <= BufferSize
  /\ CutAt(k)
  /\ data' = SubSeq(stream, 1, k) \o SubSeq(data, k + 1, Len(data))
  /\ stream' = SubSeq(stream, k + 1, Len(stream))
  /\ head' = IF k >= head THEN 0 ELSE head - k
  /\ UNCHANGED alive

-----------------------------------------------------------------------------
(* The request and the headers                                             *)

InitHeadersInfo ==
  content_length' = 0 /\ is_chunked' = FALSE /\ is_redirect' = FALSE /\ location' = 0

\* The server sends a response after what is under way.
Answer(r, before) ==
  /\ response' = r
  /\ stream' = before \o Header(r) \o Payload(r)
  /\ head' = Len(before) + Len(Header(r))

\* http_send() has sent a request; what comes back is up to the server.
Request ==
  /\ pc = "idle"
  /\ requests < MaxRequests
  /\ requests' = requests + 1
  /\ dest' \in Dests
  /\ \E r \in Responses : Answer(r, stream)
  /\ alive' = TRUE
  /\ trykeepalive' = KeepAlive
  /\ InitHeadersInfo
  /\ x' = 0
  /\ pc' = "headers"
  /\ UNCHANGED <<buffer, chunks, n, out>>

\* The connection is closed, with what is left of the response that redirects,
\* and a request is sent on a new one.
Redirect ==
  /\ pc = "redirect"
  /\ requests < MaxRequests
  /\ requests' = requests + 1
  /\ \E r \in Responses : Answer(r, <<>>)
  /\ alive' = TRUE
  /\ InitHeadersInfo
  /\ x' = 0
  /\ pc' = "headers"
  /\ UNCHANGED <<dest, buffer, trykeepalive, chunks, n, out>>

GetHeaders ==
  /\ pc = "headers"
  /\ \E k \in 1..BufferSize : Receive(k) /\ size' = k
  /\ current_pos' = 0
  /\ chunk_size' = 0 /\ chunked_data_available' = FALSE
  /\ pc' = "line"
  /\ UNCHANGED <<call, x, headers_info, trykeepalive, data_fetched, digits, n, out>>

\* The ends of lines in the buffer: the scan for one minds what was ever put
\* there, not the size of this segment.
Ends == {e \in current_pos + 1..Len(data) : data[e] = LF}
LineEnd == CHOOSE e \in Ends : \A f \in Ends : e <= f
\* What the line consists of: each CR is ignored.
Kept == {i \in current_pos + 1..LineEnd - 1 : data[i] # CR}
Value == data[CHOOSE i \in Kept : \A j \in Kept : i <= j].value

Named(name) ==
  \E i, j \in Kept : i < j /\ Kept = {i, j} /\ <<data[i], data[j]>> = Text(name, Value)

\* Mutant: the counter of lines is one behind.
IsLine_Late(name) == x > 1 /\ Named(name)

\* The value of a header is looked at in every line but the first.
IsLine(name) == x > 0 /\ Named(name)

\* Nothing ends the line: the scan goes on in whatever memory follows.
ScanOutside ==
  /\ pc = "line"
  /\ Ends = {}
  /\ pc' = "lost"
  /\ UNCHANGED <<call, network, buffer, x, headers_info, trykeepalive, chunks, n, out>>

\* hub dies of a first line that has neither the status 200 nor a redirect.
Good == Named("status") /\ (Value = 200 \/ IsRedirect(Value))

BadStatus ==
  /\ pc = "line"
  /\ Ends # {} /\ Kept # {}
  /\ x = 0 /\ ~Good
  /\ pc' = "dead"
  /\ UNCHANGED <<call, network, buffer, x, headers_info, trykeepalive, chunks, n, out>>

\* One header line; when the segment is used up, the next one is received.
HeaderLine ==
  /\ pc = "line"
  /\ Ends # {} /\ Kept # {}
  /\ x = 0 => Good
  /\ is_redirect' = (is_redirect \/ (x = 0 /\ Value # 200))
  /\ content_length' = IF IsLine("content-length") THEN Value ELSE content_length
  /\ location' = IF IsLine("location") THEN Value ELSE location
  /\ is_chunked' = (is_chunked \/ IsLine("transfer-encoding"))
  /\ chunked_data_available' = (chunked_data_available \/ IsLine("transfer-encoding"))
  /\ trykeepalive' = (trykeepalive /\ ~IsLine("connection"))
  /\ current_pos' = LineEnd
  /\ x' = x + 1
  /\ pc' = IF LineEnd < size THEN "line" ELSE "headers"
  /\ UNCHANGED <<call, network, data, size, chunk_size, data_fetched, digits, n, out>>

\* A redirect is followed.  A body that is not chunked goes to a file another way
\* than the others go.
AfterHeaders ==
  IF is_redirect THEN "redirect"
  ELSE IF dest = "file" /\ ~is_chunked THEN "rest" ELSE "byte"

\* Mutant: what was fetched of the response before is still counted.
EmptyLine_StillFetched ==
  /\ pc = "line" /\ Ends # {} /\ Kept = {}
  /\ current_pos' = LineEnd
  /\ n' = 0
  /\ out' = <<>>
  /\ pc' = AfterHeaders
  /\ UNCHANGED <<call, network, data, size, x, headers_info, trykeepalive,
                 chunked_data_available, chunk_size, data_fetched, digits>>

\* The empty line ends the headers.
EmptyLine ==
  /\ pc = "line"
  /\ Ends # {} /\ Kept = {}
  /\ current_pos' = LineEnd
  /\ data_fetched' = 0
  /\ n' = 0
  /\ out' = <<>>
  /\ pc' = AfterHeaders
  /\ UNCHANGED <<call, network, data, size, x, headers_info, trykeepalive,
                 chunked_data_available, chunk_size, digits>>

-----------------------------------------------------------------------------
(* A body that is not chunked, to a file.  bytes_written is Len(out).      *)

\* Mutant: the right number of bytes, from the beginning of the buffer.
WriteRest_FromStart ==
  /\ pc = "rest"
  /\ out' = SubSeq(data, 1, IF size > current_pos THEN size - current_pos ELSE 0)
  /\ pc' = "copy"
  /\ UNCHANGED <<call, network, buffer, x, headers_info, trykeepalive, chunks, n>>

\* What came in the segment of the last header is written first ...
WriteRest ==
  /\ pc = "rest"
  /\ out' = SubSeq(data, current_pos + 1, size)
  /\ pc' = "copy"
  /\ UNCHANGED <<call, network, buffer, x, headers_info, trykeepalive, chunks, n>>

\* ... and then every segment, until there is enough.
Copy ==
  /\ pc = "copy"
  /\ Len(out) < content_length
  /\ \E k \in 1..BufferSize : Receive(k) /\ out' = out \o SubSeq(stream, 1, k)
  /\ UNCHANGED <<pc, call, size, current_pos, x, headers_info, trykeepalive, chunks, n>>

EndCopy ==
  /\ pc = "copy"
  /\ Len(out) >= content_length
  /\ pc' = "end"
  /\ UNCHANGED <<call, network, buffer, x, headers_info, trykeepalive, chunks, n, out>>

-----------------------------------------------------------------------------
(* The others, byte by byte                                                *)

\* Mutant: a chunked body has no length, so there never is more data.
MoreData_LengthOnly == data_fetched < content_length

\* tcp_get_databyte() has a byte to give, receiving a segment if it must.
MoreData == data_fetched < content_length \/ chunked_data_available
Next_byte == data[current_pos + 1]

\* http_get_databyte() reads a chunk size before it reads data.
AtData == pc = "byte" /\ (is_chunked => chunk_size > 0)

UsedUp == (AtData \/ pc \in {"size", "skip"}) /\ MoreData /\ current_pos >= size

Refill ==
  /\ UsedUp
  /\ \E k \in 1..BufferSize : Receive(k) /\ size' = k
  /\ current_pos' = 0
  /\ UNCHANGED <<pc, call, x, headers_info, trykeepalive, chunks, n, out>>

Take ==
  /\ MoreData /\ current_pos < size
  /\ current_pos' = current_pos + 1
  /\ data_fetched' = data_fetched + 1

\* Mutant: the bound of the variable is off by one.
Put_OneMore(byte) ==
  IF dest = "VAR"
  THEN /\ out' = IF n < Len(out) THEN [out EXCEPT ![n + 1] = byte] ELSE Append(out, byte)
       /\ n' = IF n = MaxData THEN 0 ELSE n + 1
  ELSE out' = Append(out, byte) /\ UNCHANGED n

\* The variable is filled from its beginning again when n reaches maxdata.
Put(byte) ==
  IF dest = "VAR"
  THEN /\ out' = IF n < Len(out) THEN [out EXCEPT ![n + 1] = byte] ELSE Append(out, byte)
       /\ n' = IF n + 1 = MaxData THEN 0 ELSE n + 1
  ELSE out' = Append(out, byte) /\ UNCHANGED n

\* Mutant: the null character is not taken back.
PutNul_Kept == Put(NUL)

\* A null character tells that there is no more: the variable gets it too.
PutNul == IF dest = "VAR" THEN Put(NUL) ELSE UNCHANGED <<n, out>>

GetByte ==
  /\ AtData
  /\ Take
  /\ Put(Next_byte)
  /\ chunk_size' = IF is_chunked THEN chunk_size - 1 ELSE chunk_size
  /\ UNCHANGED <<pc, call, network, data, size, x, headers_info, trykeepalive,
                 chunked_data_available, digits>>

EndOfData ==
  /\ AtData
  /\ ~MoreData
  /\ PutNul
  /\ pc' = "end"
  /\ UNCHANGED <<call, network, buffer, x, headers_info, trykeepalive, chunks>>

BeginSize ==
  /\ pc = "byte"
  /\ is_chunked /\ chunk_size = 0
  /\ digits' = 0
  /\ pc' = "size"
  /\ UNCHANGED <<call, network, buffer, x, headers_info, trykeepalive,
                 chunked_data_available, chunk_size, data_fetched, n, out>>

\* The size is what hexstr2ul() makes of the bytes before the next CR.
ReadSize ==
  /\ pc = "size"
  /\ Take
  /\ IF Next_byte = CR
     THEN chunk_size' = digits /\ pc' = "skip" /\ UNCHANGED digits
     ELSE /\ digits' = IF Next_byte.kind = "size" THEN Next_byte.value ELSE digits
          /\ UNCHANGED <<pc, chunk_size>>
  /\ UNCHANGED <<call, network, data, size, x, headers_info, trykeepalive,
                 chunked_data_available, n, out>>

\* If no more data is believed to come, the loop reads null characters for
\* ever, past the end of its buffer.
SizeOutside ==
  /\ pc = "size"
  /\ ~MoreData
  /\ pc' = "lost"
  /\ UNCHANGED <<call, network, buffer, x, headers_info, trykeepalive, chunks, n, out>>

\* The line of the size is passed over; a chunk of size 0 is the last.
SkipLine ==
  /\ pc = "skip"
  /\ Take
  /\ IF Next_byte # LF
     THEN UNCHANGED <<pc, chunked_data_available, n, out>>
     ELSE IF chunk_size > 0
     THEN pc' = "byte" /\ UNCHANGED <<chunked_data_available, n, out>>
     ELSE /\ chunked_data_available' = FALSE
          /\ pc' = "end"
          /\ PutNul
  /\ UNCHANGED <<call, network, data, size, x, headers_info, trykeepalive,
                 chunk_size, digits>>

-----------------------------------------------------------------------------
\* The connection is kept for the next request, or closed.
Finish ==
  /\ pc = "end"
  /\ pc' = "idle"
  /\ IF trykeepalive THEN UNCHANGED <<stream, head>> ELSE stream' = <<>> /\ head' = 0
  /\ UNCHANGED <<call, alive, buffer, x, headers_info, trykeepalive, chunks, n, out>>

\* The connection is lost, and with it what has not been received.
Drop ==
  /\ Drops
  /\ stream # <<>>
  /\ pc \notin {"idle", "dead", "lost"}
  /\ stream' = <<>> /\ head' = 0 /\ alive' = FALSE
  /\ UNCHANGED <<pc, call, buffer, x, headers_info, trykeepalive, chunks, n, out>>

\* The client wants a segment and nothing comes any more: a timeout, or an
\* error as the connection is closed.
Die ==
  /\ pc = "headers" \/ (pc = "copy" /\ Len(out) < content_length) \/ UsedUp
  /\ stream = <<>>
  /\ pc' = "dead"
  /\ UNCHANGED <<call, network, buffer, x, headers_info, trykeepalive, chunks, n, out>>

Terminated ==
  /\ pc \in {"dead", "lost"} \/ (pc \in {"idle", "redirect"} /\ requests = MaxRequests)
  /\ UNCHANGED vars

-----------------------------------------------------------------------------
Headers == GetHeaders \/ ScanOutside \/ BadStatus \/ HeaderLine \/ EmptyLine
ToFile == WriteRest \/ Copy \/ EndCopy
ByBytes == Refill \/ GetByte \/ EndOfData \/ BeginSize \/ ReadSize \/ SizeOutside \/ SkipLine

Step == Headers \/ ToFile \/ ByBytes \/ Finish \/ Die

Next == Request \/ Redirect \/ Step \/ Drop \/ Terminated

\* Bytes that were sent and not dropped are delivered, and the client goes on
\* while it can; where it waits in vain its timers make it give up.
Spec == Init /\ [][Next]_vars /\ WF_vars(Step)

-----------------------------------------------------------------------------
(* Properties                                                              *)

\* What hub can read of a server that answers 200: a body of a stated length,
\* or one chunk after which the connection is closed, and for a variable a
\* string that leaves room for its null character.  The headers are cut between
\* lines or, of a chunked body, not at all.
CanRead(r) ==
  /\ r.cuts \in {"never", "lines"}
  /\ r.framing = "chunked" => r.cuts = "never"
  /\ r.status = 200 =>
       /\ r.framing \in {"length", "chunked"}
       /\ r.framing = "chunked" =>
            /\ r.close
            /\ Payload(r) = IF Body(r) = <<>> THEN Chunk(<<>>)
                            ELSE Chunk(Body(r)) \o Chunk(<<>>)
       /\ "VAR" \in Dests =>
            /\ Len(Body(r)) < MaxData
            /\ \A i \in 1..Len(Body(r)) : Body(r)[i] # NUL

\* A variable is a string that ends at the first null character.
String(seq) == IF NUL \in ToSet(seq) THEN SubSeq(seq, 1, SelectInSeq(seq, LAMBDA b : b = NUL) - 1)
               ELSE seq

Received == IF dest = "VAR" THEN String(out) ELSE out

\* Every variable has its type; the variable a body goes to is never written
\* past its end.
TypeOK ==
  /\ pc \in {"idle", "headers", "line", "redirect", "rest", "copy", "byte", "size", "skip",
             "end", "dead", "lost"}
  /\ requests \in 0..MaxRequests
  /\ dest \in Dests /\ response \in Responses
  /\ head <= Len(stream) /\ alive \in BOOLEAN
  /\ Len(data) <= BufferSize
  /\ size \in 0..Len(data) /\ current_pos \in 0..Len(data)
  /\ x \in Nat /\ content_length \in Nat /\ location \in Nat
  /\ is_chunked \in BOOLEAN /\ is_redirect \in BOOLEAN
  /\ trykeepalive \in BOOLEAN /\ chunked_data_available \in BOOLEAN
  /\ chunk_size \in Nat /\ data_fetched \in Nat /\ digits \in Nat
  /\ n \in 0..MaxData - 1
  /\ dest = "VAR" /\ pc \in {"byte", "size", "skip", "end"} => Len(out) <= MaxData

\* Whatever was left over from the response before and however this one was
\* cut, the destination holds the body of the response when the transfer ends;
\* a body cut short by a lost connection is never taken for a whole one.
WholeBody == pc = "end" => Received = Body(response)

Framed ==
  /\ content_length = IF response.framing = "length" THEN Len(Body(response)) ELSE 0
  /\ is_chunked = (response.framing = "chunked")
  /\ is_redirect = IsRedirect(response.status)
  /\ is_redirect => location = response.location

\* However the headers are cut and misread, a body that is not chunked is taken
\* in order: what the destination holds, what is left of the segment and what
\* is still to come are the end of what the server sent, with no byte lost,
\* repeated, or left over in the buffer from an earlier segment.
TakenInOrder ==
  pc \in {"rest", "copy", "byte", "end"} /\ ~is_chunked /\ dest # "VAR" =>
    LET message == Header(response) \o Payload(response)
        unread  == IF dest = "file" /\ pc # "rest" THEN <<>> ELSE SubSeq(data, current_pos + 1, size)
        all     == out \o unread \o stream
    IN  IsSuffix(all, message) \/ IsSuffix(message, all)

\* When a connection is kept, nothing of the last response is left to be read
\* as the beginning of the next one.
InSync == pc = "idle" => stream = <<>>

\* When the empty line has been found, the headers say how the body is framed
\* ("Repeat until an empty line is detected (end of headers)").
FramingKnown ==
  [][EmptyLine => Framed /\ chunked_data_available = is_chunked]_vars

\* A request ends: the loops of http_get_headers() and http_get_content() come
\* to the end of the body or to a redirect, and hub dies only if the connection
\* is lost or the server refuses.
TransferEnds ==
  pc = "headers" ~>
    \/ pc \in {"end", "redirect"}
    \/ pc = "dead" /\ (~alive \/ response.status = 404)
=============================================================================
