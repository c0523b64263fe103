--------------------------- MODULE MCHttpTransfer ---------------------------
(***************************************************************************)
(* Instances of HttpTransfer for TLC.  The longest header is 14 bytes.     *)
(***************************************************************************)
EXTENDS HttpTransfer

Bytes(from, to) == [i \in 1..to - from + 1 |-> Byte("byte", from + i - 1)]
Response(framing, chunkSeq, close, cuts) ==
  [status |-> 200, location |-> 0, framing |-> framing, chunks |-> chunkSeq,
   close |-> close, cuts |-> cuts]
Moved(bytes) ==
  [Response("length", <<bytes>>, FALSE, "never") EXCEPT !.status = 302, !.location = 1]
NotFound == [Response("length", << <<>> >>, FALSE, "never") EXCEPT !.status = 404]

AllDests == {"file", "VAR", "CON"}
FileOrScreen == {"file", "CON"}
File == {"file"}

\* What hub can read: bodies of a stated length, none, or as long as fits into
\* the variable with its null character, and one chunk after which the
\* connection is closed.
Readable ==
  {Response("length", <<Bytes(1, 4)>>, close, "lines") : close \in BOOLEAN}
  \cup {Response("length", << <<>> >>, FALSE, "lines"),
         Response("chunked", <<Bytes(1, 3)>>, TRUE, "never"),
         Moved(Bytes(5, 6)), NotFound}

Anyhow ==
  {Response("length", <<Bytes(1, 2)>>, FALSE, "anywhere"),
   Response("chunked", <<Bytes(3, 4)>>, FALSE, "anywhere")}

TwoChunks == {Response("chunked", <<Bytes(1, 2), Bytes(3, 3)>>, TRUE, "never")}
=============================================================================
