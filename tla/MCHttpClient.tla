---------------------------- MODULE MCHttpClient ----------------------------
(***************************************************************************)
(* An instance of HttpClient for TLC: a server that has one resource and   *)
(* has moved the other, perhaps, to a second server, which has something   *)
(* else under the name of the first.                                       *)
(***************************************************************************)
EXTENDS HttpClient

MCOrigin == [host |-> "a", port |-> 80]
Other == [host |-> "b", port |-> 80]
MCServers == {MCOrigin, Other}
MCTarget(k) == IF k = 0 THEN MCOrigin ELSE Other

\* As in HttpTransfer
Byte(value) == [kind |-> "byte", part |-> 1, value |-> value]

Ok(framing, bytes, close) ==
  [status |-> 200, location |-> 0, framing |-> framing,
   chunks |-> <<[i \in DOMAIN bytes |-> Byte(bytes[i])]>>,
   close |-> close, cuts |-> "never"]
Moved(k) == [Ok("length", <<9>>, FALSE) EXCEPT !.status = 302, !.location = k]
NotFound == [Ok("length", <<8>>, FALSE) EXCEPT !.status = 404]

MCResources == {1, 2}
MCServes ==
  [a |-> << {Ok("length", <<1, 1>>, FALSE), Ok("length", <<1, 1>>, TRUE)},
            {Ok("length", <<2>>, FALSE), Moved(0), Moved(1), NotFound} >>,
   b |-> << {Ok("length", <<3, 3>>, FALSE)},
            {Ok("chunked", <<2>>, TRUE), Ok("length", <<2>>, FALSE), Moved(0)} >>]

\* They are responses hub can read, which is what the proofs assume.
ASSUME Readable == \A r \in Responses : T!CanRead(r)

MCDests == {"file", "VAR"}
Network == {"close", "net"}
=============================================================================
