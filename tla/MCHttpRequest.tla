--------------------------- MODULE MCHttpRequest ---------------------------
(* Model checking of HttpRequest: every way to cut a set of conversations   *)
(* into fragments, and every way to spoil one byte of them.                 *)
EXTENDS HttpRequest, SequencesExt

MCLetter == Abbreviated \cup {"a"}

(* The numbers the conversations can contain, small enough to stay below    *)
(* the model's SizeMod.                                                     *)
MCAtoiTable ==
  [s \in {<<"1">>, <<"2">>, <<"1", "0">>, <<"1", "a">>, <<"1", "1">>, <<"-", "1">>} |->
     CASE s = <<"2">> -> 2 [] s = <<"1", "0">> -> 10 [] s = <<"1", "1">> -> 11
       [] s = <<"-", "1">> -> -1 [] OTHER -> 1]

MCHexTable ==
  [s \in {<<"1">>, <<"2">>, <<"a">>, <<"0", "1">>, <<"1", "0">>, <<"0", "a">>, <<"1", "1">>} |->
     CASE s \in {<<"1">>, <<"0", "1">>} -> 1 [] s = <<"2">> -> 2
       [] s = <<"1", "0">> -> 16 [] s = <<"1", "1">> -> 17 [] OTHER -> 10]

(* No two names of the model collide.                                       *)
MCHeaderHash(name) == name

CRLF == <<"CR", "LF">>
RequestLineOf(method) ==
  NameOf[method] \o <<"SP", "/", "SP", "H", "T", "T", "P", "/", "1", ".", "1">> \o CRLF
Header(name, value) == <<name, ":", "SP">> \o value \o CRLF

Body     == Header("Content-Length", <<"2">>) \o CRLF \o <<"a", "a">>
Negative == Header("Content-Length", <<"-", "1">>) \o CRLF \o <<"a", "a">>
Chunked  == Header("Transfer-Encoding", <<"chunked">>) \o CRLF
LastChunkOf == <<"0">> \o CRLF \o CRLF

Conversations == {
  \* a request line of HTTP/0.9, and what follows it
  <<"G", "ET", "SP", "/", "?", "CR", "LF", "a">>,
  \* headers of a request without a body, the second continued on a line
  RequestLineOf("GET") \o Header("Connection", <<"Keep-Alive">>)
    \o <<"a", ":", "SP", "a", "CR", "LF", "SP", "HT", "a", "CR", "LF">> \o CRLF,
  \* the same header twice
  RequestLineOf("GET") \o Header("Connection", <<"a">>)
    \o Header("Connection", <<"Keep-Alive">>) \o Header("a", <<"a">>) \o CRLF,
  \* framing headers of a method that has no body
  RequestLineOf("GET") \o Body,
  RequestLineOf("GET") \o Chunked \o <<"1">>,
  \* a body, and the next request on the same connection
  RequestLineOf("POST") \o Body \o RequestLineOf("GET"),
  RequestLineOf("DELETE") \o Negative,
  \* two lengths
  RequestLineOf("POST") \o Header("Content-Length", <<"1">>) \o Body,
  RequestLineOf("PUT") \o Header("Content-Length", <<"0">>) \o CRLF \o <<"P">>,
  \* chunks, with an extension, with a trailer, and with data after the last
  RequestLineOf("PUT") \o Chunked \o <<"2", "SEMI", "=">> \o CRLF \o <<"a", "a">>
    \o CRLF \o LastChunkOf \o <<"a">>,
  RequestLineOf("POST") \o Chunked \o <<"0", "1">> \o CRLF \o <<"a">> \o CRLF
    \o <<"0">> \o CRLF \o <<"a", ":">> \o CRLF \o CRLF }

(* The bytes that spoil a conversation, and how much of it follows them: a  *)
(* digit more, a line that ends early, white space, an octet out of place.  *)
Probe == {"1", "CR", "SP", "x80"}
After == 8

Spoiled(s) ==
  {SubSeq(ReplaceAt(s, i, b), 1, IF i + After < Len(s) THEN i + After ELSE Len(s))
     : i \in 1..Len(s), b \in Probe}

MCStreams == Conversations \cup UNION {Spoiled(s) : s \in Conversations}
=============================================================================
