---------------------------- MODULE MCHttpSystem ----------------------------
(* Model checking of HttpSystem: one client that sends a request to /api    *)
(* ("/a") or /test ("/T"), and perhaps something after it.  The body "aa"   *)
(* is a document with an id beyond the keys and a value, "a1" one without a *)
(* value; white space may follow a document within the body or behind it,   *)
(* or what makes it none.  Others use the same key.                         *)
EXTENDS HttpSystem, SequencesExt

MCLetter == {"G", "P", "D", "ET", "OST", "UT", "ELETE", "H", "T",
             "Content-Length", "Transfer-Encoding", "Connection", "chunked",
             "Keep-Alive", "a"}
Lengths == <<"1", "2", "3">>
MCAtoiTable == [s \in {<<Lengths[n]>> : n \in 1..3} |-> CHOOSE n \in 1..3 : <<Lengths[n]>> = s]
MCHexTable == [s \in {<<"1">>} |-> 1]
MCHeaderHash(name) == name
MCId == {0, 1, 3}

AllMethods == {"GET", "PUT", "DELETE", "POST"}
MCRegistrations == <<
  [pattern |-> <<"/", "a">>, methods |-> AllMethods],
  [pattern |-> <<"/", "T">>, methods |-> AllMethods] >>

CRLF == <<"CR", "LF">>
Full == [idKind |-> "integer", id |-> 3, valueKind |-> "string", value |-> Empty]
NoValue == [idKind |-> "other", id |-> 0, valueKind |-> "missing", value |-> Empty]
MCOtherDocuments == {[Full EXCEPT !.id = 1, !.value = CHOOSE v \in Value : v # Empty]}
MCJsonTable ==
  [body \in {<<"a", "a">>, <<"a", "a", "CR">>, <<"a", "a", "CR", "LF">>, <<"a", "1">>} |->
     IF body = <<"a", "1">> THEN NoValue ELSE Full]

NameOf(method) ==
  CASE method = "GET" -> <<"G", "ET">>  [] method = "PUT" -> <<"P", "UT">>
    [] method = "POST" -> <<"P", "OST">> [] method = "DELETE" -> <<"D", "ELETE">>
    [] method = "All" -> <<"a">>

Sent(method, url, headers, framed, body, route) ==
  [bytes |-> NameOf(method) \o <<"SP">> \o url \o <<"SP", "H", "T", "T", "P", "/", "1", ".", "1">>
               \o CRLF \o headers \o CRLF \o framed,
   method |-> method, url |-> url, body |-> body, connection |-> <<>>, route |-> route]

Framed(method, body) ==
  Sent(method, <<"/", "a">>, <<"Content-Length", ":", "SP", Lengths[Len(body)]>> \o CRLF,
       body, body, 1)
Chunked(method) ==
  Sent(method, <<"/", "a">>, <<"Transfer-Encoding", ":", "SP", "chunked">> \o CRLF,
       <<"1">> \o CRLF \o <<"a">> \o CRLF \o <<"1">> \o CRLF \o <<"a">> \o CRLF
         \o <<"0">> \o CRLF \o CRLF,
       <<"a", "a">>, 1)
Get(url, route) == Sent("GET", url, <<>>, <<>>, <<>>, route)

(* A method the parser has no name for counts as all of them.              *)
Unknown == Sent("All", <<"/", "a">>, <<>>, <<>>, <<>>, 1)

Data == <<"a", "a">>
Blank == [Get(<<"/">>, 0) EXCEPT !.bytes = CRLF]
More  == [Blank EXCEPT !.bytes = <<"a">>]

MCDialogues == <<
  <<Framed("POST", Data), Blank>>,
  <<Framed("PUT", Data), Get(<<"/", "a">>, 1)>>,
  <<Framed("DELETE", <<"a", "1">>), [Blank EXCEPT !.bytes = Data]>>,
  <<Framed("POST", <<"a", "1">>)>>,
  <<Framed("PUT", Data \o <<"CR">>)>>, <<Framed("POST", Data \o <<"a">>)>>,
  <<Framed("POST", <<"a">>), More>>,
  <<Chunked("POST"), Blank>>,
  <<Get(<<"/", "a">>, 1)>>, <<Get(<<"/", "T">>, 2)>>,
  <<Unknown>> >>
MCStreams ==
  {FlattenSeq([i \in DOMAIN d |-> d[i].bytes]) : d \in {MCDialogues[c] : c \in DOMAIN MCDialogues}}
=============================================================================
