-------------------------- MODULE MCHttpConnection --------------------------
(* Model checking of HttpConnection: clients that send one or two requests, *)
(* of every way the parser knows to find the end of one, cut into fragments *)
(* at every place.  "/a" stands for /api, "/T" for /test, and the body "aa" *)
(* for a JSON document.                                                     *)
EXTENDS HttpConnection

MCLetter == {"G", "P", "D", "ET", "OST", "UT", "ELETE", "H", "T",
             "Content-Length", "Transfer-Encoding", "Connection", "chunked",
             "Keep-Alive", "a"}
MCAtoiTable == [s \in {<<"2">>} |-> 2]
MCHexTable == [s \in {<<"1">>} |-> 1]
MCHeaderHash(name) == name

(* A route nobody can reach, for its method does not exist, and two that    *)
(* overlap: the first registered takes both paths.                          *)
MCRegistrations == <<
  [pattern |-> <<"/", "P">>, methods |-> {"BREW"}],
  [pattern |-> <<"/", "a">>, methods |-> {"GET", "PUT", "DELETE", "POST"}],
  [pattern |-> <<"/", "a", "a">>, methods |-> {"GET"}],
  [pattern |-> <<"/", "T">>, methods |-> {"Get"}] >>

CRLF == <<"CR", "LF">>
Header(name, value) == <<name, ":", "SP">> \o value \o CRLF

NameOf(method) ==
  CASE method = "GET" -> <<"G", "ET">>  [] method = "PUT" -> <<"P", "UT">>
    [] method = "POST" -> <<"P", "OST">> [] method = "DELETE" -> <<"D", "ELETE">>
    [] method = "All" -> <<"G", "ET", "a">>

Sent(method, url, headers, framed, body, connection, route) ==
  [bytes |-> NameOf(method) \o <<"SP">> \o url \o <<"SP", "H", "T", "T", "P", "/", "1", ".", "1">>
               \o CRLF \o headers \o CRLF \o framed,
   method |-> method, url |-> url, body |-> body,
   connection |-> connection, route |-> route]

Length == Header("Content-Length", <<"2">>)
Data   == <<"a", "a">>

PostJson == Sent("POST", <<"/", "a">>, Length, Data, Data, <<>>, 1)
PostTest == Sent("POST", <<"/", "T">>, Length, Data, Data, <<>>, 0)
GetTest  == Sent("GET", <<"/", "/", "a", "/", "T", "?">>, <<>>, <<>>, <<>>, <<>>, 3)
GetLonger == Sent("GET", <<"/", "a", "a">>, <<>>, <<>>, <<>>, <<>>, 1)
Unknown  == Sent("All", <<"/", "a">>, <<>>, <<>>, <<>>, <<>>, 1)
GetNowhere == Sent("GET", <<"/", "P", "#", "/", "a">>, <<>>, <<>>, <<>>, <<>>, 0)
Closing  == Sent("DELETE", <<"/", "a">>, Length \o Header("Connection", <<"a">>),
                 Data, Data, <<"a">>, 1)
Keeping  == Sent("DELETE", <<"/", "a">>, Header("Connection", <<"Keep-Alive">>) \o Length,
                 Data, Data, <<"Keep-Alive">>, 1)
PutChunked ==
  Sent("PUT", <<"/", "a">>, Header("Transfer-Encoding", <<"chunked">>),
       <<"1">> \o CRLF \o <<"a">> \o CRLF \o <<"1">> \o CRLF \o <<"a">> \o CRLF
         \o <<"0">> \o CRLF \o CRLF,
       Data, <<>>, 1)
GetSimple ==
  [bytes |-> <<"G", "ET", "SP", "/", "T">> \o CRLF, method |-> "GET", url |-> <<"/", "T">>,
   body |-> <<>>, connection |-> <<>>, route |-> 3]

MCDialogues ==
  << <<PutChunked, GetTest>>, <<PostJson, PostJson>>, <<GetTest, PostJson>>,
     <<GetSimple>>, <<Unknown>>, <<GetLonger>>, <<GetNowhere>>, <<PostTest>>, <<Closing>>, <<Keeping>> >>
MCStreams == {BytesOf(MCDialogues[c]) : c \in DOMAIN MCDialogues}
=============================================================================
