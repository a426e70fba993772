--------------------------- MODULE HttpConnection ---------------------------
(***************************************************************************)
(* What a view handler gets to see: HttpServer::handleReadyRead driving    *)
(* HttpRequest::parse and HttpRouter::handleRequest on one connection.     *)
(*                                                                         *)
(* TCP cuts the client's requests into fragments as it likes.  After every *)
(* fragment, whatever it left the parser in, the request as parsed so far  *)
(* is routed and its handler called: parse always reports success and      *)
(* parserState.upgrade, always true, disables the check for a complete     *)
(* message.  The life cycle of the socket is in HttpServer.tla.            *)
(***************************************************************************)
EXTENDS Integers, Sequences, SequencesExt

CONSTANTS
  Letter, Streams, SizeMod, ShortMod, HeaderHash(_), AtoiTable, HexTable,
  Registrations,   \* the routes registered, in order
  Dialogues        \* what each client sends: a sequence of requests, each a
                   \* record of
                   \*   bytes       what goes over the wire
                   \*   method, url, body, connection
                   \*               what the bytes say
                   \*   route       the index of the route meant to serve it

VARIABLES
  req, fragment, unread, parsed, completed,   \* as in HttpRequest
  client,     \* the client on this connection, a member of DOMAIN Dialogues
  phase,      \* "waiting" in the event loop, or "parsing" in handleReadyRead
  read,       \* how many bytes of the dialogue have been read
  call        \* the last call of HttpRouter::handleRequest, and whether the
              \* first request was still incomplete then ("early"), is seen
              \* complete for the first time ("first"), or was before ("later")

Request == INSTANCE HttpReading
Router  == INSTANCE HttpRouter

vars == <<req, fragment, unread, parsed, completed, client, phase, read, call>>

BytesOf(requests) == FlattenSeq([i \in DOMAIN requests |-> requests[i].bytes])

ASSUME DialogueAssumption == Streams = {BytesOf(Dialogues[c]) : c \in DOMAIN Dialogues}

ASSUME RegistrationsAssumption ==
  Registrations \in Seq([pattern : Seq(Request!Byte), methods : SUBSET STRING])

(* What HttpRequest assumes of its constants.                              *)
ASSUME RequestAssumption ==
  /\ Request!Abbreviated \subseteq Letter
  /\ Letter \cap (Request!Digit \cup Request!Control \cup Request!Special
                   \cup Request!Octet \cup {".", "-", "#"}) = {}
  /\ Streams \subseteq Seq(Request!Byte)
  /\ SizeMod \in Nat \ {0} /\ ShortMod \in Nat \ {0}
  /\ AtoiTable \in [DOMAIN AtoiTable -> Int]
  /\ HexTable \in [DOMAIN HexTable -> 0..(SizeMod - 1)]

Routes == Router!RouteTable(Registrations)

(* A request is what its bytes say when they are read in one go, and its   *)
(* last byte ends it.  If an earlier one did, as the carriage return of a  *)
(* request line of HTTP/0.9, the others say nothing.                       *)
Meant(request) ==
  LET n == Len(request.bytes)
      after == Request!Reading(request.bytes) IN
  /\ n > 0
  /\ request.method = Request!MethodNamed(after[n].method, "All")
  /\ request.url = after[n].url /\ request.body = after[n].content
  /\ request.route = Router!RouteOf(Routes, request.method, request.url)
  /\ Request!Returns(after[n - 1], request.bytes[n])
  /\ \A i \in 1..(n - 1) : Request!Returns(after[i - 1], request.bytes[i]) =>
       \A j \in i..n : after[j] = after[i]

(* After a request of HTTP/0.9 the parser is still in the request line: a  *)
(* client that sends one expects the connection to be closed.              *)
Simple(request) ==
  Request!Reading(request.bytes)[Len(request.bytes)].state \in Request!RequestLine

FirstMeant ==
  \A c \in DOMAIN Dialogues :
    /\ Dialogues[c] \in Seq([bytes : Seq(Request!Byte), method : STRING,
                            url : Seq(Request!Byte), body : Seq(Request!Byte),
                            connection : Seq(Request!Byte), route : Nat])
    /\ Dialogues[c] # <<>> /\ Meant(Dialogues[c][1])
    /\ Simple(Dialogues[c][1]) => Len(Dialogues[c]) = 1

ASSUME FirstAssumption == FirstMeant

First == Dialogues[client][1]

NoCall == [route |-> 0, missing |-> FALSE, method |-> "All", url |-> <<>>,
           body |-> <<>>, when |-> "early"]

Init ==
  /\ client \in DOMAIN Dialogues
  /\ Request!Init
  /\ unread = BytesOf(Dialogues[client])
  /\ phase = "waiting"
  /\ read = 0
  /\ call = NoCall

(* readyRead is emitted: the bytes that have arrived are read.             *)
ReadyRead ==
  /\ phase = "waiting"
  /\ \E n \in 1..Len(unread) : Request!ReadAll(n) /\ read' = read + n
  /\ phase' = "parsing"
  /\ UNCHANGED <<client, call>>

Parse ==
  /\ phase = "parsing"
  /\ Request!ParseByte
  /\ UNCHANGED <<client, phase, read, call>>

(* parse returns; the request is routed, and missingHandler is emitted for *)
(* one that handleRequest says it has not handled.                         *)
HandleRequest ==
  /\ phase = "parsing" /\ fragment = <<>>
  /\ phase' = "waiting"
  /\ LET method == Request!Method(req)
         route  == Router!RouteOf(Routes, method, req.url) IN
     call' = [route |-> route, missing |-> ~Router!Handled(route),
              method |-> method, url |-> req.url, body |-> req.content,
              when |-> IF read < Len(First.bytes) THEN "early"
                       ELSE IF call.when = "early" THEN "first" ELSE "later"]
  /\ UNCHANGED <<req, fragment, unread, parsed, completed, client, read>>

Next == ReadyRead \/ Parse \/ HandleRequest

Spec == Init /\ [][Next]_vars

(* The client has sent its requests and TCP delivers them; a slot runs to  *)
(* its end once it has started.                                            *)
FairSpec == Spec /\ WF_vars(ReadyRead) /\ WF_vars(Parse) /\ WF_vars(HandleRequest)

-----------------------------------------------------------------------------
TypeOK ==
  /\ client \in DOMAIN Dialogues
  /\ phase \in {"waiting", "parsing"}
  /\ read + Len(unread) = Len(BytesOf(Dialogues[client]))
  /\ phase = "waiting" => fragment = <<>>
  /\ call.route \in 0..Len(Routes)

(* However the client's first request is cut into fragments, and whatever  *)
(* follows it in the last of them: the call made when its last byte has    *)
(* been read sees that request, all of it and nothing else, in the handler *)
(* it is meant for.                                                        *)
FirstRequestExact ==
  call.when = "first" =>
    /\ call.method = First.method /\ call.url = First.url
    /\ call.body = First.body /\ call.route = First.route

(* handleReadyRead does not wait for a complete request.  What a handler   *)
(* sees too early is the beginning of the request: never another method    *)
(* than the request's once there is a url to route, never another body     *)
(* than a part of its body, and not all of it unless it is chunked.  (A    *)
(* method read in part counts as All, or as the method it begins with if   *)
(* no name is known for all of it.)                                        *)
EarlyCallsArePrefixes ==
  call.when = "early" =>
    /\ \/ call.method = First.method
       \/ call.url = <<>> /\ (call.method = "All" \/ First.method = "All")
    /\ IsPrefix(call.url, First.url)
    /\ IsPrefix(call.body, First.body)
    /\ call.body # <<>> => call.method = First.method /\ call.url = First.url
    /\ ~req.chunked => call.body = <<>> \/ call.body # First.body

(* The parser is never reset: a later request on the same connection calls *)
(* the handler of the first again, with the first one's request line, and  *)
(* with its body, to which bytes of the later requests may be added.       *)
LaterCallsRepeatFirst ==
  call.when = "later" =>
    /\ call.method = First.method /\ call.url = First.url
    /\ call.route = First.route
    /\ IsPrefix(First.body, call.body)

(* A handler called again after the next fragment, for the same request or *)
(* a later one, sees what it saw before and perhaps more: nothing takes    *)
(* bytes away from the url or the body, and when a handler has seen a url  *)
(* it has seen the method, too.                                            *)
CallsOnlyGrow ==
  [][/\ IsPrefix(call.url, call'.url) /\ IsPrefix(call.body, call'.body)
     /\ call.url # <<>> => call'.method = call.method]_vars

(* A client whose first request matches a route is served: however the     *)
(* request is cut, its route's handler is called, with all of the request  *)
(* and nothing else, when its last byte has been read.  (A request without *)
(* a route gets no handler and no answer: see NotFoundReported.)           *)
FirstRequestServed ==
  First.route # 0 =>
    <>(/\ call.when = "first" /\ call.route = First.route
       /\ call.method = First.method /\ call.url = First.url
       /\ call.body = First.body)

(* What the comment "iterate over headers and find connection" says of the *)
(* parser (http_request.cpp:245): when a request with a Connection header  *)
(* is complete, keepAlive says what that header said.                      *)
ConnectionHonoured ==
  parsed = "complete" /\ read <= Len(First.bytes) /\ First.connection # <<>>
    => (req.keepAlive <=> First.connection = <<"Keep-Alive">>)

(* What the log line "Missing handler: " says of the server                *)
(* (http_server.cpp:133): a request no route serves is reported as missing *)
(* its handler, and so answered with NotFound.                             *)
NotFoundReported ==
  call.when # "early" /\ call.route = 0 => call.missing

=============================================================================
