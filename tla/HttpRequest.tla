---------------------------- MODULE HttpRequest ----------------------------
(***************************************************************************)
(* The incremental HTTP parser: HttpRequest::parse and the state it keeps  *)
(* between calls (src/src/httpserver/http_request.{h,cpp}).                *)
(*                                                                         *)
(* One HttpRequest serves a connection for its whole life.  Each readyRead *)
(* reads whatever bytes have arrived (a fragment) and feeds them one at a  *)
(* time to a switch over `state'; a `return' drops the rest of the         *)
(* fragment and leaves `state' where it is.  There is one action per case  *)
(* of the switch.                                                          *)
(*                                                                         *)
(* Bytes come from a reduced alphabet: header names and the two header     *)
(* values the code compares with are single letters, the names of methods  *)
(* two, so that one can be read in part; a digit, a delimiter, a control   *)
(* character or an octet above 127 stands for itself.  Letter case is      *)
(* folded away (headerHash and strcasecmp fold it; request methods are     *)
(* upper case).                                                            *)
(***************************************************************************)
EXTENDS Integers, Sequences

CONSTANTS
  Letter,          \* alphabetic bytes, the abbreviations above among them
  Streams,         \* the byte streams a client may send on a connection
  SizeMod,         \* 2^w, w the width of size_t
  ShortMod,        \* 2^w, w the width of unsigned short
  HeaderHash(_),   \* qHash of a lower-cased header name, seeded
  AtoiTable,       \* std::atoi, for the strings on which it is not zero
  HexTable         \* std::strtol base 16, for the strings on which it is not zero

Digit   == {"0", "1", "2", "3", "4", "5", "6", "7", "8", "9"}
Control == {"CR", "LF", "HT"}
Special == {"SP", "HT", ":", "SEMI", "=", "/", "?"}
Octet   == {"x80"}
Byte    == Letter \cup Digit \cup Control \cup Special \cup Octet \cup {".", "-", "#"}
Token   == Byte \ (Control \cup Special \cup Octet)
Alnum   == Letter \cup Digit

Abbreviated == {"G", "P", "D", "ET", "OST", "UT", "ELETE", "H", "T",
                "Content-Length", "Transfer-Encoding", "Connection",
                "chunked", "Keep-Alive"}

ASSUME LetterAssumption ==
  /\ Abbreviated \subseteq Letter
  /\ Letter \cap (Digit \cup Control \cup Special \cup Octet \cup {".", "-", "#"}) = {}
ASSUME StreamsAssumption == Streams \subseteq Seq(Byte)
ASSUME SizeAssumption == SizeMod \in Nat \ {0} /\ ShortMod \in Nat \ {0}
ASSUME TableAssumption ==
  /\ AtoiTable \in [DOMAIN AtoiTable -> Int]
  /\ HexTable \in [DOMAIN HexTable -> 0..(SizeMod - 1)]

VARIABLES
  req,        \* the HttpRequest: parserState, state and _headers
  fragment,   \* what is left of the bytes readAll() returned
  unread,     \* the rest of the client's stream
  parsed,     \* what parse(fragment) returns: -2, 0 or -1 in the code
  completed   \* history: has parse ever returned 0?

vars == <<req, fragment, unread, parsed, completed>>

RequestLine == {"RequestMethodStart", "RequestMethod", "RequestUrlStart",
  "RequestUrl", "RequestHttpVersion_h", "RequestHttpVersion_ht",
  "RequestHttpVersion_htt", "RequestHttpVersion_http",
  "RequestHttpVersion_slash", "RequestHttpVersion_majorStart",
  "RequestHttpVersion_major", "RequestHttpVersion_minorStart",
  "RequestHttpVersion_minor", "ResponseHttpVersion_newline"}
HeaderStates == {"HeaderLineStart", "HeaderLws", "HeaderName",
  "SpaceBeforeHeaderValue", "HeaderValue", "ExpectingNewline_2",
  "ExpectingNewline_3"}
ChunkStates == {"ChunkSize", "ChunkExtensionName", "ChunkExtensionValue",
  "ChunkSizeNewLine", "ChunkSizeNewLine_2", "ChunkSizeNewLine_3",
  "ChunkTrailerName", "ChunkTrailerValue", "ChunkDataNewLine_1",
  "ChunkDataNewLine_2", "ChunkData"}
State == RequestLine \cup HeaderStates \cup ChunkStates \cup {"Post", "MessageComplete"}

Digits == <<"0", "1", "2", "3", "4", "5", "6", "7", "8", "9">>
DigitValue(d) == CHOOSE n \in 0..9 : Digits[n + 1] = d

(* unsigned short arithmetic of `v * 10 + input - '0''.                    *)
Shift(v, d) == (v * 10 + DigitValue(d)) % ShortMod

Atoi(s) == IF s \in DOMAIN AtoiTable THEN AtoiTable[s] ELSE 0
Strtol16(s) == IF s \in DOMAIN HexTable THEN HexTable[s] ELSE 0

\* Slip: the counters are signed.
Decrement_Signed(n) == n - 1

(* An unsigned decrement: zero wraps around.                               *)
Decrement(n) == IF n = 0 THEN SizeMod - 1 ELSE n - 1

(* The methods the code has a name for, as they are spelled on the wire.   *)
NameOf == [GET |-> <<"G", "ET">>, POST |-> <<"P", "OST">>,
           PUT |-> <<"P", "UT">>, DELETE |-> <<"D", "ELETE">>]

BodyMethods == {NameOf[m] : m \in {"POST", "PUT", "DELETE"}}

MethodNamed(name, other) ==
  IF \E m \in DOMAIN NameOf : NameOf[m] = name
    THEN CHOOSE m \in DOMAIN NameOf : NameOf[m] = name
    ELSE other

\* Slip: GET is the default.
Method_DefaultsToGet(r) == MethodNamed(r.method, "GET")

(* HttpRequest::method(): a name it does not know, an incomplete one       *)
(* included, counts as every method at once.                               *)
Method(r) == MethodNamed(r.method, "All")

(* _headers is a map keyed by hash: a name whose hash is taken replaces    *)
(* the entry.                                                              *)
WithHeader(headers, name, value) ==
  {h \in headers : HeaderHash(h[1]) # HeaderHash(name)} \cup {<<name, value>>}

-----------------------------------------------------------------------------
Fresh == [state |-> "RequestMethodStart", method |-> <<>>, url |-> <<>>,
          major |-> 0, minor |-> 0, headers |-> {}, name |-> <<>>, value |-> <<>>,
          keepAlive |-> FALSE, chunked |-> FALSE, contentSize |-> 0,
          content |-> <<>>, chunkSizeStr |-> <<>>, chunkSize |-> 0]

Init ==
  /\ req = Fresh
  /\ fragment = <<>>
  /\ unread \in Streams
  /\ parsed = "incomplete"
  /\ completed = FALSE

\* Slip: peek, which leaves them there.
ReadAll_Peeks(n) ==
  /\ fragment = <<>>
  /\ fragment' = SubSeq(unread, 1, n)
  /\ parsed' = "incomplete"
  /\ UNCHANGED <<req, unread, completed>>

(* parse(QIODevice): readAll() takes the bytes that have arrived, any      *)
(* non-empty part of the stream, and parse(fragment) starts on them.       *)
ReadAll(n) ==
  /\ fragment = <<>>
  /\ fragment' = SubSeq(unread, 1, n)
  /\ unread' = SubSeq(unread, n + 1, Len(unread))
  /\ parsed' = "incomplete"
  /\ UNCHANGED <<req, completed>>

input == Head(fragment)

(* The three ways a case ends: break, and the two returns, which drop the  *)
(* rest of the fragment.                                                   *)
Break(r) ==
  /\ req' = r
  /\ fragment' = Tail(fragment)
  /\ UNCHANGED <<unread, parsed, completed>>

Return(result, r) ==
  /\ req' = r
  /\ fragment' = <<>>
  /\ parsed' = result
  /\ completed' = (completed \/ result = "complete")
  /\ UNCHANGED unread

-----------------------------------------------------------------------------
(* The transitions that only change `state': from, byte, to.               *)
RequestLineMoves == {
  <<"RequestMethod", "SP", "RequestUrlStart">>,
  <<"RequestUrl", "SP", "RequestHttpVersion_h">>,
  <<"RequestHttpVersion_h", "H", "RequestHttpVersion_ht">>,
  <<"RequestHttpVersion_ht", "T", "RequestHttpVersion_htt">>,
  <<"RequestHttpVersion_htt", "T", "RequestHttpVersion_http">>,
  <<"RequestHttpVersion_http", "P", "RequestHttpVersion_slash">>,
  <<"RequestHttpVersion_major", ".", "RequestHttpVersion_minorStart">>,
  <<"RequestHttpVersion_minor", "CR", "ResponseHttpVersion_newline">>,
  <<"ResponseHttpVersion_newline", "LF", "HeaderLineStart">> }

HeaderMoves == {
  <<"HeaderLineStart", "CR", "ExpectingNewline_3">>,
  <<"HeaderLws", "CR", "ExpectingNewline_2">>,
  <<"HeaderLws", "SP", "HeaderLws">>,
  <<"HeaderLws", "HT", "HeaderLws">>,
  <<"HeaderName", ":", "SpaceBeforeHeaderValue">>,
  <<"SpaceBeforeHeaderValue", "SP", "HeaderValue">>,
  <<"ExpectingNewline_2", "LF", "HeaderLineStart">> }

ChunkMoves == {
  <<"ChunkSize", "SEMI", "ChunkExtensionName">>,
  <<"ChunkSize", "CR", "ChunkSizeNewLine">>,
  <<"ChunkExtensionName", "=", "ChunkExtensionValue">>,
  <<"ChunkExtensionName", "CR", "ChunkSizeNewLine">>,
  <<"ChunkExtensionValue", "CR", "ChunkSizeNewLine">>,
  <<"ChunkSizeNewLine_2", "CR", "ChunkSizeNewLine_3">>,
  <<"ChunkTrailerName", ":", "ChunkTrailerValue">>,
  <<"ChunkTrailerValue", "CR", "ChunkSizeNewLine">>,
  <<"ChunkDataNewLine_1", "CR", "ChunkDataNewLine_2">>,
  <<"ChunkDataNewLine_2", "LF", "ChunkSize">> }

TrailerMoves == {<<"ChunkSizeNewLine_2", c, "ChunkTrailerName">> : c \in Letter}

Moves == RequestLineMoves \cup HeaderMoves \cup ChunkMoves \cup TrailerMoves

(* The bytes the remaining transitions take, by state.                     *)
RequestLineData ==
  [RequestMethodStart            |-> Token,
   RequestMethod                 |-> Token,
   RequestUrlStart               |-> Byte \ Control,
   RequestUrl                    |-> (Byte \ (Control \cup {"SP"})) \cup {"CR"},
   RequestHttpVersion_slash      |-> {"/"},
   RequestHttpVersion_majorStart |-> Digit,
   RequestHttpVersion_major      |-> Digit,
   RequestHttpVersion_minorStart |-> Digit,
   RequestHttpVersion_minor      |-> Digit]

HeaderData ==
  [HeaderLineStart    |-> Token,
   HeaderLws          |-> Byte \ (Control \cup {"SP"}),
   HeaderName         |-> Token,
   HeaderValue        |-> (Byte \ Control) \cup {"CR"},
   ExpectingNewline_3 |-> Byte]

BodyData ==
  [Post               |-> Byte,
   ChunkSize          |-> Alnum,
   ChunkSizeNewLine   |-> {"LF"},
   ChunkSizeNewLine_3 |-> {"LF"},
   ChunkData          |-> Byte]

Takes(data, s, c) == s \in DOMAIN data /\ c \in data[s]

(* A line that starts with white space continues the previous header, but  *)
(* the first header is only in _headers when the second has begun.         *)
ContinuesHeader(r, c) ==
  r.state = "HeaderLineStart" /\ r.headers # {} /\ c \in {"SP", "HT"}

Accepts(r, c) ==
  \/ \E m \in Moves : m[1] = r.state /\ m[2] = c
  \/ \E data \in {RequestLineData, HeaderData, BodyData} : Takes(data, r.state, c)
  \/ ContinuesHeader(r, c)

At(data, s) == fragment # <<>> /\ req.state = s /\ Takes(data, s, input)

Move ==
  /\ fragment # <<>>
  /\ \E m \in Moves :
       /\ m[1] = req.state /\ m[2] = input
       /\ Break([req EXCEPT !.state = m[3]])

(* `return -1': in every state the byte is one no case provides for.       *)
Reject ==
  /\ fragment # <<>>
  /\ ~Accepts(req, input)
  /\ Return("error", req)

-----------------------------------------------------------------------------
(* The request line.                                                       *)

RequestMethod ==
  /\ At(RequestLineData, "RequestMethodStart") \/ At(RequestLineData, "RequestMethod")
  /\ Break([req EXCEPT !.state = "RequestMethod", !.method = Append(@, input)])

RequestUrl ==
  /\ At(RequestLineData, "RequestUrlStart") \/ At(RequestLineData, "RequestUrl")
  /\ input # "CR"
  /\ Break([req EXCEPT !.state = "RequestUrl", !.url = Append(@, input)])

(* A request line that ends after the url is taken for HTTP/0.9.           *)
SimpleRequest ==
  /\ At(RequestLineData, "RequestUrl")
  /\ input = "CR"
  /\ Return("complete", [req EXCEPT !.major = 0, !.minor = 9])

VersionSlash ==
  /\ At(RequestLineData, "RequestHttpVersion_slash")
  /\ Break([req EXCEPT !.state = "RequestHttpVersion_majorStart", !.major = 0, !.minor = 0])

VersionMajor ==
  \/ /\ At(RequestLineData, "RequestHttpVersion_majorStart")
     /\ Break([req EXCEPT !.state = "RequestHttpVersion_major", !.major = DigitValue(input)])
  \/ /\ At(RequestLineData, "RequestHttpVersion_major")
     /\ Break([req EXCEPT !.major = Shift(@, input)])

VersionMinor ==
  \/ /\ At(RequestLineData, "RequestHttpVersion_minorStart")
     /\ Break([req EXCEPT !.state = "RequestHttpVersion_minor", !.minor = DigitValue(input)])
  \/ /\ At(RequestLineData, "RequestHttpVersion_minor")
     /\ Break([req EXCEPT !.minor = Shift(@, input)])

-----------------------------------------------------------------------------
(* The header lines.                                                       *)

(* A header is stored when the next one begins: the last never is.         *)
HeaderStart ==
  /\ At(HeaderData, "HeaderLineStart")
  /\ LET stored == req.name # <<>> IN
     Break([req EXCEPT
       !.state = "HeaderName",
       !.headers = IF stored THEN WithHeader(@, req.name, req.value) ELSE @,
       !.name = <<input>>,
       !.value = IF stored THEN <<>> ELSE @])

HeaderFold ==
  /\ fragment # <<>>
  /\ ContinuesHeader(req, input)
  /\ Break([req EXCEPT !.state = "HeaderLws"])

HeaderName ==
  /\ At(HeaderData, "HeaderName")
  /\ Break([req EXCEPT !.name = Append(@, input)])

HeaderValue ==
  /\ At(HeaderData, "HeaderLws") \/ At(HeaderData, "HeaderValue")
  /\ input # "CR"
  /\ Break([req EXCEPT !.state = "HeaderValue", !.value = Append(@, input)])

\* Slip: the method is not looked at.
Frames_AnyMethod(r, name) == r.name = <<name>>

(* The framing headers take effect at the end of their line, and only for  *)
(* the methods that carry a body.                                          *)
Frames(r, name) == r.method \in BodyMethods /\ r.name = <<name>>

\* Slip: Transfer-Encoding is not understood.
HeaderEnd_LengthOnly ==
  /\ At(HeaderData, "HeaderValue")
  /\ input = "CR"
  /\ Break([req EXCEPT
       !.state = "ExpectingNewline_2",
       !.contentSize = IF Frames(req, "Content-Length") THEN Atoi(req.value) % SizeMod ELSE @])

\* Slip: the first Content-Length counts.
HeaderEnd_FirstLength ==
  /\ At(HeaderData, "HeaderValue")
  /\ input = "CR"
  /\ Break([req EXCEPT
       !.state = "ExpectingNewline_2",
       !.contentSize = IF @ = 0 /\ Frames(req, "Content-Length")
                         THEN Atoi(req.value) % SizeMod ELSE @,
       !.chunked = @ \/ (Frames(req, "Transfer-Encoding") /\ req.value = <<"chunked">>)])

HeaderEnd ==
  /\ At(HeaderData, "HeaderValue")
  /\ input = "CR"
  /\ Break([req EXCEPT
       !.state = "ExpectingNewline_2",
       !.contentSize = IF Frames(req, "Content-Length") THEN Atoi(req.value) % SizeMod ELSE @,
       !.chunked = @ \/ (Frames(req, "Transfer-Encoding") /\ req.value = <<"chunked">>)])

KeepAlive(r) ==
  LET connection == {h \in r.headers : HeaderHash(h[1]) = HeaderHash(<<"Connection">>)} IN
  IF connection # {}
    THEN \E h \in connection : h[2] = <<"Keep-Alive">>
    ELSE r.keepAlive \/ r.major > 1 \/ (r.major = 1 /\ r.minor = 1)

\* Slip: the check for an empty body is missing.
CountsBody_Unasked(r) == TRUE

(* Whether bytes of a body are to be counted down.                         *)
CountsBody(r) == r.contentSize # 0

(* The byte after the last carriage return: a line feed, if anybody looked *)
(* at it when a body is to follow.                                         *)
ExpectingNewline_3 ==
  /\ At(HeaderData, "ExpectingNewline_3")
  /\ LET r == [req EXCEPT !.keepAlive = KeepAlive(req)] IN
     \/ /\ r.chunked
        /\ Break([r EXCEPT !.state = "ChunkSize"])
     \/ /\ ~r.chunked /\ CountsBody(r)
        /\ Break([r EXCEPT !.state = "Post"])
     \/ /\ ~r.chunked /\ ~CountsBody(r)
        /\ Return(IF input = "LF" THEN "complete" ELSE "error", r)

-----------------------------------------------------------------------------
(* The body.                                                               *)

\* Slip: the last byte is not waited for.
Post_Short ==
  /\ At(BodyData, "Post")
  /\ LET r == [req EXCEPT !.contentSize = Decrement(@), !.content = Append(@, input)] IN
     IF r.contentSize = 1 THEN Return("complete", r) ELSE Break(r)

\* Slip: the parser is reset, the rest of the request is not.
Post_Restarts ==
  /\ At(BodyData, "Post")
  /\ LET r == [req EXCEPT !.contentSize = Decrement(@), !.content = Append(@, input)] IN
     IF r.contentSize = 0
       THEN Return("complete", [r EXCEPT !.state = "RequestMethodStart"])
       ELSE Break(r)

\* Slip: what follows a complete body begins another one.
Post_Anew ==
  /\ At(BodyData, "Post")
  /\ LET r == [req EXCEPT !.contentSize = Decrement(@),
                         !.content = IF req.contentSize = 0 THEN <<input>> ELSE Append(@, input)] IN
     IF r.contentSize = 0 THEN Return("complete", r) ELSE Break(r)

Post ==
  /\ At(BodyData, "Post")
  /\ LET r == [req EXCEPT !.contentSize = Decrement(@), !.content = Append(@, input)] IN
     IF r.contentSize = 0 THEN Return("complete", r) ELSE Break(r)

ChunkSize ==
  /\ At(BodyData, "ChunkSize")
  /\ Break([req EXCEPT !.chunkSizeStr = Append(@, input)])

\* Slip: the last chunk is not recognised.
AfterSize_Data(size) == "ChunkData"

(* What follows the size of a chunk: its data, or the end of the body.     *)
AfterSize(size) == IF size = 0 THEN "ChunkSizeNewLine_2" ELSE "ChunkData"

ChunkSizeNewLine ==
  /\ At(BodyData, "ChunkSizeNewLine")
  /\ LET size == Strtol16(req.chunkSizeStr) IN
     Break([req EXCEPT
       !.state = AfterSize(size),
       !.chunkSize = size,
       !.chunkSizeStr = <<>>])

ChunkData ==
  /\ At(BodyData, "ChunkData")
  /\ LET left == Decrement(req.chunkSize) IN
     Break([req EXCEPT
       !.state = IF left = 0 THEN "ChunkDataNewLine_1" ELSE @,
       !.chunkSize = left,
       !.content = Append(@, input)])

\* Slip: the parser is reset, the rest of the request is not.
LastChunk_Restarts ==
  /\ At(BodyData, "ChunkSizeNewLine_3")
  /\ Return("complete", [req EXCEPT !.state = "RequestMethodStart"])

LastChunk ==
  /\ At(BodyData, "ChunkSizeNewLine_3")
  /\ Return("complete", req)

-----------------------------------------------------------------------------
ParseByte ==
  \/ Move \/ Reject
  \/ RequestMethod \/ RequestUrl \/ SimpleRequest
  \/ VersionSlash \/ VersionMajor \/ VersionMinor
  \/ HeaderStart \/ HeaderFold \/ HeaderName \/ HeaderValue \/ HeaderEnd
  \/ ExpectingNewline_3
  \/ Post \/ ChunkSize \/ ChunkSizeNewLine \/ ChunkData \/ LastChunk

Next ==
  \/ \E n \in 1..Len(unread) : ReadAll(n)
  \/ ParseByte

Spec == Init /\ [][Next]_vars

-----------------------------------------------------------------------------
Size == 0..(SizeMod - 1)

Requests ==
  [state : State, method : Seq(Byte), url : Seq(Byte), major : Nat, minor : Nat,
   headers : SUBSET (Seq(Byte) \X Seq(Byte)), name : Seq(Byte), value : Seq(Byte),
   keepAlive : BOOLEAN, chunked : BOOLEAN, contentSize : Size, content : Seq(Byte),
   chunkSizeStr : Seq(Byte), chunkSize : Size]

TypeOK ==
  /\ req \in Requests
  /\ fragment \in Seq(Byte)
  /\ unread \in Seq(Byte)
  /\ parsed \in {"incomplete", "complete", "error"}
  /\ completed \in BOOLEAN

(* http_request.cpp:346 decrements an unsigned chunkSize before it looks   *)
(* at it: whatever sizes a client announces, in however many chunks, it    *)
(* never does so at zero.                                                  *)
ChunkNeverUnderflows ==
  req.state = "ChunkData" => req.chunkSize # 0

(* http_request.cpp:273 decrements an unsigned contentSize before it looks *)
(* at it: that is never done at zero while the announced body is still     *)
(* coming in.  (It is done at zero by the first byte after it.)            *)
NoUnderflowBeforeCompletion ==
  req.state = "Post" /\ req.contentSize = 0 => completed

(* What the last Content-Length of a request says: it is the header read   *)
(* last or, if that is another one, it has been stored.                    *)
Announced(r) ==
  {Atoi(r.value) : n \in {r.name} \cap {<<"Content-Length">>}}
    \cup {Atoi(h[2]) : h \in {h \in r.headers : h[1] = <<"Content-Length">> /\ r.name # h[1]}}

(* While a body is read, what has been read of it and what is still        *)
(* awaited add up to the length announced last, as a size_t: however often *)
(* and in however many lines it was announced, and though a negative one   *)
(* becomes huge (http_request.cpp:224), none of the bytes before or after  *)
(* the body is counted.                                                    *)
BodyAsAnnounced ==
  req.state = "Post" =>
    {(Len(req.content) + req.contentSize) % SizeMod} = {n % SizeMod : n \in Announced(req)}

(* Only POST, PUT and DELETE requests get a body: whatever its headers     *)
(* announce, no byte a client sends after another request line ends up in  *)
(* body(), and no body is waited for.                                      *)
BodyOnlyForBodyMethods ==
  req.content # <<>> \/ req.contentSize # 0 \/ req.chunked => req.method \in BodyMethods

(* The request line is read once in the life of a connection: when the     *)
(* parser has left it, no later byte, be it of a later request, changes    *)
(* the method or the url handlers see, and the parser never goes back.     *)
RequestLineFrozen ==
  [][req.state \notin RequestLine =>
       /\ req'.state \notin RequestLine
       /\ req'.method = req.method /\ req'.url = req.url]_vars

=============================================================================
