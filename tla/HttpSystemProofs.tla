-------------------------- MODULE HttpSystemProofs --------------------------
(***************************************************************************)
(* Proofs about HttpSystem, for any client, any documents, any fragments   *)
(* and any number of other clients' requests: the whole program does on    *)
(* its connection what HttpConnection does and to its table what           *)
(* TableService does, so that what is proved of these holds of it; and     *)
(* from the bytes to the table it is an atomic store.                      *)
(***************************************************************************)
EXTENDS HttpSystem, SequenceTheorems, TLAPS

(* The components with what has been proved about them.                    *)
OneConnection == INSTANCE HttpConnectionProofs
OneService    == INSTANCE TableServiceProofs

-----------------------------------------------------------------------------
(* Connection and OneConnection, Service and OneService are instances of   *)
(* one module with the same parameters: their definitions are equal word   *)
(* by word.                                                                *)

LEMMA SameParseByte ==
  Connection!Request!ParseByte <=> OneConnection!Request!ParseByte
BY DEF
  Connection!Request!ParseByte, OneConnection!Request!ParseByte,
  Connection!Request!Digit, Connection!Request!Control,
  Connection!Request!Special, Connection!Request!Octet,
  Connection!Request!Byte, Connection!Request!Token, Connection!Request!Alnum,
  Connection!Request!RequestLine, Connection!Request!HeaderStates,
  Connection!Request!ChunkStates, Connection!Request!State,
  Connection!Request!Digits, Connection!Request!DigitValue,
  Connection!Request!Shift, Connection!Request!Atoi,
  Connection!Request!Strtol16, Connection!Request!Decrement,
  Connection!Request!NameOf, Connection!Request!BodyMethods,
  Connection!Request!WithHeader, Connection!Request!input,
  Connection!Request!Break, Connection!Request!Return,
  Connection!Request!RequestLineMoves, Connection!Request!HeaderMoves,
  Connection!Request!ChunkMoves, Connection!Request!TrailerMoves,
  Connection!Request!Moves, Connection!Request!RequestLineData,
  Connection!Request!HeaderData, Connection!Request!BodyData,
  Connection!Request!Takes, Connection!Request!ContinuesHeader,
  Connection!Request!Accepts, Connection!Request!At, Connection!Request!Move,
  Connection!Request!Reject, Connection!Request!RequestMethod,
  Connection!Request!RequestUrl, Connection!Request!SimpleRequest,
  Connection!Request!VersionSlash, Connection!Request!VersionMajor,
  Connection!Request!VersionMinor, Connection!Request!HeaderStart,
  Connection!Request!HeaderFold, Connection!Request!HeaderName,
  Connection!Request!HeaderValue, Connection!Request!Frames,
  Connection!Request!HeaderEnd, Connection!Request!KeepAlive,
  Connection!Request!CountsBody, Connection!Request!ExpectingNewline_3,
  Connection!Request!Post, Connection!Request!ChunkSize,
  Connection!Request!AfterSize, Connection!Request!ChunkSizeNewLine,
  Connection!Request!ChunkData, Connection!Request!LastChunk,
  OneConnection!Request!Digit, OneConnection!Request!Control,
  OneConnection!Request!Special, OneConnection!Request!Octet,
  OneConnection!Request!Byte, OneConnection!Request!Token,
  OneConnection!Request!Alnum, OneConnection!Request!RequestLine,
  OneConnection!Request!HeaderStates, OneConnection!Request!ChunkStates,
  OneConnection!Request!State, OneConnection!Request!Digits,
  OneConnection!Request!DigitValue, OneConnection!Request!Shift,
  OneConnection!Request!Atoi, OneConnection!Request!Strtol16,
  OneConnection!Request!Decrement, OneConnection!Request!NameOf,
  OneConnection!Request!BodyMethods, OneConnection!Request!WithHeader,
  OneConnection!Request!input, OneConnection!Request!Break,
  OneConnection!Request!Return, OneConnection!Request!RequestLineMoves,
  OneConnection!Request!HeaderMoves, OneConnection!Request!ChunkMoves,
  OneConnection!Request!TrailerMoves, OneConnection!Request!Moves,
  OneConnection!Request!RequestLineData, OneConnection!Request!HeaderData,
  OneConnection!Request!BodyData, OneConnection!Request!Takes,
  OneConnection!Request!ContinuesHeader, OneConnection!Request!Accepts,
  OneConnection!Request!At, OneConnection!Request!Move,
  OneConnection!Request!Reject, OneConnection!Request!RequestMethod,
  OneConnection!Request!RequestUrl, OneConnection!Request!SimpleRequest,
  OneConnection!Request!VersionSlash, OneConnection!Request!VersionMajor,
  OneConnection!Request!VersionMinor, OneConnection!Request!HeaderStart,
  OneConnection!Request!HeaderFold, OneConnection!Request!HeaderName,
  OneConnection!Request!HeaderValue, OneConnection!Request!Frames,
  OneConnection!Request!HeaderEnd, OneConnection!Request!KeepAlive,
  OneConnection!Request!CountsBody, OneConnection!Request!ExpectingNewline_3,
  OneConnection!Request!Post, OneConnection!Request!ChunkSize,
  OneConnection!Request!AfterSize, OneConnection!Request!ChunkSizeNewLine,
  OneConnection!Request!ChunkData, OneConnection!Request!LastChunk

LEMMA SameByte == Connection!Request!Byte = OneConnection!Request!Byte
BY DEF
  Connection!Request!Digit, Connection!Request!Control,
  Connection!Request!Special, Connection!Request!Octet,
  Connection!Request!Byte,
  OneConnection!Request!Digit, OneConnection!Request!Control,
  OneConnection!Request!Special, OneConnection!Request!Octet,
  OneConnection!Request!Byte

LEMMA SameMethod ==
  ASSUME NEW r
  PROVE  Connection!Request!Method(r) = OneConnection!Request!Method(r)
BY DEF
  Connection!Request!Method, Connection!Request!MethodNamed,
  Connection!Request!NameOf,
  OneConnection!Request!Method, OneConnection!Request!MethodNamed,
  OneConnection!Request!NameOf

LEMMA SameRouteOf ==
  ASSUME NEW method, NEW url
  PROVE  Connection!Router!RouteOf(Connection!Routes, method, url)
           = OneConnection!Router!RouteOf(OneConnection!Routes, method, url)
<1>2. Connection!Router!Path(url) = OneConnection!Router!Path(url)
  BY DEF Connection!Router!Path, OneConnection!Router!Path,
         Connection!Router!SelectInSeq, OneConnection!Router!SelectInSeq,
         Connection!Router!Min, OneConnection!Router!Min,
         Connection!Router!IsPrefix, OneConnection!Router!IsPrefix
<1>3. Connection!Routes = OneConnection!Routes
  BY DEF Connection!Routes, OneConnection!Routes,
         Connection!Router!MethodFlags, OneConnection!Router!MethodFlags,
         Connection!Router!AllMethods, OneConnection!Router!AllMethods,
         Connection!Router!StrToMethods, OneConnection!Router!StrToMethods,
         Connection!Router!HasValidMethods, OneConnection!Router!HasValidMethods,
         Connection!Router!AddRoute, OneConnection!Router!AddRoute,
         Connection!Router!RouteTable, OneConnection!Router!RouteTable
<1>4. \A route : Connection!Router!Matches(route, method, url)
                  <=> OneConnection!Router!Matches(route, method, url)
  BY <1>2 DEF Connection!Router!Matches, OneConnection!Router!Matches,
              Connection!Router!AllMethods, OneConnection!Router!AllMethods,
              Connection!Router!MethodBits, OneConnection!Router!MethodBits,
              Connection!Router!SubSeqs, OneConnection!Router!SubSeqs
<1> DEFINE routes == OneConnection!Routes
           matching == {i \in 1..Len(routes) : Connection!Router!Matches(routes[i], method, url)}
<1>5. matching = {i \in 1..Len(routes) : OneConnection!Router!Matches(routes[i], method, url)}
  BY <1>4
<1>6. Connection!Router!RouteOf(routes, method, url)
        = IF matching = {} THEN 0 ELSE Connection!Router!Min(matching)
  BY DEF Connection!Router!RouteOf, Connection!Router!SelectInSeq
<1>7. OneConnection!Router!RouteOf(routes, method, url)
        = IF matching = {} THEN 0 ELSE OneConnection!Router!Min(matching)
  BY <1>5 DEF OneConnection!Router!RouteOf, OneConnection!Router!SelectInSeq
<1> HIDE DEF matching
<1>8. Connection!Router!Min(matching) = OneConnection!Router!Min(matching)
  BY DEF Connection!Router!Min, OneConnection!Router!Min
<1> QED
  BY <1>3, <1>6, <1>7, <1>8

LEMMA SameReading ==
  ASSUME NEW bytes, NEW r, NEW c
  PROVE  /\ Connection!Request!Reading(bytes) = OneConnection!Request!Reading(bytes)
         /\ Connection!Request!Returns(r, c) <=> OneConnection!Request!Returns(r, c)
         /\ Connection!Request!RequestLine = OneConnection!Request!RequestLine
BY DEF
  Connection!Request!Digit, Connection!Request!Control,
  Connection!Request!Special, Connection!Request!Octet,
  Connection!Request!Byte, Connection!Request!Token, Connection!Request!Alnum,
  Connection!Request!Digits, Connection!Request!DigitValue,
  Connection!Request!Shift, Connection!Request!Atoi,
  Connection!Request!Strtol16, Connection!Request!Decrement,
  Connection!Request!NameOf, Connection!Request!BodyMethods,
  Connection!Request!WithHeader, Connection!Request!Fresh,
  Connection!Request!RequestLineMoves, Connection!Request!HeaderMoves,
  Connection!Request!ChunkMoves, Connection!Request!TrailerMoves,
  Connection!Request!Moves, Connection!Request!RequestLineData,
  Connection!Request!HeaderData, Connection!Request!BodyData,
  Connection!Request!Takes, Connection!Request!ContinuesHeader,
  Connection!Request!Accepts, Connection!Request!Frames,
  Connection!Request!KeepAlive, Connection!Request!CountsBody,
  Connection!Request!AfterSize, Connection!Request!AfterData,
  Connection!Request!AfterByte, Connection!Request!Returns,
  Connection!Request!Reading, OneConnection!Request!Digit,
  OneConnection!Request!Control, OneConnection!Request!Special,
  OneConnection!Request!Octet, OneConnection!Request!Byte,
  OneConnection!Request!Token, OneConnection!Request!Alnum,
  OneConnection!Request!Digits, OneConnection!Request!DigitValue,
  OneConnection!Request!Shift, OneConnection!Request!Atoi,
  OneConnection!Request!Strtol16, OneConnection!Request!Decrement,
  OneConnection!Request!NameOf, OneConnection!Request!BodyMethods,
  OneConnection!Request!WithHeader, OneConnection!Request!Fresh,
  OneConnection!Request!RequestLineMoves, OneConnection!Request!HeaderMoves,
  OneConnection!Request!ChunkMoves, OneConnection!Request!TrailerMoves,
  OneConnection!Request!Moves, OneConnection!Request!RequestLineData,
  OneConnection!Request!HeaderData, OneConnection!Request!BodyData,
  OneConnection!Request!Takes, OneConnection!Request!ContinuesHeader,
  OneConnection!Request!Accepts, OneConnection!Request!Frames,
  OneConnection!Request!KeepAlive, OneConnection!Request!CountsBody,
  OneConnection!Request!AfterSize, OneConnection!Request!AfterData,
  OneConnection!Request!AfterByte, OneConnection!Request!Returns,
  OneConnection!Request!Reading,
  Connection!Request!RequestLine, OneConnection!Request!RequestLine

LEMMA SameMeant ==
  ASSUME NEW request
  PROVE  /\ Connection!Meant(request) <=> OneConnection!Meant(request)
         /\ Connection!Simple(request) <=> OneConnection!Simple(request)
<1>1. \A name : Connection!Request!MethodNamed(name, "All")
                  = OneConnection!Request!MethodNamed(name, "All")
  BY DEF Connection!Request!MethodNamed, Connection!Request!NameOf,
         OneConnection!Request!MethodNamed, OneConnection!Request!NameOf
<1>2. \A bytes : Connection!Request!Reading(bytes) = OneConnection!Request!Reading(bytes)
  BY SameReading
<1>3. \A r, c : Connection!Request!Returns(r, c) <=> OneConnection!Request!Returns(r, c)
  BY SameReading
<1>4. \A method, url : Connection!Router!RouteOf(Connection!Routes, method, url)
                         = OneConnection!Router!RouteOf(OneConnection!Routes, method, url)
  BY SameRouteOf
<1>5. Connection!Request!RequestLine = OneConnection!Request!RequestLine
  BY SameReading
<1>6. Connection!Meant(request) <=> OneConnection!Meant(request)
  BY <1>1, <1>2, <1>3, <1>4 DEF Connection!Meant, OneConnection!Meant
<1>7. Connection!Simple(request) <=> OneConnection!Simple(request)
  BY <1>2, <1>5 DEF Connection!Simple, OneConnection!Simple
<1> QED
  BY <1>6, <1>7

LEMMA SameFirstMeant == Connection!FirstMeant <=> OneConnection!FirstMeant
BY SameMeant, SameByte DEF Connection!FirstMeant, OneConnection!FirstMeant

LEMMA SameConnection ==
  /\ Connection!Init <=> OneConnection!Init
  /\ Connection!ReadyRead <=> OneConnection!ReadyRead
  /\ Connection!Parse <=> OneConnection!Parse
  /\ Connection!HandleRequest <=> OneConnection!HandleRequest
<1>1. Connection!Init <=> OneConnection!Init
  BY DEF Connection!Init, OneConnection!Init, Connection!Request!Init,
         OneConnection!Request!Init, Connection!Request!Fresh, OneConnection!Request!Fresh,
         Connection!BytesOf, OneConnection!BytesOf,
         Connection!FlattenSeq, OneConnection!FlattenSeq, Connection!NoCall, OneConnection!NoCall
<1>2. Connection!ReadyRead <=> OneConnection!ReadyRead
  BY DEF Connection!ReadyRead, OneConnection!ReadyRead,
         Connection!Request!ReadAll, OneConnection!Request!ReadAll
<1>3. Connection!Parse <=> OneConnection!Parse
  BY SameParseByte DEF Connection!Parse, OneConnection!Parse
<1>4. Connection!HandleRequest <=> OneConnection!HandleRequest
  BY SameMethod, SameRouteOf
     DEF Connection!HandleRequest, OneConnection!HandleRequest, Connection!First,
         OneConnection!First, Connection!Router!Handled, OneConnection!Router!Handled
<1> QED
  BY <1>1, <1>2, <1>3, <1>4

LEMMA SameService ==
  ASSUME NEW doc
  PROVE  /\ Service!Init <=> OneService!Init
         /\ Service!GetApi <=> OneService!GetApi
         /\ Service!OtherMethod <=> OneService!OtherMethod
         /\ Service!TestPage <=> OneService!TestPage
         /\ Service!PostApi(doc) <=> OneService!PostApi(doc)
         /\ Service!PutApi(doc) <=> OneService!PutApi(doc)
         /\ Service!DeleteApi(doc) <=> OneService!DeleteApi(doc)
         /\ Service!Document = OneService!Document
<1>1. ASSUME NEW r, NEW t, NEW s
      PROVE  Service!WriteData(r, t, s) = OneService!WriteData(r, t, s)
  BY DEF
    Service!Number, Service!StatusLine, Service!HeaderLine, Service!EmptyLine,
    Service!BodyOf, Service!WriteItem, Service!WriteBody, Service!WriteData,
    OneService!Number, OneService!StatusLine, OneService!HeaderLine,
    OneService!EmptyLine, OneService!BodyOf, OneService!WriteItem,
    OneService!WriteBody, OneService!WriteData
<1>2. Service!NewResponder = OneService!NewResponder
  BY DEF Service!NewResponder, OneService!NewResponder
<1> USE DEF
  Service!Key, Service!Document, Service!HasId, Service!HasValue,
  Service!ToInt, Service!ToString, Service!KeyOf, Service!TableContains,
  Service!Log, Service!Text, Service!Listing, Service!Page, Service!Refuse,
  Service!RoomInLog,
  OneService!Key, OneService!Document, OneService!HasId, OneService!HasValue,
  OneService!ToInt, OneService!ToString, OneService!KeyOf,
  OneService!TableContains, OneService!Log, OneService!Text,
  OneService!Listing, OneService!Page, OneService!Refuse, OneService!RoomInLog
<1>3. Service!Init <=> OneService!Init
  BY DEF Service!Init, OneService!Init
<1>4. Service!GetApi <=> OneService!GetApi
  BY DEF Service!GetApi, OneService!GetApi,
    Service!Number, Service!StatusLine, Service!HeaderLine, Service!EmptyLine,
    Service!BodyOf, Service!NewResponder, Service!WriteItem, Service!WriteBody,
    Service!WriteJson,
    OneService!Number, OneService!StatusLine, OneService!HeaderLine,
    OneService!EmptyLine, OneService!BodyOf, OneService!NewResponder,
    OneService!WriteItem, OneService!WriteBody, OneService!WriteJson
<1>5. Service!OtherMethod <=> OneService!OtherMethod
  BY DEF Service!OtherMethod, OneService!OtherMethod
<1>6. Service!TestPage <=> OneService!TestPage
  BY <1>1, <1>2 DEF Service!TestPage, OneService!TestPage
<1>7. Service!PostApi(doc) <=> OneService!PostApi(doc)
  BY <1>1, <1>2 DEF Service!PostApi, OneService!PostApi
<1>8. Service!PutApi(doc) <=> OneService!PutApi(doc)
  BY <1>1, <1>2 DEF Service!PutApi, OneService!PutApi
<1>9. Service!DeleteApi(doc) <=> OneService!DeleteApi(doc)
  BY <1>1, <1>2 DEF Service!DeleteApi, OneService!DeleteApi
<1>10. Service!Document = OneService!Document
  OBVIOUS
<1> QED
  BY <1>3, <1>4, <1>5, <1>6, <1>7, <1>8, <1>9, <1>10

-----------------------------------------------------------------------------
(* The program does on its connection what HttpConnection does.            *)

LEMMA ConnectionStep == [Next]_vars => [OneConnection!Next]_(OneConnection!vars)
<1> SUFFICES ASSUME [Next]_vars PROVE [OneConnection!Next]_(OneConnection!vars)
  OBVIOUS
<1>1. CASE ReadyRead
  BY <1>1, SameConnection DEF ReadyRead, OneConnection!Next
<1>2. CASE Parse
  BY <1>2, SameConnection DEF Parse, OneConnection!Next
<1>3. CASE HandleRequest
  BY <1>3, SameConnection DEF HandleRequest, OneConnection!Next
<1>4. CASE OtherRequest \/ UNCHANGED vars
  BY <1>4 DEF OtherRequest, vars, OneConnection!vars
<1> QED
  BY <1>1, <1>2, <1>3, <1>4 DEF Next

(* A theorem about one connection is a theorem about the whole program.    *)
THEOREM ServesAConnection == Spec => OneConnection!Spec
<1>1. Init => OneConnection!Init
  BY SameConnection DEF Init
<1> QED
  BY <1>1, ConnectionStep, PTL DEF Spec, OneConnection!Spec

-----------------------------------------------------------------------------
(* The program does to its table what TableService does: no handler is     *)
(* called with anything but a document, whatever has been read of it.      *)

LEMMA FromJsonType == ASSUME NEW body PROVE FromJson(body) \in Service!Document
<1>1. NoDocument \in Service!Document
  BY ServiceAssumption DEF NoDocument, Service!Document
<1> QED
  BY <1>1, DocumentAssumption DEF FromJson

LEMMA ServiceStep == [Next]_vars => [OneService!Next]_(OneService!vars)
<1> SUFFICES ASSUME [Next]_vars PROVE [OneService!Next]_(OneService!vars)
  OBVIOUS
<1>1. ASSUME NEW doc \in Service!Document,
             Service!PostApi(doc) \/ Service!PutApi(doc) \/ Service!DeleteApi(doc)
      PROVE  OneService!Next
  BY <1>1, SameService DEF OneService!Next
<1>2. ASSUME Service!GetApi \/ Service!OtherMethod \/ Service!TestPage
      PROVE  OneService!Next
  BY <1>2, SameService DEF OneService!Next
<1>3. CASE HandleRequest
  <2>1. CASE Api(call'.method, call'.body)
    BY <1>1, <1>2, <2>1, FromJsonType DEF Api
  <2>2. CASE Service!TestPage
    BY <1>2, <2>2
  <2>3. CASE written' = <<>> /\ UNCHANGED <<table, transactionLog>>
    BY <1>2, <2>3 DEF Service!OtherMethod
  <2> QED
    BY <1>3, <2>1, <2>2, <2>3 DEF HandleRequest
<1>4. CASE OtherRequest
  BY <1>1, <1>4, DocumentAssumption DEF OtherRequest
<1>5. CASE ReadyRead \/ Parse \/ UNCHANGED vars
  BY <1>5 DEF ReadyRead, Parse, Shared, vars, OneService!vars
<1> QED
  BY <1>3, <1>4, <1>5 DEF Next

THEOREM ServesATable == Spec => OneService!Spec
<1>1. Init => OneService!Init
  BY SameService DEF Init
<1> QED
  BY <1>1, ServiceStep, PTL DEF Spec, OneService!Spec

-----------------------------------------------------------------------------
(* So the program keeps what its components promise.                       *)

LEMMA ServiceHolds ==
  OneService!Spec => /\ []OneService!TypeOK /\ []OneService!LogReflectsTable
                     /\ OneService!ChangesAreLogged /\ OneService!AnswersAgreeWithLog
                     /\ OneService!FirstAnswerTells
BY OneService!TypeCorrect, OneService!LogIsFaithful, OneService!NothingIsReplacedSilently,
   OneService!AnswersAndLogAgree, OneService!FirstAnswerIsTrue, ServiceAssumption, PTL

(* The log of the whole program is a faithful account of its table, no     *)
(* value is replaced silently, and the answers agree with the log, though  *)
(* handlers run after every fragment and for several clients.              *)
THEOREM TableIsKept ==
  Spec => /\ []OneService!LogReflectsTable /\ OneService!ChangesAreLogged
          /\ OneService!AnswersAgreeWithLog /\ OneService!FirstAnswerTells
<1> QED
  BY ServesATable, ServiceHolds, PTL

LEMMA ConnectionAssumed ==
  /\ OneConnection!Request!Abbreviated \subseteq Letter
  /\ Letter \cap (OneConnection!Request!Digit \cup OneConnection!Request!Control
                   \cup OneConnection!Request!Special \cup OneConnection!Request!Octet
                   \cup {".", "-", "#"}) = {}
  /\ Streams = {OneConnection!BytesOf(Dialogues[c]) : c \in DOMAIN Dialogues}
  /\ Registrations \in
       Seq([pattern : Seq(OneConnection!Request!Byte), methods : SUBSET STRING])
  /\ Streams \subseteq Seq(OneConnection!Request!Byte)
  /\ OneConnection!FirstMeant
<1>1. /\ Connection!Request!Abbreviated = OneConnection!Request!Abbreviated
      /\ Connection!Request!Digit = OneConnection!Request!Digit
      /\ Connection!Request!Control = OneConnection!Request!Control
      /\ Connection!Request!Special = OneConnection!Request!Special
      /\ Connection!Request!Octet = OneConnection!Request!Octet
  BY DEF Connection!Request!Abbreviated, OneConnection!Request!Abbreviated,
         Connection!Request!Digit, OneConnection!Request!Digit,
         Connection!Request!Control, OneConnection!Request!Control,
         Connection!Request!Special, OneConnection!Request!Special,
         Connection!Request!Octet, OneConnection!Request!Octet
<1>2. ASSUME NEW c
      PROVE  Connection!BytesOf(Dialogues[c]) = OneConnection!BytesOf(Dialogues[c])
  BY DEF Connection!BytesOf, OneConnection!BytesOf,
         Connection!FlattenSeq, OneConnection!FlattenSeq
<1>3. Streams = {OneConnection!BytesOf(Dialogues[c]) : c \in DOMAIN Dialogues}
  BY <1>2, ConnectionAssumption
<1> QED
  BY <1>1, <1>3, SameByte, SameFirstMeant, ConnectionAssumption

LEMMA ConnectionHolds ==
  OneConnection!Spec => []OneConnection!TypeOK /\ OneConnection!CallsOnlyGrow
<1>1. OneConnection!Spec => []OneConnection!TypeOK
  BY OneConnection!TypeCorrect, ConnectionAssumption, ConnectionAssumed
<1>2. OneConnection!Spec => OneConnection!CallsOnlyGrow
  BY OneConnection!CallsGrow, ConnectionAssumption, ConnectionAssumed
<1> QED
  BY <1>1, <1>2, PTL

THEOREM CallsGrow == Spec => OneConnection!CallsOnlyGrow
<1> QED
  BY ServesAConnection, ConnectionHolds, PTL

-----------------------------------------------------------------------------
(* Type correctness.                                                       *)

LEMMA SameTypes == Service!TypeOK <=> OneService!TypeOK
BY DEF Service!TypeOK, OneService!TypeOK, Service!Key, OneService!Key,
       Service!LogEntry, OneService!LogEntry, Service!Item, OneService!Item,
       Service!StatusCode, OneService!StatusCode, Service!Texts, OneService!Texts,
       Service!Message, OneService!Message, Service!Listings, OneService!Listings

-----------------------------------------------------------------------------
(* The connection's invariant, in the whole program.                       *)

LEMMA ConnectionInvariant == Spec => []OneConnection!ConnectionInv
<1>1. OneConnection!Spec => []OneConnection!ConnectionInv
  BY OneConnection!ConnectionInvariance, ConnectionAssumption, ConnectionAssumed
<1> QED
  BY <1>1, ServesAConnection, PTL

(* Of the first request and the call, what the connection guarantees.      *)
CallsAsMeant ==
  /\ call.when \in {"early", "first", "later"}
  /\ First.body \in Seq(Connection!Request!Byte)
  /\ call.body \in Seq(Connection!Request!Byte)
  /\ call.when # "early" => read >= Len(First.bytes)
  /\ call.when = "early" /\ call.body # <<>> =>
       /\ call.method = First.method /\ call.route = First.route
       /\ IsPrefix(call.body, First.body)
       /\ ~req.chunked => call.body # First.body
  /\ call.when = "first" =>
       /\ call.method = First.method /\ call.route = First.route
       /\ call.body = First.body
  /\ call.when = "later" =>
       /\ call.method = First.method /\ call.route = First.route
       /\ IsPrefix(First.body, call.body)
       /\ read > Len(First.bytes)

LEMMA CallsMeant == OneConnection!ConnectionInv => CallsAsMeant
<1>1. First = OneConnection!First
  BY DEF First, Connection!First, OneConnection!First
<1>2. \A s, t : OneConnection!IsPrefix(s, t) <=> IsPrefix(s, t)
  BY DEF OneConnection!IsPrefix, IsPrefix
<1> QED
  BY <1>1, <1>2, SameByte, OneConnection!CallFacts, ConnectionAssumption, ConnectionAssumed
     DEF OneConnection!ConnectionInv, CallsAsMeant

LEMMA StaysChunked ==
  ASSUME OneConnection!ConnectionInv, [Next]_vars, req.chunked
  PROVE  req'.chunked
BY ConnectionStep, OneConnection!ChunkedStays, ConnectionAssumption, ConnectionAssumed
   DEF OneConnection!ConnectionInv

(* A later call sees what an earlier one saw, and perhaps more.            *)
LEMMA BodiesGrow ==
  ASSUME OneConnection!ConnectionInv, [Next]_vars
  PROVE  IsPrefix(call.body, call'.body)
<1>1. OneConnection!IsPrefix(call.body, call'.body)
  BY ConnectionStep, OneConnection!GrowingStep, ConnectionAssumption, ConnectionAssumed
     DEF OneConnection!ConnectionInv
<1> QED
  BY <1>1 DEF OneConnection!IsPrefix, IsPrefix

-----------------------------------------------------------------------------
(* Which calls change the table, and how.                                  *)

Asks(route, method, doc) ==
  /\ route = 1
  /\ \/ method \in {"POST", "PUT"} /\ Service!HasId(doc) /\ Service!HasValue(doc)
     \/ method = "DELETE" /\ Service!HasId(doc)

ChangedBy(method, key, value) ==
  CASE method = "POST"   -> IF table[key] = Absent THEN [table EXCEPT ![key] = value] ELSE table
    [] method = "PUT"    -> [table EXCEPT ![key] = value]
    [] method = "DELETE" -> [table EXCEPT ![key] = Absent]

LEMMA HandlerEffect ==
  ASSUME NEW method, NEW body, transactionLog \in Seq(Service!LogEntry),
         Api(method, body)
  PROVE  LET doc == FromJson(body) IN
         IF Asks(1, method, doc)
           THEN /\ table' = ChangedBy(method, Service!KeyOf(Service!ToInt(doc)),
                                      Service!ToString(doc))
                /\ Len(transactionLog') = Len(transactionLog) + 1
           ELSE table' = table /\ transactionLog' = transactionLog
<1> DEFINE doc == FromJson(body)
           key == Service!ToInt(doc)
<1> HIDE DEF doc
<1>1. \A what, id : Service!Log(what, id) /\ id \in Id /\ what \in {"added", "modified", "deleted"}
        => Len(transactionLog') = Len(transactionLog) + 1
  <2> SUFFICES ASSUME NEW what \in {"added", "modified", "deleted"}, NEW id \in Id,
                      Service!Log(what, id)
               PROVE  Len(transactionLog') = Len(transactionLog) + 1
    OBVIOUS
  <2>1. [what |-> what, id |-> id] \in Service!LogEntry
    BY DEF Service!LogEntry
  <2> QED
    BY <2>1, AppendProperties DEF Service!Log
<1>2. doc \in Service!Document
  BY FromJsonType DEF doc
<1>3. key \in Id
  BY <1>2, ServiceAssumption DEF Service!ToInt, Service!Document
<1>4. CASE method = "POST" /\ Service!PostApi(doc)
  <2>1. CASE Service!HasId(doc) /\ Service!HasValue(doc)
    <3>1. Service!Log("added", key)
          /\ table' = IF Service!TableContains(key) THEN table
                      ELSE [table EXCEPT ![Service!KeyOf(key)] = Service!ToString(doc)]
      BY <1>4, <2>1 DEF Service!PostApi
    <3>2. Asks(1, method, doc)
      BY <1>4, <2>1 DEF Asks
    <3> QED
      BY <1>1, <1>3, <1>4, <3>1, <3>2 DEF ChangedBy, Service!TableContains, doc
  <2>2. CASE ~(Service!HasId(doc) /\ Service!HasValue(doc))
    BY <1>4, <2>2 DEF Service!PostApi, Service!Refuse, Asks, doc
  <2> QED
    BY <2>1, <2>2
<1>5. CASE method = "PUT" /\ Service!PutApi(doc)
  <2>1. CASE Service!HasId(doc) /\ Service!HasValue(doc)
    <3>1. (Service!Log("added", key) \/ Service!Log("modified", key))
          /\ table' = [table EXCEPT ![Service!KeyOf(key)] = Service!ToString(doc)]
      BY <1>5, <2>1 DEF Service!PutApi
    <3>2. Asks(1, method, doc)
      BY <1>5, <2>1 DEF Asks
    <3> QED
      BY <1>1, <1>3, <1>5, <3>1, <3>2 DEF ChangedBy, doc
  <2>2. CASE ~(Service!HasId(doc) /\ Service!HasValue(doc))
    BY <1>5, <2>2 DEF Service!PutApi, Service!Refuse, Asks, doc
  <2> QED
    BY <2>1, <2>2
<1>6. CASE method = "DELETE" /\ Service!DeleteApi(doc)
  <2>1. CASE Service!HasId(doc)
    <3>1. Service!Log("deleted", key)
          /\ table' = [table EXCEPT ![Service!KeyOf(key)] = Absent]
      BY <1>6, <2>1 DEF Service!DeleteApi
    <3>2. Asks(1, method, doc)
      BY <1>6, <2>1 DEF Asks
    <3> QED
      BY <1>1, <1>3, <1>6, <3>1, <3>2 DEF ChangedBy, doc
  <2>2. CASE ~Service!HasId(doc)
    BY <1>6, <2>2 DEF Service!DeleteApi, Service!Refuse, Asks, doc
  <2> QED
    BY <2>1, <2>2
<1>7. CASE method \in {"GET", "All"} /\ (Service!GetApi \/ Service!OtherMethod)
  BY <1>7 DEF Service!GetApi, Service!OtherMethod, Asks
<1> QED
  BY <1>4, <1>5, <1>6, <1>7 DEF Api, doc

LEMMA CallEffect ==
  ASSUME transactionLog \in Seq(Service!LogEntry), own \in Int, HandleRequest
  PROVE  LET doc == FromJson(call'.body) IN
         IF Asks(call'.route, call'.method, doc)
           THEN /\ table' = ChangedBy(call'.method, Service!KeyOf(Service!ToInt(doc)),
                                      Service!ToString(doc))
                /\ own' = own + 1
           ELSE table' = table /\ own' = own
<1>1. Len(transactionLog) \in Nat /\ own' = own + Len(transactionLog') - Len(transactionLog)
  BY LenProperties DEF HandleRequest
<1>2. CASE call'.route = 1 /\ Api(call'.method, call'.body)
  <2> DEFINE doc == FromJson(call'.body)
  <2>1. IF Asks(call'.route, call'.method, doc)
          THEN /\ table' = ChangedBy(call'.method, Service!KeyOf(Service!ToInt(doc)),
                                     Service!ToString(doc))
               /\ Len(transactionLog') = Len(transactionLog) + 1
          ELSE table' = table /\ transactionLog' = transactionLog
    BY <1>2, HandlerEffect
  <2> HIDE DEF doc
  <2>2. CASE Asks(call'.route, call'.method, doc)
    <3>1. own' = own + 1
      BY <1>1, <2>1, <2>2
    <3> QED
      BY <2>1, <2>2, <3>1 DEF doc
  <2>3. CASE ~Asks(call'.route, call'.method, doc)
    <3>1. Len(transactionLog') = Len(transactionLog)
      BY <2>1, <2>3
    <3>2. own' = own
      BY <1>1, <3>1
    <3> QED
      BY <2>1, <2>3, <3>2 DEF doc
  <2> QED
    BY <2>2, <2>3
<1>3. CASE call'.route # 1 /\ UNCHANGED <<table, transactionLog>>
  <2>1. Len(transactionLog') = Len(transactionLog)
    BY <1>3
  <2>2. own' = own
    BY <1>1, <2>1
  <2> QED
    BY <1>3, <2>2 DEF Asks
<1> QED
  BY <1>2, <1>3 DEF HandleRequest, Service!TestPage

(* Nothing that is no document asks for a change.                          *)
LEMMA AsksWithDocument ==
  ASSUME NEW route, NEW method, NEW body, Asks(route, method, FromJson(body))
  PROVE  body \in DOMAIN JsonTable /\ body # <<>> /\ FromJson(body) = JsonTable[body]
         /\ method \in {"POST", "PUT", "DELETE"}
<1>1. ~Service!HasId(NoDocument)
  BY DEF Service!HasId, NoDocument
<1> QED
  BY <1>1, JsonAssumption DEF Asks, FromJson

-----------------------------------------------------------------------------
(* The document of the first request.                                      *)

LEMMA PrefixElements ==
  ASSUME NEW S, NEW s \in Seq(S), NEW t \in Seq(S)
  PROVE  IsPrefix(s, t) <=> Len(s) <= Len(t) /\ \A i \in 1..Len(s) : s[i] = t[i]
<1> DEFINE n == Len(s)
<1>1. n \in Nat /\ Len(t) \in Nat
  BY LenProperties
<1>2. CASE n <= Len(t)
  <2>1. SubSeq(s, 1, n) = [i \in 1..n |-> s[i]] /\ SubSeq(t, 1, n) = [i \in 1..n |-> t[i]]
    BY <1>1, <1>2
  <2>2. SubSeq(s, 1, n) = SubSeq(t, 1, n) <=> \A i \in 1..n : s[i] = t[i]
    <3> DEFINE f == [i \in 1..n |-> s[i]]
               g == [i \in 1..n |-> t[i]]
    <3>1. ASSUME f = g, NEW i \in 1..n PROVE s[i] = t[i]
      <4>1. f[i] = g[i]
        BY <3>1
      <4> QED
        BY <4>1
    <3>2. (\A i \in 1..n : s[i] = t[i]) => f = g
      OBVIOUS
    <3> HIDE DEF f, g, n
    <3>3. f = g <=> \A i \in 1..n : s[i] = t[i]
      BY <3>1, <3>2
    <3> QED
      BY <2>1, <3>3 DEF f, g
  <2> QED
    BY <1>2, <2>2 DEF IsPrefix
<1>3. CASE ~(n <= Len(t))
  BY <1>3 DEF IsPrefix
<1> QED
  BY <1>2, <1>3

(* Of two beginnings of a sequence one is a beginning of the other, and a  *)
(* beginning of a beginning is one.                                        *)
LEMMA PrefixOrder ==
  ASSUME NEW S, NEW s \in Seq(S), NEW t \in Seq(S), NEW u \in Seq(S)
  PROVE  /\ IsPrefix(s, u) /\ IsPrefix(t, u) => IsPrefix(s, t) \/ IsPrefix(t, s)
         /\ IsPrefix(s, t) /\ IsPrefix(t, u) => IsPrefix(s, u)
         /\ IsPrefix(s, s)
<1>1. Len(s) \in Nat /\ Len(t) \in Nat /\ Len(u) \in Nat
  BY LenProperties
<1>2. ASSUME IsPrefix(s, u), IsPrefix(t, u) PROVE IsPrefix(s, t) \/ IsPrefix(t, s)
  <2>1. (\A i \in 1..Len(s) : s[i] = u[i]) /\ (\A i \in 1..Len(t) : t[i] = u[i])
    BY <1>2, PrefixElements
  <2>2. CASE Len(s) <= Len(t)
    <3>1. \A i \in 1..Len(s) : s[i] = t[i]
      BY <1>1, <2>1, <2>2
    <3> QED
      BY <2>2, <3>1, PrefixElements
  <2>3. CASE Len(t) <= Len(s)
    <3>1. \A i \in 1..Len(t) : t[i] = s[i]
      BY <1>1, <2>1, <2>3
    <3> QED
      BY <2>3, <3>1, PrefixElements
  <2> QED
    BY <1>1, <2>2, <2>3
<1>3. ASSUME IsPrefix(s, t), IsPrefix(t, u) PROVE IsPrefix(s, u)
  <2>1. /\ Len(s) <= Len(t) /\ \A i \in 1..Len(s) : s[i] = t[i]
        /\ Len(t) <= Len(u) /\ \A i \in 1..Len(t) : t[i] = u[i]
    BY <1>3, PrefixElements
  <2>2. Len(s) <= Len(u) /\ \A i \in 1..Len(s) : s[i] = u[i]
    BY <1>1, <2>1
  <2> QED
    BY <2>2, PrefixElements
<1>4. IsPrefix(s, s)
  BY <1>1, PrefixElements
<1> QED
  BY <1>2, <1>3, <1>4

LEMMA DocumentsAre ==
  client \in DOMAIN Dialogues =>
    Documents = {b \in DOMAIN JsonTable : IsPrefix(b, First.body)}
BY DEF Documents, DocumentsIn, First, Connection!First

(* Its body, a part of it and what goes on with bytes of later requests,   *)
(* if they are documents, are that document.                               *)
LEMMA OneDocument ==
  ASSUME client \in DOMAIN Dialogues, First.body \in Seq(Connection!Request!Byte),
         NEW body \in DOMAIN JsonTable
  PROVE  /\ IsPrefix(body, First.body) => body \in Documents
         /\ (IsPrefix(body, First.body) \/ IsPrefix(First.body, body)) /\ Documents # {}
              => Document = JsonTable[body]
<1>1. Documents = {b \in DOMAIN JsonTable : IsPrefix(b, First.body)}
  BY DocumentsAre
<1>2. \A b \in DOMAIN JsonTable : b \in Seq(Connection!Request!Byte)
  BY JsonAssumption
<1>3. \A b, c \in DOMAIN JsonTable : IsPrefix(b, c) => JsonTable[b] = JsonTable[c]
  BY JsonAssumption
<1>4. ASSUME NEW b \in Documents, IsPrefix(body, First.body) \/ IsPrefix(First.body, body)
      PROVE  JsonTable[b] = JsonTable[body]
  <2>1. b \in DOMAIN JsonTable /\ IsPrefix(b, First.body)
    BY <1>1
  <2>2. IsPrefix(b, body) \/ IsPrefix(body, b)
    BY <1>2, <1>4, <2>1, PrefixOrder
  <2> QED
    BY <1>3, <2>1, <2>2
<1>5. ASSUME Documents # {}, IsPrefix(body, First.body) \/ IsPrefix(First.body, body)
      PROVE  Document = JsonTable[body]
  <2> DEFINE chosen == CHOOSE b \in Documents : TRUE
  <2>1. chosen \in Documents /\ Document = JsonTable[chosen]
    BY <1>5 DEF Document
  <2> HIDE DEF chosen
  <2> QED
    BY <1>4, <1>5, <2>1
<1>6. IsPrefix(body, First.body) => body \in Documents
  BY <1>1
<1> QED
  BY <1>5, <1>6

LEMMA DocumentType == client \in DOMAIN Dialogues => Document \in Service!Document
<1>1. NoDocument \in Service!Document
  BY ServiceAssumption DEF NoDocument, Service!Document
<1>2. ASSUME Documents # {}, client \in DOMAIN Dialogues PROVE Document \in Service!Document
  <2>1. Documents \subseteq DOMAIN JsonTable
    BY <1>2, DocumentsAre
  <2>2. Document = JsonTable[CHOOSE b \in Documents : TRUE]
    BY <1>2 DEF Document
  <2> QED
    BY <1>2, <2>1, <2>2, DocumentAssumption
<1> QED
  BY <1>1, <1>2 DEF Document

-----------------------------------------------------------------------------
(* A change is made by a call that is as the request was meant.            *)

LEMMA AskingCall ==
  ASSUME CallsAsMeant, Asks(call.route, call.method, FromJson(call.body))
  PROVE  /\ call.body \in DOMAIN JsonTable /\ FromJson(call.body) = JsonTable[call.body]
         /\ call.method = First.method /\ call.route = First.route
         /\ call.method \in {"POST", "PUT", "DELETE"}
         /\ call.when # "later" => IsPrefix(call.body, First.body)
         /\ IsPrefix(call.body, First.body) \/ IsPrefix(First.body, call.body)
<1>1. /\ call.body \in DOMAIN JsonTable /\ call.body # <<>>
      /\ FromJson(call.body) = JsonTable[call.body]
      /\ call.method \in {"POST", "PUT", "DELETE"}
  BY AsksWithDocument
<1>2. First.body \in Seq(Connection!Request!Byte) /\ call.body \in Seq(Connection!Request!Byte)
  BY DEF CallsAsMeant
<1> QED
  BY <1>1, <1>2, PrefixOrder DEF CallsAsMeant

LEMMA ChangeIsMeant ==
  ASSUME CallsAsMeant, client \in DOMAIN Dialogues, ~Unfinished,
         Asks(call.route, call.method, FromJson(call.body))
  PROVE  /\ Changes /\ call.method = First.method
         /\ Document = FromJson(call.body)
<1>1. First.body \in Seq(Connection!Request!Byte)
  BY DEF CallsAsMeant
<1>2. Documents # {}
  BY AskingCall DEF Unfinished
<1>3. Document = JsonTable[call.body]
  BY <1>1, <1>2, AskingCall, OneDocument
<1>4. Changes
  BY <1>3, AskingCall DEF Changes, Asks
<1> QED
  BY <1>3, <1>4, AskingCall

(* Up to the end of the request it is one the request asks for, and all of *)
(* its document has been read.                                             *)
LEMMA ChangeIsRead ==
  ASSUME CallsAsMeant, client \in DOMAIN Dialogues, call.when # "later",
         Asks(call.route, call.method, FromJson(call.body))
  PROVE  Changes /\ DocumentRead
<1>1. First.body \in Seq(Connection!Request!Byte) /\ call.body \in Seq(Connection!Request!Byte)
  BY DEF CallsAsMeant
<1>2. call.body \in Documents
  BY <1>1, AskingCall, OneDocument
<1>3. DocumentRead
  BY <1>1, <1>2, PrefixOrder DEF DocumentRead
<1>4. Changes
  BY <1>2, ChangeIsMeant DEF Unfinished
<1> QED
  BY <1>3, <1>4

(* A handler called too early finds no document in a body that is not      *)
(* chunked and has nothing behind its document.                            *)
LEMMA EarlyAsksNothing ==
  ASSUME CallsAsMeant, client \in DOMAIN Dialogues, call.when = "early",
         ~req.chunked, ~Trailing
  PROVE  ~Asks(call.route, call.method, FromJson(call.body))
<1> SUFFICES ASSUME Asks(call.route, call.method, FromJson(call.body)) PROVE FALSE
  OBVIOUS
<1>1. call.body \in DOMAIN JsonTable /\ call.body # <<>>
  BY AsksWithDocument
<1>2. IsPrefix(call.body, First.body) /\ call.body # First.body
  BY <1>1 DEF CallsAsMeant
<1>3. First.body \in Seq(Connection!Request!Byte)
  BY DEF CallsAsMeant
<1>4. call.body \in Documents
  BY <1>1, <1>2, <1>3, OneDocument
<1> QED
  BY <1>2, <1>4 DEF Trailing

(* When the request is complete the handler does what it asks for.         *)
LEMMA FirstAsksForChange ==
  ASSUME CallsAsMeant, client \in DOMAIN Dialogues, call.when = "first",
         ~Trailing \/ First.body \in DOMAIN JsonTable
  PROVE  Asks(call.route, call.method, FromJson(call.body)) <=> Changes
<1>1. /\ call.method = First.method /\ call.route = First.route /\ call.body = First.body
      /\ First.body \in Seq(Connection!Request!Byte)
  BY DEF CallsAsMeant
<1>2. FromJson(call.body) = Document
  <2>1. CASE First.body \in DOMAIN JsonTable
    <3>1. IsPrefix(First.body, First.body)
      BY <1>1, PrefixOrder
    <3> QED
      BY <1>1, <2>1, <3>1, OneDocument DEF FromJson
  <2>2. CASE First.body \notin DOMAIN JsonTable
    <3>1. Documents = {}
      <4> SUFFICES ASSUME NEW b \in Documents PROVE FALSE
        OBVIOUS
      <4>1. b \in DOMAIN JsonTable
        BY DocumentsAre
      <4> QED
        BY <2>2, <4>1 DEF Trailing
    <3> QED
      BY <1>1, <2>2, <3>1 DEF FromJson, Document
  <2> QED
    BY <2>1, <2>2
<1> QED
  BY <1>1, <1>2 DEF Asks, Changes

-----------------------------------------------------------------------------
(* What holds in every state, so far.                                      *)

Counted == own \in Nat /\ others \in Int

Known == OneConnection!ConnectionInv /\ OneService!TypeOK /\ Counted

LEMMA KnownInvariance == Spec => []Known
<1>1. OneService!TypeOK => Len(transactionLog) \in Nat
  BY LenProperties DEF OneService!TypeOK
<1>2. Init => Counted
  BY DEF Init, Counted
<1>3. Counted /\ OneService!TypeOK /\ OneService!TypeOK' /\ [Next]_vars => Counted'
  <2> SUFFICES ASSUME Counted, OneService!TypeOK, OneService!TypeOK', [Next]_vars
               PROVE  Counted'
    OBVIOUS
  <2>1. Len(transactionLog) \in Nat
    BY <1>1
  <2>2. Len(transactionLog') \in Nat
    BY LenProperties DEF OneService!TypeOK
  <2>3. CASE HandleRequest
    <3>1. transactionLog \in Seq(Service!LogEntry)
      BY SameTypes DEF Service!TypeOK
    <3>2. own' = own \/ own' = own + 1
      BY <2>3, <3>1, CallEffect DEF Counted
    <3> QED
      BY <2>3, <3>2 DEF Counted, HandleRequest
  <2>4. CASE OtherRequest
    BY <2>1, <2>2, <2>4 DEF Counted, OtherRequest
  <2>5. CASE ReadyRead \/ Parse \/ UNCHANGED vars
    BY <2>5 DEF Counted, ReadyRead, Parse, Shared, vars
  <2> QED
    BY <2>3, <2>4, <2>5 DEF Next
<1>4. OneConnection!ConnectionInv /\ OneService!TypeOK /\ Counted => Known
  BY DEF Known
<1> QED
  BY <1>2, <1>3, <1>4, ConnectionInvariant, ServesATable, ServiceHolds, PTL DEF Spec

LEMMA KnownFacts ==
  ASSUME Known
  PROVE  /\ CallsAsMeant /\ client \in DOMAIN Dialogues
         /\ transactionLog \in Seq(Service!LogEntry)
         /\ table \in [Service!Key -> Value \cup {Absent}]
         /\ own \in Nat /\ others \in Int
<1>1. Service!TypeOK
  BY SameTypes DEF Known
<1> QED
  BY <1>1, CallsMeant
     DEF Known, Counted, Service!TypeOK, OneConnection!ConnectionInv, OneConnection!IInv,
         OneConnection!TypeOK

(* What a call asks for is nothing, or what the request does.              *)
CallsAskAsMeant ==
  LET asks == Asks(call.route, call.method, FromJson(call.body)) IN
  /\ call.body \in Seq(Connection!Request!Byte)
  /\ call.when = "early" /\ ~req.chunked /\ ~Trailing => ~asks
  /\ call.when = "first" /\ First.body \in DOMAIN JsonTable => (asks <=> Changes)
  /\ asks /\ call.when # "later" => Changes /\ DocumentRead
  /\ asks =>
       /\ call.body \in DOMAIN JsonTable /\ FromJson(call.body) = JsonTable[call.body]
       /\ call.method = First.method /\ call.route = First.route
  /\ asks /\ ~Unfinished =>
       Changes /\ call.method = First.method /\ Document = FromJson(call.body)
  /\ call.when = "later" => read > Len(First.bytes)

LEMMA CallsAsk == Known => CallsAskAsMeant
<1> SUFFICES ASSUME Known PROVE CallsAskAsMeant
  OBVIOUS
<1>1. CallsAsMeant /\ client \in DOMAIN Dialogues
  BY KnownFacts
<1> QED
  BY <1>1, EarlyAsksNothing, FirstAsksForChange, ChangeIsRead, AskingCall, ChangeIsMeant
     DEF CallsAskAsMeant, CallsAsMeant

(* The client and what it asks for do not change.                          *)
LEMMA ClientStays ==
  ASSUME [Next]_vars
  PROVE  /\ client' = client /\ First' = First /\ Documents' = Documents
         /\ Document' = Document /\ Key' = Key
         /\ Trailing' = Trailing /\ Changes' = Changes /\ Unfinished' = Unfinished
<1>1. client' = client
  BY DEF Next, ReadyRead, Parse, HandleRequest, OtherRequest, Connection!ReadyRead,
         Connection!Parse, Connection!HandleRequest, vars
<1>2. First' = First /\ Documents' = Documents
  BY <1>1 DEF First, Connection!First, Documents
<1>3. Document' = Document
  BY <1>2 DEF Document
<1>4. Key' = Key
  BY <1>3 DEF Key
<1>5. Trailing' = Trailing
  BY <1>2 DEF Trailing
<1>6. Changes' = Changes
  BY <1>2, <1>3 DEF Changes
<1>7. Unfinished' = Unfinished
  BY <1>2 DEF Unfinished
<1> QED
  BY <1>1, <1>2, <1>3, <1>4, <1>5, <1>6, <1>7

(* A call is early only if those before it were, and the first complete    *)
(* one comes right after them.                                             *)
LEMMA CallOrder ==
  ASSUME Known, HandleRequest
  PROVE  call'.when \in {"early", "first"} => call.when = "early"
<1>1. call'.when = IF read < Len(First.bytes) THEN "early"
                   ELSE IF call.when = "early" THEN "first" ELSE "later"
  BY DEF HandleRequest, Connection!HandleRequest, First
<1>2. call.when # "early" => read >= Len(First.bytes)
  BY KnownFacts DEF CallsAsMeant
<1>3. read \in Nat /\ Len(First.bytes) \in Nat
  <2>1. First.bytes \in Seq(Connection!Request!Byte)
    BY SameByte, KnownFacts, OneConnection!ClientFacts, ConnectionAssumption, ConnectionAssumed
       DEF OneConnection!Bytes, First, Connection!First, OneConnection!First
  <2> QED
    BY <2>1, LenProperties DEF Known, OneConnection!ConnectionInv, OneConnection!IInv
<1> QED
  BY <1>1, <1>2, <1>3

-----------------------------------------------------------------------------
(* A document that has been read stays read.                               *)
LEMMA StaysRead ==
  ASSUME Known, [Next]_vars, DocumentRead, call'.body \in Seq(Connection!Request!Byte)
  PROVE  DocumentRead'
<1>1. PICK b \in Documents : IsPrefix(b, call.body)
  BY DEF DocumentRead
<1>2. b \in Seq(Connection!Request!Byte) /\ call.body \in Seq(Connection!Request!Byte)
  BY KnownFacts, DocumentsAre, JsonAssumption DEF CallsAsMeant
<1>3. IsPrefix(b, call'.body)
  BY <1>1, <1>2, BodiesGrow, PrefixOrder DEF Known
<1> QED
  BY <1>3, ClientStays DEF DocumentRead

-----------------------------------------------------------------------------
(* An incomplete request has no effect and a complete one has it once.     *)

LEMMA AppliedStep ==
  ASSUME Known, CallsAskAsMeant', AppliedOnce, [Next]_vars
  PROVE  AppliedOnce'
<1>1. Trailing' = Trailing /\ Changes' = Changes /\ First' = First
  BY ClientStays
<1>2. req.chunked => req'.chunked
  BY StaysChunked DEF Known
<1>3. own \in Nat
  BY KnownFacts
<1>4. DocumentRead => DocumentRead'
  <2>1. call'.body \in Seq(Connection!Request!Byte)
    BY DEF CallsAskAsMeant
  <2> QED
    BY <2>1, StaysRead
<1>5. CASE HandleRequest
  <2> DEFINE asks == Asks(call'.route, call'.method, FromJson(call'.body))
  <2>1. call'.when \in {"early", "first"} => call.when = "early"
    BY <1>5, CallOrder
  <2>2. IF asks THEN own' = own + 1 ELSE own' = own
    BY <1>5, KnownFacts, CallEffect
  <2>3. /\ call'.when = "early" /\ ~req'.chunked /\ ~Trailing => ~asks
        /\ call'.when = "first" /\ First.body \in DOMAIN JsonTable => (asks <=> Changes)
        /\ asks /\ call'.when # "later" => Changes /\ DocumentRead'
    BY <1>1 DEF CallsAskAsMeant, Asks, FromJson
  <2>4. call'.when \in {"early", "first", "later"}
    BY <1>5 DEF HandleRequest, Connection!HandleRequest
  <2> HIDE DEF asks
  <2>5. ASSUME call'.when # "later", own' > 0 PROVE Changes /\ DocumentRead'
    <3>1. CASE asks
      BY <2>3, <2>5, <3>1
    <3>2. CASE ~asks
      BY <1>4, <2>1, <2>2, <2>4, <2>5, <3>2 DEF AppliedOnce
    <3> QED
      BY <3>1, <3>2
  <2>6. ASSUME call'.when = "first", Changes, First.body \in DOMAIN JsonTable
        PROVE  own' > 0
    BY <1>3, <2>2, <2>3, <2>6
  <2>7. ASSUME ~req'.chunked, ~Trailing
        PROVE  /\ call'.when = "early" => own' = 0
               /\ call'.when = "first" => own' <= 1
    <3>1. call.when = "early" => own = 0
      BY <1>2, <2>7 DEF AppliedOnce
    <3> QED
      BY <2>1, <2>2, <2>3, <2>7, <3>1
  <2> QED
    BY <1>1, <2>5, <2>6, <2>7 DEF AppliedOnce
<1>6. CASE ReadyRead \/ Parse \/ OtherRequest \/ UNCHANGED vars
  <2>1. own' = own /\ call' = call
    BY <1>6 DEF ReadyRead, Parse, OtherRequest, vars, Shared, Connection!ReadyRead,
      Connection!Parse
  <2> QED
    BY <1>1, <1>2, <1>4, <2>1 DEF AppliedOnce
<1> QED
  BY <1>5, <1>6 DEF Next

(* However a request is cut, and whatever others do meanwhile: nothing is  *)
(* done before its document has been read, nothing it does not ask for,    *)
(* and what it asks for is done when it is complete, once unless it is     *)
(* chunked or has something behind its document.                           *)
THEOREM RequestsAppliedOnce == Spec => []AppliedOnce
<1>1. Init => AppliedOnce
  BY DEF Init, Connection!Init, Connection!NoCall, AppliedOnce
<1>2. Known /\ CallsAskAsMeant' /\ AppliedOnce /\ [Next]_vars => AppliedOnce'
  BY AppliedStep
<1> QED
  BY <1>1, <1>2, CallsAsk, KnownInvariance, PTL DEF Spec

-----------------------------------------------------------------------------
(* Handlers run again for the same request change nothing.  While the last *)
(* log entry is due to this client, the table shows what the entry's call  *)
(* asked for; its document is a part of the body of every later call, so   *)
(* these ask for the same.                                                 *)

Done(store, method, doc) ==
  LET key == Service!KeyOf(Service!ToInt(doc)) IN
  /\ method = "POST" => store[key] # Absent
  /\ method = "PUT" => store[key] = Service!ToString(doc)
  /\ method = "DELETE" => store[key] = Absent

Settled ==
  latest = "own" =>
    \E b \in DOMAIN JsonTable : IsPrefix(b, call.body) /\ Done(table, First.method, JsonTable[b])

LEMMA DocumentKey ==
  ASSUME NEW doc \in Service!Document
  PROVE  Service!KeyOf(Service!ToInt(doc)) \in Service!Key /\ Service!ToString(doc) \in Value
<1>1. Service!ToInt(doc) \in Int
  BY ServiceAssumption DEF Service!ToInt, Service!Document
<1>2. KeyMod \in Nat \ {0}
  BY ServiceAssumption
<1>3. \A n \in Int : n % KeyMod \in 0..(KeyMod - 1)
  BY <1>2
<1>4. Service!ToString(doc) \in Value
  BY ServiceAssumption DEF Service!ToString, Service!Document
<1> QED
  BY <1>1, <1>3, <1>4 DEF Service!KeyOf, Service!Key

LEMMA JsonIsDocument ==
  ASSUME NEW body \in DOMAIN JsonTable
  PROVE  Service!KeyOf(Service!ToInt(JsonTable[body])) \in Service!Key
         /\ Service!ToString(JsonTable[body]) \in Value
BY DocumentAssumption, DocumentKey

(* What has been asked for is what the table shows.                        *)
LEMMA ChangedIsDone ==
  ASSUME table \in [Service!Key -> Value \cup {Absent}],
         NEW method \in {"POST", "PUT", "DELETE"}, NEW body \in DOMAIN JsonTable,
         table' = ChangedBy(method, Service!KeyOf(Service!ToInt(JsonTable[body])),
                            Service!ToString(JsonTable[body]))
  PROVE  Done(table', method, JsonTable[body])
<1> DEFINE key == Service!KeyOf(Service!ToInt(JsonTable[body]))
           value == Service!ToString(JsonTable[body])
<1>1. key \in Service!Key /\ value \in Value /\ Absent \notin Value
  BY JsonIsDocument, ServiceAssumption
<1>2. table' = ChangedBy(method, key, value)
  OBVIOUS
<1> HIDE DEF key, value
<1>3. /\ method = "POST" => table'[key] # Absent
      /\ method = "PUT" => table'[key] = value
      /\ method = "DELETE" => table'[key] = Absent
  BY <1>1, <1>2 DEF ChangedBy
<1> QED
  BY <1>3 DEF Done, key, value

(* What the table shows already changes nothing when it is asked for.      *)
LEMMA DoneIsUnchanged ==
  ASSUME table \in [Service!Key -> Value \cup {Absent}],
         NEW method \in {"POST", "PUT", "DELETE"}, NEW body \in DOMAIN JsonTable,
         Done(table, method, JsonTable[body])
  PROVE  ChangedBy(method, Service!KeyOf(Service!ToInt(JsonTable[body])),
                   Service!ToString(JsonTable[body])) = table
<1> DEFINE key == Service!KeyOf(Service!ToInt(JsonTable[body]))
           value == Service!ToString(JsonTable[body])
<1>1. key \in Service!Key
  BY JsonIsDocument
<1>2. /\ method = "POST" => table[key] # Absent
      /\ method = "PUT" => table[key] = value
      /\ method = "DELETE" => table[key] = Absent
  BY DEF Done
<1> HIDE DEF key, value
<1>3. ChangedBy(method, key, value) = table
  BY <1>1, <1>2 DEF ChangedBy
<1> QED
  BY <1>3 DEF key, value

(* The requests of other clients that are not logged change nothing.       *)
LEMMA UnloggedChangesNothing ==
  ASSUME transactionLog \in Seq(Service!LogEntry), others \in Int, OtherRequest, others' = others
  PROVE  table' = table
<1>1. PICK doc \in OtherDocuments :
        Service!PostApi(doc) \/ Service!PutApi(doc) \/ Service!DeleteApi(doc)
  BY DEF OtherRequest
<1>2. Service!ToInt(doc) \in Id
  BY DocumentAssumption, ServiceAssumption DEF Service!ToInt, Service!Document
<1>3. \A what \in {"added", "modified", "deleted"} :
        Service!Log(what, Service!ToInt(doc)) => Len(transactionLog') = Len(transactionLog) + 1
  <2> SUFFICES ASSUME NEW what \in {"added", "modified", "deleted"},
                      Service!Log(what, Service!ToInt(doc))
               PROVE  Len(transactionLog') = Len(transactionLog) + 1
    OBVIOUS
  <2>1. [what |-> what, id |-> Service!ToInt(doc)] \in Service!LogEntry
    BY <1>2 DEF Service!LogEntry
  <2> QED
    BY <2>1, AppendProperties DEF Service!Log
<1>4. Len(transactionLog) \in Nat
  BY LenProperties
<1>5. ~(Len(transactionLog') = Len(transactionLog) + 1)
  BY <1>4 DEF OtherRequest
<1>6. \/ table' = table
      \/ \E what \in {"added", "modified", "deleted"} : Service!Log(what, Service!ToInt(doc))
  BY <1>1 DEF Service!PostApi, Service!PutApi, Service!DeleteApi, Service!Refuse
<1> QED
  BY <1>3, <1>5, <1>6

(* What a call asks for has been done when the last entry is this client's.*)
LEMMA SettledIsDone ==
  ASSUME Known, Settled, latest = "own", HandleRequest, call'.body \in DOMAIN JsonTable
  PROVE  Done(table, First.method, JsonTable[call'.body])
<1>1. PICK b \in DOMAIN JsonTable : IsPrefix(b, call.body) /\ Done(table, First.method, JsonTable[b])
  BY DEF Settled
<1>2. /\ b \in Seq(Connection!Request!Byte) /\ call.body \in Seq(Connection!Request!Byte)
      /\ call'.body \in Seq(Connection!Request!Byte)
  BY KnownFacts, JsonAssumption DEF CallsAsMeant
<1>3. IsPrefix(call.body, call'.body)
  BY BodiesGrow DEF Known, Next
<1>4. IsPrefix(b, call'.body)
  BY <1>1, <1>2, <1>3, PrefixOrder
<1>5. JsonTable[b] = JsonTable[call'.body]
  BY <1>4, JsonAssumption
<1> QED
  BY <1>1, <1>5

LEMMA SettledStep ==
  ASSUME Known, CallsAskAsMeant', Settled, [Next]_vars
  PROVE  /\ Settled'
         /\ latest = "own" /\ own' > own => table' = table
<1>1. /\ table \in [Service!Key -> Value \cup {Absent}] /\ own \in Nat /\ others \in Int
      /\ transactionLog \in Seq(Service!LogEntry) /\ client \in DOMAIN Dialogues
      /\ call.body \in Seq(Connection!Request!Byte)
      /\ call'.body \in Seq(Connection!Request!Byte)
  BY KnownFacts DEF CallsAsMeant, CallsAskAsMeant
<1>2. First' = First
  BY ClientStays
<1>3. IsPrefix(call.body, call'.body)
  BY BodiesGrow DEF Known
<1>4. ASSUME latest' = latest, table' = table PROVE Settled'
  <2> SUFFICES ASSUME latest = "own"
               PROVE  \E b \in DOMAIN JsonTable :
                        IsPrefix(b, call'.body) /\ Done(table', First'.method, JsonTable[b])
    BY <1>4 DEF Settled
  <2>1. PICK b \in DOMAIN JsonTable : IsPrefix(b, call.body) /\ Done(table, First.method, JsonTable[b])
    BY DEF Settled
  <2>2. b \in Seq(Connection!Request!Byte)
    BY JsonAssumption
  <2>3. IsPrefix(b, call'.body)
    BY <1>1, <1>3, <2>1, <2>2, PrefixOrder
  <2>4. Done(table', First.method, JsonTable[b])
    BY <1>2, <1>4, <2>1 DEF Done
  <2> QED
    BY <1>2, <2>3, <2>4
<1>5. CASE ReadyRead \/ Parse \/ UNCHANGED vars
  <2>1. latest' = latest /\ table' = table
    BY <1>5 DEF ReadyRead, Parse, vars, Shared
  <2> QED
    BY <1>4, <2>1
<1>6. CASE OtherRequest
  <2>1. own' = own
    BY <1>6 DEF OtherRequest
  <2>2. CASE others' = others
    <3>1. table' = table /\ latest' = latest
      BY <1>1, <1>6, <2>2, UnloggedChangesNothing DEF OtherRequest
    <3> QED
      BY <1>4, <3>1
  <2>3. CASE others' # others
    BY <1>1, <1>6, <2>1, <2>3 DEF OtherRequest, Settled
  <2> QED
    BY <2>2, <2>3
<1>7. CASE HandleRequest
  <2> DEFINE doc == FromJson(call'.body)
             asks == Asks(call'.route, call'.method, doc)
  <2>1. IF asks THEN /\ table' = ChangedBy(call'.method, Service!KeyOf(Service!ToInt(doc)),
                                          Service!ToString(doc))
                     /\ own' = own + 1
                ELSE table' = table /\ own' = own
    BY <1>1, <1>7, CallEffect
  <2>2. asks => /\ call'.body \in DOMAIN JsonTable /\ doc = JsonTable[call'.body]
                /\ call'.method = First.method
    BY <1>2 DEF CallsAskAsMeant, Asks, FromJson
  <2>3. asks => call'.method \in {"POST", "PUT", "DELETE"}
    BY DEF Asks
  <2> HIDE DEF doc, asks
  <2>4. CASE ~asks
    <3>1. latest' = latest /\ table' = table
      BY <1>7, <2>1, <2>4 DEF HandleRequest
    <3> QED
      BY <1>1, <1>4, <2>1, <2>4, <3>1
  <2>5. CASE asks
    <3>1. /\ call'.body \in DOMAIN JsonTable
          /\ First.method \in {"POST", "PUT", "DELETE"}
          /\ table' = ChangedBy(First.method, Service!KeyOf(Service!ToInt(JsonTable[call'.body])),
                                Service!ToString(JsonTable[call'.body]))
      BY <2>1, <2>2, <2>3, <2>5
    <3>2. Settled'
      <4>1. Done(table', First.method, JsonTable[call'.body])
        BY <1>1, <3>1, ChangedIsDone
      <4>2. IsPrefix(call'.body, call'.body)
        BY <1>1, PrefixOrder
      <4> QED
        BY <1>2, <3>1, <4>1, <4>2 DEF Settled
    <3>3. latest = "own" => table' = table
      BY <1>1, <1>7, <3>1, SettledIsDone, DoneIsUnchanged
    <3> QED
      BY <3>2, <3>3
  <2> QED
    BY <2>4, <2>5
<1> QED
  BY <1>5, <1>6, <1>7 DEF Next

(* A handler that runs again for the same request, for the rest of a       *)
(* chunked body, for white space behind the document, for the bytes of     *)
(* later requests, leaves the table as it is, unless another client has    *)
(* come in between.                                                        *)
THEOREM RepeatsAreHarmless == Spec => RepeatsChangeNothing
<1>1. Init => Settled
  BY DEF Init, Settled
<1>2. Known /\ CallsAskAsMeant' /\ Settled /\ [Next]_vars
        => Settled' /\ [latest = "own" /\ own' > own => table' = table]_vars
  BY SettledStep
<1> QED
  BY <1>1, <1>2, CallsAsk, KnownInvariance, PTL DEF Spec, RepeatsChangeNothing

-----------------------------------------------------------------------------
(* The whole program is an atomic store.                                   *)

Applied    == IF Unfinished THEN 0 ELSE own
Repeatable == req.chunked \/ Trailing \/ read > Len(First.bytes)

Wanted ==
  [method |-> IF Changes THEN First.method ELSE "none",
   key |-> Key, value |-> Service!ToString(Document)]

(* One step changes one key, as AtomicStore!Other does for other clients.  *)
OneKey == \E k \in Service!Key, v \in Value \cup {Absent} : table' = [table EXCEPT ![k] = v]

LEMMA SameTable ==
  ASSUME table \in [Service!Key -> Value \cup {Absent}], table' = table
  PROVE  OneKey
<1>1. 0 \in Service!Key
  BY ServiceAssumption DEF Service!Key
<1>2. table[0] \in Value \cup {Absent} /\ table = [table EXCEPT ![0] = table[0]]
  BY <1>1
<1> QED
  BY <1>1, <1>2 DEF OneKey

LEMMA ChangeIsOneKey ==
  ASSUME table \in [Service!Key -> Value \cup {Absent}],
         NEW method \in {"POST", "PUT", "DELETE"}, NEW key \in Service!Key, NEW value \in Value,
         table' = ChangedBy(method, key, value)
  PROVE  OneKey
<1>1. CASE table' = table
  BY <1>1, SameTable
<1>2. CASE table' = [table EXCEPT ![key] = value] \/ table' = [table EXCEPT ![key] = Absent]
  BY <1>2 DEF OneKey
<1> QED
  BY <1>1, <1>2 DEF ChangedBy

LEMMA OtherIsOneKey ==
  ASSUME table \in [Service!Key -> Value \cup {Absent}], OtherRequest
  PROVE  OneKey
<1>1. PICK doc \in OtherDocuments :
        Service!PostApi(doc) \/ Service!PutApi(doc) \/ Service!DeleteApi(doc)
  BY DEF OtherRequest
<1>2. doc \in Service!Document
  BY DocumentAssumption
<1> DEFINE key == Service!KeyOf(Service!ToInt(doc))
           value == Service!ToString(doc)
<1>3. key \in Service!Key /\ value \in Value
  BY <1>2, DocumentKey
<1>4. \/ table' = table
      \/ table' = [table EXCEPT ![key] = value]
      \/ table' = [table EXCEPT ![key] = Absent]
  BY <1>1 DEF Service!PostApi, Service!PutApi, Service!DeleteApi, Service!Refuse
<1> HIDE DEF key, value
<1> QED
  BY <1>3, <1>4, SameTable DEF OneKey

(* What was asked for is done by one step of the store.                    *)
LEMMA OwnStep ==
  ASSUME Changes, First.method \in {"POST", "PUT", "DELETE"},
         Applied = 0 \/ Repeatable,
         table' = ChangedBy(First.method, Key, Service!ToString(Document)),
         Applied' = Applied + 1, Wanted' = Wanted
  PROVE  Store!Own
<1>1. Wanted.method = First.method /\ Wanted.key = Key
      /\ Wanted.value = Service!ToString(Document) /\ Wanted.method # "none"
  BY DEF Wanted
<1>2. table' = Store!Changed
  <2> DEFINE key == Key
             value == Service!ToString(Document)
             put == [table EXCEPT ![key] = value]
             post == IF table[key] = Absent THEN put ELSE table
             cleared == [table EXCEPT ![key] = Absent]
             changed == [POST |-> post, PUT |-> put, DELETE |-> cleared]
  <2>1. Store!Changed = changed[First.method]
    BY DEF Store!Changed
  <2>2. ChangedBy(First.method, key, value) =
          CASE First.method = "POST" -> post
            [] First.method = "PUT" -> put
            [] First.method = "DELETE" -> cleared
    BY DEF ChangedBy
  <2> HIDE DEF key, value, put, post, cleared
  <2>3. changed["POST"] = post /\ changed["PUT"] = put /\ changed["DELETE"] = cleared
    OBVIOUS
  <2> HIDE DEF changed
  <2>4. changed[First.method] = ChangedBy(First.method, key, value)
    BY <2>2, <2>3
  <2> QED
    BY <2>1, <2>4 DEF key, value
<1> QED
  BY <1>1, <1>2 DEF Store!Own, Wanted, Applied, Repeatable

LEMMA StoreStep ==
  ASSUME Known, AppliedOnce, CallsAskAsMeant', [Next]_vars
  PROVE  [Store!Next]_(Store!vars)
<1>1. /\ First' = First /\ Document' = Document /\ Key' = Key
      /\ Trailing' = Trailing /\ Changes' = Changes /\ Unfinished' = Unfinished
  BY ClientStays
<1>2. Wanted' = Wanted
  BY <1>1 DEF Wanted
<1>3. table \in [Service!Key -> Value \cup {Absent}] /\ own \in Nat
      /\ transactionLog \in Seq(Service!LogEntry) /\ client \in DOMAIN Dialogues
  BY KnownFacts
<1>4. ASSUME OneKey, Applied' = Applied PROVE Store!Next
  BY <1>2, <1>4 DEF OneKey, Store!Next, Store!Other, Wanted, Applied
<1>5. CASE ReadyRead \/ Parse \/ OtherRequest \/ UNCHANGED vars
  <2>1. own' = own
    BY <1>5 DEF ReadyRead, Parse, OtherRequest, vars, Shared
  <2>2. Applied' = Applied
    BY <1>1, <2>1 DEF Applied
  <2>3. OneKey
    BY <1>3, <1>5, SameTable, OtherIsOneKey DEF ReadyRead, Parse, vars, Shared
  <2> QED
    BY <1>4, <2>2, <2>3
<1>6. CASE HandleRequest
  <2> DEFINE doc == FromJson(call'.body)
             key == Service!KeyOf(Service!ToInt(doc))
             value == Service!ToString(doc)
             asks == Asks(call'.route, call'.method, doc)
  <2>1. IF asks THEN table' = ChangedBy(call'.method, key, value) /\ own' = own + 1
                ELSE table' = table /\ own' = own
    BY <1>3, <1>6, CallEffect
  <2>2. /\ call'.when = "early" /\ ~req'.chunked /\ ~Trailing => ~asks
        /\ asks /\ ~Unfinished => Changes /\ call'.method = First.method /\ Document = doc
        /\ call'.when = "later" => read' > Len(First.bytes)
    BY <1>1 DEF CallsAskAsMeant, Asks, FromJson
  <2>3. key \in Service!Key /\ value \in Value
    BY FromJsonType, DocumentKey
  <2>4. asks => call'.method \in {"POST", "PUT", "DELETE"}
    BY DEF Asks
  <2>5. req' = req /\ read' = read
    BY <1>6 DEF HandleRequest, Connection!HandleRequest
  <2>6. ~(call'.when = "later") => call.when = "early"
    <3>1. call'.when \in {"early", "first", "later"}
      BY <1>6 DEF HandleRequest, Connection!HandleRequest
    <3> QED
      BY <1>6, <3>1, CallOrder
  <2>7. Document = doc => Key = key /\ Service!ToString(Document) = value
    BY DEF Key
  <2> HIDE DEF doc, key, value, asks
  <2>8. CASE ~asks
    <3>1. Applied' = Applied
      BY <1>1, <2>1, <2>8 DEF Applied
    <3>2. OneKey
      BY <1>3, <2>1, <2>8, SameTable
    <3> QED
      BY <1>4, <3>1, <3>2
  <2>9. CASE asks /\ Unfinished
    <3>1. Applied' = Applied
      BY <1>1, <2>9 DEF Applied
    <3>2. OneKey
      BY <1>3, <2>1, <2>3, <2>4, <2>9, ChangeIsOneKey
    <3> QED
      BY <1>4, <3>1, <3>2
  <2>10. CASE asks /\ ~Unfinished
    <3>1. Changes /\ call'.method = First.method /\ Document = doc
      BY <2>2, <2>10
    <3>2. Applied = own /\ Applied' = own + 1
      BY <1>1, <2>1, <2>10 DEF Applied
    <3>3. Applied = 0 \/ Repeatable
      <4>1. CASE call'.when = "later"
        BY <2>2, <2>5, <4>1 DEF Repeatable
      <4>2. CASE call.when = "early"
        BY <3>2, <4>2 DEF AppliedOnce, Repeatable
      <4> QED
        BY <2>6, <4>1, <4>2
    <3>4. table' = ChangedBy(First.method, Key, Service!ToString(Document))
      BY <2>1, <2>7, <2>10, <3>1
    <3>5. First.method \in {"POST", "PUT", "DELETE"}
      BY <2>4, <2>10, <3>1
    <3>6. Store!Own
      BY <1>2, <3>1, <3>2, <3>3, <3>4, <3>5, OwnStep
    <3> QED
      BY <3>6 DEF Store!Next
  <2> QED
    BY <2>8, <2>9, <2>10
<1> QED
  BY <1>5, <1>6 DEF Next

LEMMA StoreInit ==
  ASSUME Init, client \in DOMAIN Dialogues
  PROVE  Store!Init
<1>1. table = [k \in Service!Key |-> Absent] /\ own = 0
  BY DEF Init, Service!Init
<1>2. Document \in Service!Document
  BY DocumentType
<1>3. Key \in Service!Key /\ Service!ToString(Document) \in Value
  BY <1>2, DocumentKey DEF Key
<1>4. Wanted.method \in {"none", "POST", "PUT", "DELETE"}
  BY DEF Wanted, Changes
<1>5. Wanted \in [method : {"none", "POST", "PUT", "DELETE"}, key : Service!Key, value : Value]
  BY <1>3, <1>4 DEF Wanted
<1>6. Applied = 0
  BY <1>1 DEF Applied
<1>7. Repeatable \in BOOLEAN
  BY DEF Repeatable
<1> QED
  BY <1>1, <1>5, <1>6, <1>7 DEF Store!Init, Wanted, Applied, Repeatable

(* From the bytes to the table the program does what AtomicStore promises: *)
(* however its request is cut, whatever handlers are called on the way and *)
(* whatever other clients do, a client changes the table as the request    *)
(* says, at once and once.                                                 *)
THEOREM ProgramIsAtomicStore == Spec => IsAtomicStore
<1>1. Init => Store!Init
  <2>1. Init => client \in DOMAIN Dialogues
    BY DEF Init, Connection!Init
  <2> QED
    BY <2>1, StoreInit
<1>2. Known /\ AppliedOnce /\ CallsAskAsMeant' /\ [Next]_vars => [Store!Next]_(Store!vars)
  BY StoreStep
<1> QED
  BY <1>1, <1>2, CallsAsk, KnownInvariance, RequestsAppliedOnce, PTL
     DEF Spec, IsAtomicStore, Store!Spec

=============================================================================
